--------------------------- MODULE TurnInputProofs ---------------------------
(***************************************************************************)
(* That the inputs the engine of TurnPriority waits for are inputs it can  *)
(* use, for every value of the constants: a resolution is suspended on the *)
(* object on top of the stack and its answers are found again, a target is asked for an object still on    *)
(* it and before that object resolves, a held batch has its order asked    *)
(* for, and no declaration of combat is left open when its step ends.      *)
(***************************************************************************)
EXTENDS TurnOrderProofs, WellFoundedInduction

(* A batch off the stack is asked for; a target is asked for an object on  *)
(* the stack.                                                              *)
Held(r) == r.held => "order" \in KindsOf(r.choices)
Alive(r) ==
  \A t \in r.target : \E k \in DOMAIN r.stack :
    /\ r.stack[k].id = t.id /\ r.stack[k].by = t.by
    /\ r.stack[k].needs <=> t.kind = "trigger"

(* A trigger that has not announced its target has some trigger asked for  *)
(* one, and nobody is offered new targets for a copy meanwhile.            *)
NeedsTarget(s) == \E k \in DOMAIN s : s[k].needs
Asked(r) ==
  NeedsTarget(r.stack) => r.target # {} /\ \A t \in r.target : t.kind = "trigger"

(* A round that suspends no resolution, and one that suspends that of its  *)
(* top object and waits for nothing else.                                  *)
Tidy(r) == Held(r) /\ Alive(r) /\ "resolution" \notin KindsOf(r.choices)
Orderly(r) == Tidy(r) /\ Asked(r)
Behind(r) ==
  /\ r.stack # <<>> /\ r.target = {} /\ ~r.held /\ ~NeedsTarget(r.stack)
  /\ \A k \in DOMAIN r.choices :
       r.choices[k].kind = "resolution" /\ r.choices[k].id = Top(r).id

(* A suspended resolution is left alone until it is answered.              *)
Asking ==
  \/ Orderly(round)
  \/ Behind(round) /\ round.choices # <<>> /\ ctl.at \in {"rest", "drain", "sweep"}

(* An object resolves, and its resolution is settled, with nothing owed.   *)
Settled ==
  /\ ctl.at \in {"resolve", "settle"} => ~OwesInput(round)
  /\ ctl.at = "resolve" => round.stack # <<>>

(* Damage to be assigned keeps the game in its step.                       *)
OpenHere ==
  combat.open => phase \in DamageSteps /\ ctl.at \notin {"advance", "turn", "enter"}

InputInv == Asking /\ Settled /\ OpenHere /\ BlocksDeclared

-----------------------------------------------------------------------------
(* Rounds.                                                                 *)
LEMMA SameInputs ==
  ASSUME NEW r, NEW s, Orderly(r), s.stack = r.stack, s.target = r.target,
         s.choices = r.choices, s.held = r.held
  PROVE  Orderly(s)
BY DEF Orderly, Tidy, Asked, Held, Alive

LEMMA GrantOrderly ==
  ASSUME NEW r \in Round, Orderly(r), NEW p \in Player
  PROVE  Orderly(Grant(r, p)) /\ Grant(r, p) \in Round
<1>1. /\ Grant(r, p).stack = r.stack /\ Grant(r, p).target = r.target
      /\ Grant(r, p).choices = r.choices /\ Grant(r, p).held = r.held
  BY DEF Grant, Round
<1> QED
  BY <1>1, SameInputs, GrantType

LEMMA HeadChooserOrderly ==
  ASSUME NEW r \in Round, Orderly(r)
  PROVE  Orderly(HeadChooser(r)) /\ HeadChooser(r) \in Round
BY HeadChooserEffect, HeadChooserType, SameInputs

LEMMA HandOnInputs ==
  ASSUME NEW r \in Round, NEW ap \in Player
  PROVE  /\ HandPriorityOn(r, ap).stack = r.stack /\ HandPriorityOn(r, ap).target = r.target
         /\ HandPriorityOn(r, ap).choices = r.choices /\ HandPriorityOn(r, ap).held = r.held
BY DEF HandPriorityOn, HeadChooser, Grant, Round

(* A higher stack holds what it held.                                      *)
LEMMA ConcatKeeps ==
  ASSUME NEW s \in Seq(Item), NEW t \in Seq(Item)
  PROVE  \A k \in DOMAIN s : k \in DOMAIN (s \o t) /\ (s \o t)[k] = s[k]
<1>1. /\ s \o t \in Seq(Item) /\ Len(s) \in Nat /\ Len(t) \in Nat
      /\ Len(s \o t) = Len(s) + Len(t)
      /\ \A i \in 1..(Len(s) + Len(t)) :
           (s \o t)[i] = IF i <= Len(s) THEN s[i] ELSE t[i - Len(s)]
  BY ConcatProperties, LenProperties
<1>2. DOMAIN (s \o t) = 1..(Len(s) + Len(t)) /\ DOMAIN s = 1..Len(s)
  BY <1>1, LenProperties
<1>3. \A k \in 1..Len(s) : k \in 1..(Len(s) + Len(t)) /\ k <= Len(s)
  BY <1>1
<1> QED
  BY <1>1, <1>2, <1>3

LEMMA ConcatTwiceKeeps ==
  ASSUME NEW s \in Seq(Item), NEW t \in Seq(Item), NEW u \in Seq(Item)
  PROVE  \A k \in DOMAIN s : k \in DOMAIN (s \o t \o u) /\ (s \o t \o u)[k] = s[k]
<1>1. s \o t \in Seq(Item)
  BY ConcatProperties
<1>2. \A k \in DOMAIN s : k \in DOMAIN (s \o t) /\ (s \o t)[k] = s[k]
  BY ConcatKeeps
<1>3. \A k \in DOMAIN (s \o t) :
        k \in DOMAIN (s \o t \o u) /\ (s \o t \o u)[k] = (s \o t)[k]
  BY <1>1, ConcatKeeps
<1> QED
  BY <1>2, <1>3, Zenon

LEMMA StackedKeeps ==
  ASSUME NEW s \in Seq(Item), NEW b \in Batch, NEW p \in Player
  PROVE  \A k \in DOMAIN s :
           /\ k \in DOMAIN (s \o b.of[p] \o b.of[Opponent(p)])
           /\ (s \o b.of[p] \o b.of[Opponent(p)])[k] = s[k]
<1>1. b.of[p] \in Seq(Item) /\ b.of[Opponent(p)] \in Seq(Item)
  BY OpponentIsOther, TriggersAreItems DEF Batch
<1> QED
  BY <1>1, ConcatTwiceKeeps, Zenon

LEMMA StackedTidy ==
  ASSUME NEW r \in Round, Tidy(r), NEW b \in Batch, NEW p \in Player, NEW s,
         s.stack = r.stack \o b.of[p] \o b.of[Opponent(p)],
         s.target = r.target, s.choices = r.choices, s.held = r.held
  PROVE  Tidy(s)
<1>1. r.stack \in Seq(Item)
  BY DEF Round
<1>2. \A k \in DOMAIN r.stack : k \in DOMAIN s.stack /\ s.stack[k] = r.stack[k]
  BY <1>1, StackedKeeps
<1> QED
  BY <1>2 DEF Tidy, Held, Alive

(* Who needs a target on a higher stack needed it below or came with it.   *)
LEMMA NeedsOfConcat ==
  ASSUME NEW s \in Seq(Item), NEW t \in Seq(Item), ~NeedsTarget(s), ~NeedsTarget(t)
  PROVE  s \o t \in Seq(Item) /\ ~NeedsTarget(s \o t)
<1>1. /\ s \o t \in Seq(Item) /\ Len(s) \in Nat /\ Len(t) \in Nat
      /\ Len(s \o t) = Len(s) + Len(t)
      /\ \A i \in 1..(Len(s) + Len(t)) :
           (s \o t)[i] = IF i <= Len(s) THEN s[i] ELSE t[i - Len(s)]
  BY ConcatProperties, LenProperties
<1>2. DOMAIN (s \o t) = 1..(Len(s) + Len(t)) /\ DOMAIN s = 1..Len(s) /\ DOMAIN t = 1..Len(t)
  BY <1>1, LenProperties
<1>3. ASSUME NEW i \in 1..(Len(s) + Len(t))
      PROVE  ~(s \o t)[i].needs
  <2>1. CASE i <= Len(s)
    <3>1. i \in 1..Len(s) /\ (s \o t)[i] = s[i]
      BY <1>1, <2>1
    <3> QED
      BY <1>2, <3>1 DEF NeedsTarget
  <2>2. CASE ~(i <= Len(s))
    <3>1. i - Len(s) \in 1..Len(t) /\ (s \o t)[i] = t[i - Len(s)]
      BY <1>1, <2>2
    <3> QED
      BY <1>2, <3>1 DEF NeedsTarget
  <2> QED
    BY <2>1, <2>2
<1> QED
  BY <1>1, <1>2, <1>3 DEF NeedsTarget

LEMMA NeedsOfAppend ==
  ASSUME NEW s \in Seq(Item), ~NeedsTarget(s), NEW x \in Item, ~x.needs
  PROVE  ~NeedsTarget(Append(s, x))
BY AppendProperties, LenProperties DEF NeedsTarget

(* A stack with a trigger that needs a target has a topmost one.           *)
LEMMA SomeUnannounced ==
  ASSUME NEW s \in Seq(Item), NeedsTarget(s)
  PROVE  Unannounced(s) # {}
<1> DEFINE depths == { Len(s) - k : k \in { i \in DOMAIN s : s[i].needs } }
<1>1. Len(s) \in Nat /\ DOMAIN s = 1..Len(s)
  BY LenProperties
<1>2. depths \subseteq Nat /\ depths # {}
  BY <1>1 DEF NeedsTarget
<1>3. PICK d \in depths : \A e \in depths : ~(<<e, d>> \in OpToRel(<, Nat))
  <2> HIDE DEF depths
  <2> QED
    BY <1>2, NatLessThanWellFounded, WFMin
<1>4. PICK i \in DOMAIN s : s[i].needs /\ d = Len(s) - i
  OBVIOUS
<1>5. ASSUME NEW j \in DOMAIN s, j > i, s[j].needs
      PROVE  FALSE
  <2>1. Len(s) - j \in depths /\ Len(s) - j \in Nat /\ d \in Nat /\ Len(s) - j < d
    BY <1>1, <1>4, <1>5
  <2> QED
    BY <1>3, <2>1 DEF OpToRel
<1> QED
  BY <1>4, <1>5 DEF Unannounced

(* What is raised is on the stack.                                         *)
LEMMA LandOrderly ==
  ASSUME NEW r \in Round, Tidy(r), NEW ap \in Player
  PROVE  Orderly(Land(r, ap)) /\ Land(r, ap) \in Round
<1>0. Land(r, ap) \in Round
  BY LandType
<1>1. CASE Unannounced(r.stack) = {}
  <2>1. ~NeedsTarget(r.stack)
    BY <1>1, SomeUnannounced DEF Round
  <2>2. Orderly(r)
    BY <2>1 DEF Orderly, Asked
  <2> QED
    BY <1>1, <2>2, GrantOrderly DEF Land
<1>2. CASE Unannounced(r.stack) # {}
  <2> DEFINE raised == { [kind |-> "trigger", by |-> r.stack[i].by, id |-> r.stack[i].id]
                         : i \in Unannounced(r.stack) }
  <2>1. Land(r, ap) = RaiseTarget(r)
    BY <1>2 DEF Land
  <2>2. /\ RaiseTarget(r).stack = r.stack /\ RaiseTarget(r).target = raised
        /\ RaiseTarget(r).choices = r.choices /\ RaiseTarget(r).held = r.held
    BY DEF RaiseTarget, Round
  <2>3. ASSUME NEW t \in raised
        PROVE  \E k \in DOMAIN r.stack :
                 /\ r.stack[k].id = t.id /\ r.stack[k].by = t.by
                 /\ r.stack[k].needs <=> t.kind = "trigger"
    <3>1. PICK i \in Unannounced(r.stack) :
            t = [kind |-> "trigger", by |-> r.stack[i].by, id |-> r.stack[i].id]
      BY <2>3
    <3>2. i \in DOMAIN r.stack /\ r.stack[i].needs
      BY DEF Unannounced
    <3> QED
      BY <3>1, <3>2
  <2>4. raised # {} /\ \A t \in raised : t.kind = "trigger"
    <3>1. PICK i \in Unannounced(r.stack) : TRUE
      BY <1>2
    <3>2. [kind |-> "trigger", by |-> r.stack[i].by, id |-> r.stack[i].id] \in raised
      BY <3>1
    <3>3. \A t \in raised : t.kind = "trigger"
      OBVIOUS
    <3> HIDE DEF raised
    <3> QED
      BY <3>2, <3>3
  <2> HIDE DEF raised
  <2> QED
    BY <1>0, <2>1, <2>2, <2>3, <2>4 DEF Orderly, Tidy, Asked, Held, Alive
<1> QED
  BY <1>1, <1>2

LEMMA KindsOfBoth ==
  ASSUME NEW s \in Seq(Choice), NEW t \in Seq(Choice)
  PROVE  KindsOf(s) \cup KindsOf(t) \subseteq KindsOf(s \o t)
<1>1. /\ s \o t \in Seq(Choice) /\ Len(s) \in Nat /\ Len(t) \in Nat
      /\ Len(s \o t) = Len(s) + Len(t)
      /\ \A i \in 1..(Len(s) + Len(t)) :
           (s \o t)[i] = IF i <= Len(s) THEN s[i] ELSE t[i - Len(s)]
  BY ConcatProperties, LenProperties
<1>2. DOMAIN (s \o t) = 1..(Len(s) + Len(t)) /\ DOMAIN s = 1..Len(s) /\ DOMAIN t = 1..Len(t)
  BY <1>1, LenProperties
<1>3. ASSUME NEW i \in 1..Len(s)
      PROVE  s[i].kind \in KindsOf(s \o t)
  <2>1. i \in 1..(Len(s) + Len(t)) /\ (s \o t)[i] = s[i]
    BY <1>1
  <2> QED
    BY <1>2, <2>1 DEF KindsOf
<1>4. ASSUME NEW i \in 1..Len(t)
      PROVE  t[i].kind \in KindsOf(s \o t)
  <2>1. i + Len(s) \in 1..(Len(s) + Len(t)) /\ ~(i + Len(s) <= Len(s)) /\ i + Len(s) - Len(s) = i
    BY <1>1
  <2>2. (s \o t)[i + Len(s)] = t[i]
    BY <1>1, <2>1
  <2> QED
    BY <1>2, <2>1, <2>2 DEF KindsOf
<1> QED
  BY <1>2, <1>3, <1>4 DEF KindsOf

(* The seats whose triggers must be ordered are asked for the order.       *)
LEMMA OrderAsked ==
  ASSUME NEW ordered \in SUBSET Player, ordered # {}, NEW ap \in Player
  PROVE  "order" \in KindsOf(OrderChoices(ordered, ap))
<1> DEFINE mine == IF ap \in ordered THEN << Order(ap) >> ELSE <<>>
           theirs == IF Opponent(ap) \in ordered THEN << Order(Opponent(ap)) >> ELSE <<>>
<1>1. Opponent(ap) \in Player /\ Opponent(ap) # ap
  BY OpponentIsOther
<1>2. Order(ap) \in Choice /\ Order(Opponent(ap)) \in Choice
  BY <1>1 DEF Order, Choice, ChoiceKind
<1>3. mine \in Seq(Choice) /\ theirs \in Seq(Choice)
  BY <1>2
<1>4. ap \in ordered \/ Opponent(ap) \in ordered
  BY <1>1, PlayerAssumption
<1>5. Order(ap).kind = "order" /\ Order(Opponent(ap)).kind = "order"
  BY DEF Order
<1>6. "order" \in KindsOf(mine) \cup KindsOf(theirs)
  BY <1>4, <1>5, OneKind
<1> HIDE DEF mine, theirs
<1>7. "order" \in KindsOf(mine \o theirs)
  BY <1>3, <1>6, KindsOfBoth
<1> QED
  BY <1>7 DEF OrderChoices, mine, theirs

LEMMA FiringOrdered ==
  ASSUME NEW source \in Source, NEW r \in Round, NEW ap \in Player, NEW spared,
         NEW b \in Firing(source, r, ap, spared)
  PROVE  b.ordered \in SUBSET Player
<1>1. PICK shape \in Fires[source] :
        \E ids \in FreshIds(Id \ (UsedIds(r) \cup spared), Size(shape)) :
          b = Built(shape, ids, ap)
  BY DEF Firing
<1>2. PICK ids : b = Built(shape, ids, ap)
  BY <1>1
<1>3. b.ordered = { Seat(ap, s) : s \in shape.ordered }
  BY <1>2 DEF Built
<1> QED
  BY <1>3, SeatIsPlayer

LEMMA PlacedOrderly ==
  ASSUME NEW source \in Source, NEW r \in Round, Orderly(r), NEW ap \in Player, NEW spared,
         NEW s \in Placed(source, r, ap, spared)
  PROVE  Orderly(s) /\ s \in Round
<1>0. s \in Round
  BY PlacedType
<1>1. PICK f \in Firing(source, r, ap, spared) :
        s = PlaceTriggersOnStack(r, BatchOf(f), f.ordered, ap)
  BY DEF Placed
<1> DEFINE b == BatchOf(f)
           placed == [r EXCEPT !.stack = @ \o b.of[ap] \o b.of[Opponent(ap)]]
           parked == [r EXCEPT !.batch = b, !.held = TRUE, !.passes = 0,
                               !.choices = @ \o OrderChoices(f.ordered, ap)]
<1>2. b \in Batch /\ f.ordered \in SUBSET Player
  BY FiringType, FiringOrdered
<1>3. s = PlaceTriggersOnStack(r, b, f.ordered, ap)
  BY <1>1
<1> HIDE DEF b
<1>4. r.stack \in Seq(Item) /\ r.choices \in Seq(Choice)
  BY DEF Round
<1>5. CASE \A p \in Player : b.of[p] = <<>>
  BY <1>0, <1>3, <1>5 DEF PlaceTriggersOnStack
<1>6. CASE ~(\A p \in Player : b.of[p] = <<>>) /\ f.ordered = {}
  <2>1. s = Land(placed, ap)
    BY <1>3, <1>6 DEF PlaceTriggersOnStack
  <2>2. r.stack \o b.of[ap] \o b.of[Opponent(ap)] \in Seq(Item)
    BY <1>2, <1>4, OpponentIsOther, StackedType
  <2>3. placed \in Round
    BY <2>2 DEF Round
  <2>4. /\ placed.stack = r.stack \o b.of[ap] \o b.of[Opponent(ap)]
        /\ placed.target = r.target /\ placed.choices = r.choices /\ placed.held = r.held
    BY DEF Round
  <2> HIDE DEF placed
  <2>5. Tidy(placed)
    BY <1>2, <2>4, StackedTidy DEF Orderly
  <2> QED
    BY <2>1, <2>3, <2>5, LandOrderly
<1>7. CASE ~(\A p \in Player : b.of[p] = <<>>) /\ f.ordered # {}
  <2>1. s = HeadChooser(parked)
    BY <1>3, <1>7 DEF PlaceTriggersOnStack
  <2>2. OrderChoices(f.ordered, ap) \in Seq(Choice)
    BY OrderChoicesType
  <2>3. r.choices \o OrderChoices(f.ordered, ap) \in Seq(Choice)
    BY <1>4, <2>2, ConcatProperties
  <2>4. parked \in Round
    BY <1>2, <2>3 DEF Round
  <2>5. /\ parked.choices = r.choices \o OrderChoices(f.ordered, ap)
        /\ parked.stack = r.stack /\ parked.target = r.target
    BY DEF Round
  <2> HIDE DEF parked
  <2>6. "order" \in KindsOf(parked.choices)
    BY <1>2, <1>4, <1>7, <2>2, <2>5, OrderAsked, KindsOfBoth
  <2>7. "resolution" \notin KindsOf(parked.choices)
    BY <1>4, <2>2, <2>5, KindsOfConcat, OrderChoicesKinds DEF Orderly, Tidy, Asked
  <2>8. Orderly(parked)
    BY <2>5, <2>6, <2>7 DEF Orderly, Tidy, Asked, Held, Alive
  <2> QED
    BY <2>1, <2>4, <2>8, HeadChooserOrderly
<1> QED
  BY <1>5, <1>6, <1>7

LEMMA PlaceOrderly ==
  ASSUME TypeOK, NEW source \in Source, NEW r \in Round, Orderly(r), NEW s \in Place(source, r)
  PROVE  Orderly(s) /\ s \in Round
BY PlacedOrderly DEF TypeOK, Place

(* A delayed trigger announces no target.                                  *)
LEMMA DelayedNeedNothing ==
  ASSUME NEW r \in Round, NEW ap \in Player, NEW spared,
         NEW b \in Firing("delayed", r, ap, spared), NEW p \in Player
  PROVE  ~NeedsTarget(b.of[p])
<1>1. PICK shape \in Fires["delayed"] :
        \E ids \in FreshIds(Id \ (UsedIds(r) \cup spared), Size(shape)) :
          b = Built(shape, ids, ap)
  BY DEF Firing
<1>2. PICK ids : b = Built(shape, ids, ap)
  BY <1>1
<1> DEFINE side == IF p = ap THEN "active" ELSE "other"
<1>3. b.of[p] = Slice(shape, ids, ap, p)
  BY <1>2 DEF Built
<1>4. /\ side \in Side /\ shape.of[side] \in Seq(BOOLEAN)
      /\ DOMAIN shape.of[side] = 1..Len(shape.of[side])
  <2>1. shape \in Shape
    BY FiresAssumption DEF Source
  <2> QED
    BY <2>1, LenProperties DEF Shape, Side
<1>5. \A k \in 1..Len(shape.of[side]) : ~shape.of[side][k]
  BY <1>4, DelayedAssumption
<1>6. DOMAIN b.of[p] = 1..Len(shape.of[side])
      /\ \A k \in 1..Len(shape.of[side]) : b.of[p][k].needs = shape.of[side][k]
  BY <1>3 DEF Slice
<1> QED
  BY <1>5, <1>6 DEF NeedsTarget

LEMMA DelayedOrderly ==
  ASSUME TypeOK, NEW r \in Round, Orderly(r), NEW s \in Delayed(r)
  PROVE  Orderly(s) /\ s \in Round
<1>0. s \in Round
  BY DelayedType
<1>1. CASE phase \in owed.delayed
  <2>1. PICK f \in Firing("delayed", r, active, Spared) :
          s = FireDelayed(r, BatchOf(f), active)
    BY <1>1 DEF Delayed
  <2> DEFINE b == BatchOf(f)
             fired == [r EXCEPT !.stack = @ \o b.of[b.lead] \o b.of[Opponent(b.lead)]]
  <2>2. b \in Batch /\ b.lead \in Player /\ active \in Player /\ r.stack \in Seq(Item)
    BY FiringType DEF TypeOK, Source, Batch, Round
  <2>3. s = r \/ s = Grant(fired, active)
    BY <2>1 DEF FireDelayed
  <2>0. \A p \in Player : ~NeedsTarget(b.of[p])
    BY <2>2, DelayedNeedNothing DEF BatchOf
  <2> HIDE DEF b
  <2>4. r.stack \o b.of[b.lead] \o b.of[Opponent(b.lead)] \in Seq(Item)
    BY <2>2, OpponentIsOther, StackedType
  <2>5. /\ fired \in Round /\ fired.stack = r.stack \o b.of[b.lead] \o b.of[Opponent(b.lead)]
        /\ fired.target = r.target /\ fired.choices = r.choices /\ fired.held = r.held
    BY <2>4 DEF Round
  <2> HIDE DEF fired
  <2>6. Orderly(fired)
    <3>1. Tidy(fired)
      BY <2>2, <2>5, StackedTidy DEF Orderly
    <3>2. b.of[b.lead] \in Seq(Item) /\ b.of[Opponent(b.lead)] \in Seq(Item)
          /\ ~NeedsTarget(b.of[b.lead]) /\ ~NeedsTarget(b.of[Opponent(b.lead)])
      BY <2>0, <2>2, OpponentIsOther, TriggersAreItems DEF Batch
    <3>3. ~NeedsTarget(r.stack) => ~NeedsTarget(fired.stack)
      BY <2>2, <2>5, <3>2, NeedsOfConcat
    <3> QED
      BY <2>5, <3>1, <3>3 DEF Orderly, Asked
  <2> QED
    BY <1>0, <2>2, <2>3, <2>5, <2>6, GrantOrderly
<1>2. CASE phase \notin owed.delayed
  BY <1>0, <1>2 DEF Delayed
<1> QED
  BY <1>1, <1>2

LEMMA BegunOrderly ==
  ASSUME TypeOK, NEW r \in Round, Orderly(r), NEW s \in Begun(r)
  PROVE  Orderly(s) /\ s \in Round
BY PlaceOrderly DEF Begun, Source

(* A check asks about a legend only when nothing else is asked.            *)
LEMMA CheckOrderly ==
  ASSUME TypeOK, NEW r \in Round, Orderly(r), NEW s \in CheckStateBasedActions(r)
  PROVE  Orderly(s.round) /\ s.round \in Round
<1>0. s.round \in Round
  BY CheckType DEF Outcome
<1>1. CASE board = "clean"
  BY <1>0, <1>1 DEF CheckStateBasedActions, Found
<1>2. CASE board = "legend" /\ r.choices = <<>>
  <2>1. s \in { Found(AskLegend(r, p), "due", combat) : p \in Player }
    BY <1>2 DEF CheckStateBasedActions
  <2>2. PICK p \in Player : s = Found(AskLegend(r, p), "due", combat)
    BY <2>1
  <2>3. /\ s.round.choices = << [kind |-> "legend", by |-> p, id |-> 0] >>
        /\ s.round.stack = r.stack /\ s.round.target = r.target /\ s.round.held = r.held
    BY <2>2 DEF Found, AskLegend, Round
  <2>4. KindsOf(s.round.choices) = {"legend"}
    BY <2>3, OneKind
  <2>5. ~r.held
    BY <1>2, KindsOfEmpty DEF Orderly, Tidy, Asked, Held
  <2> QED
    BY <1>0, <2>3, <2>4, <2>5 DEF Orderly, Tidy, Asked, Held, Alive
<1>3. CASE board # "clean" /\ ~(board = "legend" /\ r.choices = <<>>)
  <2>1. \/ s \in { Found(x, Left, c) : x \in Place("death", r), c \in Survivors(combat) }
        \/ s \in { Lost(r) : e \in Effects \cap {"lose"} }
    BY <1>3 DEF CheckStateBasedActions
  <2>2. CASE s \in { Found(x, Left, c) : x \in Place("death", r), c \in Survivors(combat) }
    <3>1. PICK x \in Place("death", r), c \in Survivors(combat) : s = Found(x, Left, c)
      BY <2>2
    <3>2. Orderly(x)
      BY PlaceOrderly DEF Source
    <3> QED
      BY <1>0, <3>1, <3>2 DEF Found
  <2>3. CASE s \in { Lost(r) : e \in Effects \cap {"lose"} }
    <3>1. s = Lost(r)
      BY <2>3
    <3> QED
      BY <1>0, <3>1 DEF Lost
  <2> QED
    BY <2>1, <2>2, <2>3
<1> QED
  BY <1>1, <1>2, <1>3

-----------------------------------------------------------------------------
(* Where the running mutation stands.                                      *)
LEMMA AtWork ==
  ASSUME Orderly(round'), ctl'.at \notin {"resolve", "settle"}
  PROVE  Asking' /\ Settled'
BY DEF Asking, Settled

LEMMA Elsewhere ==
  ASSUME Asking, ctl.at \notin {"rest", "drain", "sweep"}
  PROVE  Orderly(round)
BY DEF Asking

(* A suspended resolution is all that is awaited.                          *)
LEMMA AwaitsOther ==
  ASSUME TypeOK, Asking, NEW kind, kind # "resolution", NEW p, Awaits(kind, p)
  PROVE  Orderly(round)
<1>1. round.choices \in Seq(Choice)
  BY DEF TypeOK, Round
<1>2. CASE Behind(round) /\ round.choices # <<>>
  <2>1. 1 \in DOMAIN round.choices /\ Head(round.choices) = round.choices[1]
    BY <1>1, <1>2, EmptySeq, LenProperties
  <2>2. Head(round.choices).kind = "resolution"
    BY <1>2, <2>1 DEF Behind
  <2> QED
    BY <1>2, <2>2 DEF Awaits
<1> QED
  BY <1>2 DEF Asking

LEMMA DrainAsking ==
  ASSUME TypeOK, Asking, DrainAutoPasses
  PROVE  Asking' /\ Settled'
<1>1. round' = round
  BY DEF DrainAutoPasses
<1>2. CASE OwesInput(round)
  <2>1. Halt
    BY <1>2 DEF DrainAutoPasses
  <2>2. ctl'.at \in {"rest", "sweep"}
    BY <2>1, HaltAt
  <2> QED
    BY <1>1, <2>2 DEF Asking, Settled
<1>3. CASE ~OwesInput(round)
  <2>1. Halt \/ StartPass
    BY <1>3 DEF DrainAutoPasses
  <2>2. ctl'.at \in {"rest", "sweep", "check"}
    BY <2>1, HaltAt DEF StartPass, TypeOK, Control
  <2>3. Orderly(round)
    BY <1>3 DEF Asking, OwesInput
  <2> QED
    BY <1>1, <2>2, <2>3, AtWork
<1> QED
  BY <1>2, <1>3

LEMMA CheckBeforePassAsking ==
  ASSUME TypeOK, Asking, CheckBeforePass
  PROVE  Asking' /\ Settled'
<1>1. Orderly(round) /\ round \in Round
  BY Elsewhere DEF CheckBeforePass, TypeOK
<1>2. PICK s \in CheckStateBasedActions(round) :
        round' = s.round /\ (Halt \/ Goto("take") \/ Goto("drain"))
  BY DEF CheckBeforePass, After
<1>3. ctl'.at \in {"rest", "sweep", "take", "drain"}
  BY <1>2, HaltAt, GotoAt
<1>4. Orderly(round')
  BY <1>1, <1>2, CheckOrderly
<1> QED
  BY <1>3, <1>4, AtWork

(* The second pass in succession found nothing owed and added nothing.     *)
LEMMA CountPassAsking ==
  ASSUME TypeOK, NEW r \in Round, Orderly(r), r = round \/ r.passes = 0,
         ~OwesInput(round), CountPass(r)
  PROVE  Asking' /\ Settled'
<1>1. /\ round'.choices = r.choices /\ round'.stack = r.stack
      /\ round'.target = r.target /\ round'.held = r.held
  BY DEF CountPass, Round
<1>2. Orderly(round')
  BY <1>1, SameInputs
<1>3. CASE r.passes + 1 >= 2
  <2>1. r.passes # 0
    BY <1>3
  <2>2. ~OwesInput(round')
    BY <1>1, <2>1 DEF OwesInput
  <2>3. Goto(IF r.stack # <<>> THEN "resolve" ELSE "advance")
    BY <1>3 DEF CountPass
  <2>4. ctl'.at = "resolve" => round'.stack # <<>>
    BY <1>1, <2>3, GotoAt
  <2> QED
    BY <1>2, <2>2, <2>4 DEF Asking, Settled
<1>4. CASE ~(r.passes + 1 >= 2)
  <2>1. Goto("drain")
    BY <1>4 DEF CountPass
  <2> QED
    BY <1>2, <2>1, GotoAt, AtWork
<1> QED
  BY <1>3, <1>4

LEMMA TakeAsking ==
  ASSUME TypeOK, Sound, Asking,
         TakeDeclaring \/ TakeHaltsForBlocks \/ TakeNoBlocks \/ TakeDamaging \/ TakePass
  PROVE  Asking' /\ Settled'
<1>1. ctl.at = "take" /\ round \in Round
  BY DEF TakeDeclaring, TakeHaltsForBlocks, TakeNoBlocks, TakeDamaging, TakePass, TypeOK
<1>2. ~OwesInput(round) /\ NoSolo(round.choices) /\ Orderly(round)
  BY <1>1, NoneElsewhere, Elsewhere DEF Sound, DrainOwed
<1>3. CASE TakeDeclaring
  <2>1. PICK r \in IF combat.attacking THEN Place("attack", round) ELSE {round} :
          CountPass(r)
    BY <1>3 DEF TakeDeclaring
  <2>2. r \in Round /\ Orderly(r) /\ (r = round \/ r.passes = 0)
    BY <1>1, <1>2, <2>1, PlaceEffect, PlaceOrderly DEF Source
  <2> QED
    BY <1>2, <2>1, <2>2, CountPassAsking
<1>4. CASE TakeHaltsForBlocks
  <2>1. /\ round'.choices = round.choices /\ round'.stack = round.stack
        /\ round'.target = round.target /\ round'.held = round.held
    BY <1>1, <1>4 DEF TakeHaltsForBlocks, Round
  <2>2. Halt
    BY <1>4 DEF TakeHaltsForBlocks
  <2>3. ctl'.at \in {"rest", "sweep"}
    BY <2>2, HaltAt
  <2>4. Orderly(round')
    BY <1>2, <2>1, SameInputs
  <2> QED
    BY <2>3, <2>4, AtWork
<1>5. CASE TakeDamaging
  <2>1. PICK r \in Place("damage", round) : CountPass(r)
    BY <1>5 DEF TakeDamaging
  <2>2. r \in Round /\ Orderly(r) /\ (r = round \/ r.passes = 0)
    BY <1>1, <1>2, <2>1, PlaceEffect, PlaceOrderly DEF Source
  <2> QED
    BY <1>2, <2>1, <2>2, CountPassAsking
<1>6. CASE TakeNoBlocks
  <2>1. PICK r \in IF combat.attacking THEN Place("block", round) ELSE {round} :
          CountPass(r)
    BY <1>6 DEF TakeNoBlocks
  <2>2. r \in Round /\ Orderly(r) /\ (r = round \/ r.passes = 0)
    BY <1>1, <1>2, <2>1, PlaceEffect, PlaceOrderly DEF Source
  <2> QED
    BY <1>2, <2>1, <2>2, CountPassAsking
<1>7. CASE TakePass
  <2>1. CountPass(round)
    BY <1>7 DEF TakePass
  <2> QED
    BY <1>1, <1>2, <2>1, CountPassAsking
<1> QED
  BY <1>3, <1>4, <1>5, <1>6, <1>7

-----------------------------------------------------------------------------
(* Resolution.                                                             *)
LEMMA ThenHandOnAsking ==
  ASSUME TypeOK, NEW r \in Round, Orderly(r), ThenHandOn(r)
  PROVE  Asking' /\ Settled'
<1>1. /\ round'.stack = r.stack /\ round'.target = r.target
      /\ round'.choices = r.choices /\ round'.held = r.held
  BY HandOnInputs DEF ThenHandOn, TypeOK
<1>2. Orderly(round')
  BY <1>1, SameInputs
<1>3. CASE OwesInput(r)
  <2>1. Goto("drain") \/ Halt
    BY <1>3 DEF ThenHandOn
  <2>2. ctl'.at \in {"drain", "rest", "sweep"}
    BY <2>1, GotoAt, HaltAt
  <2> QED
    BY <1>2, <2>2, AtWork
<1>4. CASE ~OwesInput(r)
  <2>1. ~OwesInput(round')
    BY <1>1, <1>4 DEF OwesInput
  <2>2. Goto("drain") \/ Goto("settle")
    BY <1>4 DEF ThenHandOn
  <2>3. ctl'.at # "resolve"
    BY <2>2, GotoAt
  <2> QED
    BY <1>2, <2>1, <2>3 DEF Asking, Settled
<1> QED
  BY <1>3, <1>4

LEMMA ResolvedAsking ==
  ASSUME TypeOK, NEW r \in Round, Orderly(r), NEW w, NEW c, NEW b, Resolved(r, w, c, b)
  PROVE  Asking' /\ Settled'
<1>1. PICK s \in Place("resolve", r) : ThenHandOn(s)
  BY DEF Resolved
<1>2. s \in Round /\ Orderly(s)
  BY PlaceOrderly DEF Source
<1> QED
  BY <1>1, <1>2, ThenHandOnAsking

(* The choices of a suspension stand before the top of the stack.          *)
LEMMA SuspendsAsking ==
  ASSUME TypeOK, Asking, Settled, ResolutionSuspends
  PROVE  Asking' /\ Settled'
<1>1. PICK asked \in Asks :
        ThenHandOn([round EXCEPT !.told = 0, !.choices = [ k \in DOMAIN asked |->
          [kind |-> "resolution", by |-> Seat(active, asked[k]), id |-> Top(round).id] ]])
  BY DEF ResolutionSuspends
<1> DEFINE choices == [ k \in DOMAIN asked |->
             [kind |-> "resolution", by |-> Seat(active, asked[k]), id |-> Top(round).id] ]
           r == [round EXCEPT !.told = 0, !.choices = choices]
<1>2. r \in Round
  BY AskedType DEF ResolutionSuspends
<1>3. /\ ctl.at = "resolve" /\ round.stack # <<>> /\ round \in Round
      /\ asked \in Seq(Side) /\ asked # <<>>
  BY AsksAssumption DEF ResolutionSuspends, Resolving, TypeOK
<1>4. round.target = {} /\ ~round.held
  <2>1. Orderly(round) /\ round.choices = <<>> /\ round.target = {}
    BY <1>3, Elsewhere DEF Settled, OwesInput
  <2> QED
    BY <2>1, KindsOfEmpty DEF Orderly, Tidy, Held
<1>0. ~NeedsTarget(round.stack)
  BY <1>3, <1>4, Elsewhere DEF Orderly, Asked
<1>5. r.choices = choices /\ r.stack = round.stack /\ r.target = {} /\ ~r.held
  BY <1>3, <1>4 DEF Round
<1>6. \A k \in DOMAIN choices : choices[k].kind = "resolution" /\ choices[k].id = Top(round).id
  OBVIOUS
<1>7. choices # <<>>
  <2>1. DOMAIN choices = DOMAIN asked
    OBVIOUS
  <2>2. DOMAIN asked = 1..Len(asked) /\ Len(asked) \in Nat /\ Len(asked) # 0
    BY <1>3, EmptySeq, LenProperties
  <2>3. 1 \in DOMAIN choices
    BY <2>1, <2>2
  <2>4. 1 \notin DOMAIN <<>>
    OBVIOUS
  <2> HIDE DEF choices
  <2> QED
    BY <2>3, <2>4
<1>8. ThenHandOn(r)
  BY <1>1
<1> HIDE DEF r, choices
<1>9. /\ round'.stack = round.stack /\ round'.target = {}
      /\ round'.choices = choices /\ ~round'.held
  BY <1>2, <1>5, <1>8, HandOnInputs DEF ThenHandOn, TypeOK
<1>10. OwesInput(r)
  BY <1>5, <1>7 DEF OwesInput
<1>11. Goto("drain") \/ Halt
  BY <1>8, <1>10 DEF ThenHandOn
<1>12. ctl'.at \in {"drain", "rest", "sweep"}
  BY <1>11, GotoAt, HaltAt
<1>13. Top(round').id = Top(round).id
  BY <1>9 DEF Top
<1>14. Behind(round')
  BY <1>0, <1>3, <1>6, <1>9, <1>13 DEF Behind
<1> QED
  BY <1>7, <1>9, <1>12, <1>14 DEF Asking, Settled

LEMMA PoppedNeedsNothing ==
  ASSUME NEW r \in Round, r.stack # <<>>, ~NeedsTarget(r.stack)
  PROVE  ~NeedsTarget(Popped(r).stack)
<1>1. r.stack \in Seq(Item) /\ Len(r.stack) \in Nat /\ Len(r.stack) # 0
  BY EmptySeq, LenProperties DEF Round
<1>2. Popped(r).stack = SubSeq(r.stack, 1, Len(r.stack) - 1)
  BY DEF Popped, Round
<1>3. /\ DOMAIN SubSeq(r.stack, 1, Len(r.stack) - 1) = 1..(Len(r.stack) - 1)
      /\ \A i \in 1..(Len(r.stack) - 1) :
           SubSeq(r.stack, 1, Len(r.stack) - 1)[i] = r.stack[i]
  BY <1>1
<1>4. 1..(Len(r.stack) - 1) \subseteq DOMAIN r.stack
  BY <1>1, LenProperties
<1> QED
  BY <1>2, <1>3, <1>4 DEF NeedsTarget

LEMMA ResolveAsking ==
  ASSUME TypeOK, Asking, Settled, ResolveTopOfStack
  PROVE  Asking' /\ Settled'
<1>1. \E w, c, b : Resolved(Popped(round), w, c, b)
  BY DEF ResolveTopOfStack
<1>2. /\ Popped(round) \in Round /\ Popped(round).choices = round.choices
      /\ Popped(round).target = round.target /\ Popped(round).held = round.held
  BY PoppedType DEF TypeOK, Popped, Round
<1>3. Orderly(round) /\ round.target = {}
  BY Elsewhere DEF ResolveTopOfStack, Resolving, Settled, OwesInput
<1>4. ~NeedsTarget(Popped(round).stack)
  BY <1>3, PoppedNeedsNothing DEF ResolveTopOfStack, Resolving, TypeOK, Orderly, Asked
<1>5. Orderly(Popped(round))
  BY <1>2, <1>3, <1>4 DEF Orderly, Tidy, Asked, Held, Alive
<1> QED
  BY <1>1, <1>2, <1>5, ResolvedAsking

LEMMA RetargetOfferAsking ==
  ASSUME TypeOK, Asking, Settled, ResolveWithRetarget
  PROVE  Asking' /\ Settled'
<1>1. PICK s \in FreshIds(Id \ (UsedIds(round) \cup Spared), 1) :
        Resolved([Popped(round) EXCEPT
                    !.stack = Append(@, [id |-> s[1], by |-> Top(round).by, needs |-> FALSE]),
                    !.target = { [kind |-> "retarget", by |-> Top(round).by, id |-> s[1]] }],
                 owed, combat, board)
  BY DEF ResolveWithRetarget
<1> DEFINE copy == [id |-> s[1], by |-> Top(round).by, needs |-> FALSE]
           offer == [kind |-> "retarget", by |-> Top(round).by, id |-> s[1]]
           r == [Popped(round) EXCEPT !.stack = Append(@, copy), !.target = {offer}]
<1>2. r \in Round
  BY OfferType DEF ResolveWithRetarget
<1>3. /\ Popped(round) \in Round /\ Popped(round).choices = round.choices
      /\ Popped(round).held = round.held
  BY PoppedType DEF TypeOK, Popped, Round
<1>4. /\ r.choices = round.choices /\ r.held = round.held /\ r.target = {offer}
      /\ r.stack = Append(Popped(round).stack, copy)
  BY <1>3 DEF Round
<1>5. Orderly(round)
  BY Elsewhere DEF ResolveWithRetarget, Resolving
<1>6. Popped(round).stack \in Seq(Item)
  BY <1>3 DEF Round
<1> DEFINE n == Len(Popped(round).stack) + 1
<1>7. copy \in Item
  BY <1>2, <1>4, <1>6, FreshIdType, TopType, ItemFields
     DEF Item, Trigger, ResolveWithRetarget, Resolving, TypeOK
<1> HIDE DEF copy
<1>8. n \in DOMAIN r.stack /\ r.stack[n] = copy
  BY <1>4, <1>6, <1>7, AppendProperties, LenProperties
<1>9. copy.id = offer.id /\ copy.by = offer.by /\ ~copy.needs /\ offer.kind # "trigger"
  BY DEF copy
<1>10. Resolved(r, owed, combat, board)
  BY <1>1 DEF copy
<1> HIDE DEF r, offer, n
<1>11. Alive(r)
  BY <1>4, <1>8, <1>9 DEF Alive
<1>13. ~NeedsTarget(round.stack)
  BY <1>5 DEF Orderly, Asked, Settled, OwesInput, ResolveWithRetarget, Resolving
<1>14. ~NeedsTarget(Popped(round).stack)
  BY <1>13, PoppedNeedsNothing DEF ResolveWithRetarget, Resolving, TypeOK
<1>15. ~NeedsTarget(r.stack)
  BY <1>4, <1>6, <1>7, <1>9, <1>14, NeedsOfAppend
<1>12. Orderly(r)
  BY <1>4, <1>5, <1>11, <1>15 DEF Orderly, Tidy, Asked, Held
<1> QED
  BY <1>2, <1>10, <1>12, ResolvedAsking

LEMMA SettleAsking ==
  ASSUME TypeOK, Asking, SettleResolution
  PROVE  Asking' /\ Settled'
<1>1. PICK s \in CheckStateBasedActions(round) :
        round' = s.round /\ (Halt \/ Goto("drain"))
  BY DEF SettleResolution, After
<1>2. Orderly(round) /\ round \in Round
  BY Elsewhere DEF SettleResolution, TypeOK
<1>3. ctl'.at \in {"rest", "sweep", "drain"}
  BY <1>1, GotoAt, HaltAt
<1>4. Orderly(round')
  BY <1>1, <1>2, CheckOrderly
<1> QED
  BY <1>3, <1>4, AtWork

-----------------------------------------------------------------------------
(* The steps and the turns.                                                *)
LEMMA AdvancesAsking ==
  ASSUME TypeOK, Asking, AdvancePhase \/ AdvanceTurn
  PROVE  Asking' /\ Settled'
<1>1. round' = round /\ Orderly(round)
  BY Elsewhere DEF AdvancePhase, AdvanceTurn
<1>2. ctl'.at \in {"turn", "enter"}
  <2>1. CASE AdvancePhase
    <3>1. Goto("turn") \/ Goto("enter")
      BY <2>1 DEF AdvancePhase
    <3> QED
      BY <3>1, GotoAt
  <2>2. CASE AdvanceTurn
    <3>1. ctl' = ctl \/ Goto("enter")
      BY <2>2 DEF AdvanceTurn
    <3>2. ctl.at = "turn"
      BY <2>2 DEF AdvanceTurn
    <3> QED
      BY <3>1, <3>2, GotoAt
  <2> QED
    BY <2>1, <2>2
<1> QED
  BY <1>1, <1>2, AtWork

LEMMA FinishEntryAsking ==
  ASSUME TypeOK, NEW r \in Round, Orderly(r), NEW skipped, FinishEntry(r, skipped)
  PROVE  Asking' /\ Settled'
<1>1. round' \in {r, HeadChooser(r), Grant(r, active)}
  BY DEF FinishEntry
<1>2. Orderly(round')
  BY <1>1, HeadChooserOrderly, GrantOrderly DEF TypeOK
<1>3. Halt \/ Goto("drain") \/ Goto("advance")
  BY DEF FinishEntry
<1>4. ctl'.at \in {"rest", "sweep", "drain", "advance"}
  BY <1>3, HaltAt, GotoAt
<1> QED
  BY <1>2, <1>4, AtWork

(* A question put to a round in which none is open.                        *)
LEMMA QuestionOrderly ==
  ASSUME NEW r \in Round, Orderly(r), r.choices = <<>>,
         NEW c \in Choice, c.kind # "resolution", NEW p \in Player
  PROVE  /\ [r EXCEPT !.holder = p, !.choices = << c >>] \in Round
         /\ Orderly([r EXCEPT !.holder = p, !.choices = << c >>])
<1> DEFINE s == [r EXCEPT !.holder = p, !.choices = << c >>]
<1>1. << c >> \in Seq(Choice)
  OBVIOUS
<1>2. s \in Round
  BY <1>1 DEF Round
<1>3. /\ s.choices = << c >> /\ s.stack = r.stack /\ s.target = r.target /\ s.held = r.held
  BY DEF Round
<1>4. KindsOf(s.choices) = {c.kind}
  BY <1>3, OneKind
<1>5. ~r.held
  BY KindsOfEmpty DEF Orderly, Tidy, Asked, Held
<1> HIDE DEF s
<1>6. Orderly(s)
  BY <1>3, <1>4, <1>5 DEF Orderly, Tidy, Asked, Held, Alive
<1> QED
  BY <1>2, <1>6 DEF s

LEMMA EnteringOrderly ==
  ASSUME TypeOK, Sound, Asking, ctl.at = "enter"
  PROVE  round \in Round /\ round.choices = <<>> /\ Orderly(round) /\ active \in Player
BY Elsewhere, Entering DEF TypeOK

(* The draw step may ask for the card to draw.                             *)
LEMMA DrawnOrderly ==
  ASSUME TypeOK, NEW r \in Round, Orderly(r), r.choices = <<>>, NEW s \in Drawn(r)
  PROVE  Orderly(s) /\ s \in Round
<1>1. CASE s \in Place("event", r)
  BY <1>1, PlaceOrderly DEF Source
<1>2. ASSUME NEW p \in Player, s = AskDraw(r, p)
      PROVE  Orderly(s) /\ s \in Round
  <2> DEFINE ask == [kind |-> "draw", by |-> p, id |-> 0]
  <2>1. ask \in Choice /\ ask.kind # "resolution"
    BY DEF Choice, ChoiceKind
  <2>2. s = [r EXCEPT !.holder = p, !.choices = << ask >>]
    BY <1>2 DEF AskDraw
  <2> HIDE DEF ask
  <2> QED
    BY <2>1, <2>2, QuestionOrderly
<1> QED
  BY <1>1, <1>2 DEF Drawn

LEMMA EnterUntapAsking ==
  ASSUME TypeOK, Sound, Asking, EnterUntap
  PROVE  Asking' /\ Settled'
<1> DEFINE ask == [kind |-> "untap", by |-> active, id |-> 0]
<1>1. round \in Round /\ round.choices = <<>> /\ Orderly(round) /\ active \in Player
  BY EnteringOrderly DEF EnterUntap
<1>2. ask \in Choice /\ ask.kind # "resolution"
  BY <1>1 DEF Choice, ChoiceKind
<1>3. AskUntap = [round EXCEPT !.holder = active, !.choices = << ask >>]
  BY DEF AskUntap
<1> HIDE DEF ask
<1>4. AskUntap \in Round /\ Orderly(AskUntap)
  BY <1>1, <1>2, <1>3, QuestionOrderly
<1>5. FinishEntry(AskUntap, TRUE) \/ \E r \in Place("untap", round) : FinishEntry(r, TRUE)
  BY DEF EnterUntap
<1>6. CASE \E r \in Place("untap", round) : FinishEntry(r, TRUE)
  <2>1. PICK r \in Place("untap", round) : FinishEntry(r, TRUE)
    BY <1>6
  <2>2. r \in Round /\ Orderly(r)
    BY <1>1, PlaceOrderly DEF Source
  <2> QED
    BY <2>1, <2>2, FinishEntryAsking
<1> QED
  BY <1>4, <1>5, <1>6, FinishEntryAsking

LEMMA EnterStepAsking ==
  ASSUME TypeOK, Sound, Asking,
         SkipDrawStep \/ EnterStep \/ EnterEndOfCombat \/ EnterDeclareAttackers
  PROVE  Asking' /\ Settled'
<1>1. round \in Round /\ Orderly(round) /\ round.choices = <<>>
  BY EnteringOrderly DEF SkipDrawStep, EnterStep, EnterEndOfCombat, EnterDeclareAttackers
<1>2. CASE SkipDrawStep
  BY <1>1, <1>2, FinishEntryAsking DEF SkipDrawStep
<1>3. CASE EnterStep
  <2>1. PICK r1 \in IF phase = "DRAW" THEN Drawn(round)
                    ELSE IF phase = "PRECOMBAT_MAIN" THEN Place("event", round) ELSE {round} :
          \E r2 \in Delayed(r1) : \E r3 \in Begun(r2) : FinishEntry(r3, FALSE)
    BY <1>3 DEF EnterStep
  <2>2. r1 \in Round /\ Orderly(r1)
    BY <1>1, <2>1, PlaceOrderly, DrawnOrderly DEF Source
  <2>3. PICK r2 \in Delayed(r1) : \E r3 \in Begun(r2) : FinishEntry(r3, FALSE)
    BY <2>1
  <2>4. r2 \in Round /\ Orderly(r2)
    BY <2>2, DelayedOrderly
  <2>5. PICK r3 \in Begun(r2) : FinishEntry(r3, FALSE)
    BY <2>3
  <2>6. r3 \in Round /\ Orderly(r3)
    BY <2>4, BegunOrderly
  <2> QED
    BY <2>5, <2>6, FinishEntryAsking
<1>4. CASE EnterEndOfCombat
  <2>1. PICK r1 \in Delayed(round) : \E r2 \in Begun(r1) : FinishEntry(r2, ~combat.attacking)
    BY <1>4 DEF EnterEndOfCombat
  <2>2. r1 \in Round /\ Orderly(r1)
    BY <1>1, DelayedOrderly
  <2>3. PICK r2 \in Begun(r1) : FinishEntry(r2, ~combat.attacking)
    BY <2>1
  <2>4. r2 \in Round /\ Orderly(r2)
    BY <2>2, BegunOrderly
  <2> QED
    BY <2>3, <2>4, FinishEntryAsking
<1>5. CASE EnterDeclareAttackers
  <2>1. PICK r \in Begun(round) : FinishEntry(r, FALSE)
    BY <1>5 DEF EnterDeclareAttackers
  <2>2. r \in Round /\ Orderly(r)
    BY <1>1, BegunOrderly
  <2> QED
    BY <2>1, <2>2, FinishEntryAsking
<1> QED
  BY <1>2, <1>3, <1>4, <1>5

LEMMA EnterBlocksAndDamageAsking ==
  ASSUME TypeOK, Sound, Asking, EnterDeclareBlockers \/ EnterDamage
  PROVE  Asking' /\ Settled'
<1>1. round \in Round /\ Orderly(round)
  BY EnteringOrderly DEF EnterDeclareBlockers, EnterDamage
<1>2. CASE EnterDeclareBlockers
  <2>1. PICK noLegalBlock \in {FALSE, combat.attacking} :
          \E r1 \in Begun(round) :
            \E r2 \in IF noLegalBlock THEN Place("block", r1) ELSE {r1} :
              FinishEntry(r2, ~combat.attacking)
    BY <1>2 DEF EnterDeclareBlockers
  <2>2. PICK r1 \in Begun(round) :
          \E r2 \in IF noLegalBlock THEN Place("block", r1) ELSE {r1} :
            FinishEntry(r2, ~combat.attacking)
    BY <2>1
  <2>3. r1 \in Round /\ Orderly(r1)
    BY <1>1, BegunOrderly
  <2>4. PICK r2 \in IF noLegalBlock THEN Place("block", r1) ELSE {r1} :
          FinishEntry(r2, ~combat.attacking)
    BY <2>2
  <2>5. r2 \in Round /\ Orderly(r2)
    BY <2>3, <2>4, PlaceOrderly DEF Source
  <2> QED
    BY <2>4, <2>5, FinishEntryAsking
<1>3. CASE EnterDamage
  <2>1. \/ \E r \in Begun(round) : FinishEntry(r, TRUE) \/ FinishEntry(r, FALSE)
        \/ \E r1 \in Place("damage", round) : \E r2 \in Begun(r1) : FinishEntry(r2, FALSE)
    BY <1>3 DEF EnterDamage
  <2>2. CASE \E r \in Begun(round) : FinishEntry(r, TRUE) \/ FinishEntry(r, FALSE)
    <3>1. PICK r \in Begun(round) : FinishEntry(r, TRUE) \/ FinishEntry(r, FALSE)
      BY <2>2
    <3>2. r \in Round /\ Orderly(r)
      BY <1>1, BegunOrderly
    <3> QED
      BY <3>1, <3>2, FinishEntryAsking
  <2>3. CASE \E r1 \in Place("damage", round) : \E r2 \in Begun(r1) : FinishEntry(r2, FALSE)
    <3>1. PICK r1 \in Place("damage", round) : \E r2 \in Begun(r1) : FinishEntry(r2, FALSE)
      BY <2>3
    <3>2. r1 \in Round /\ Orderly(r1)
      BY <1>1, PlaceOrderly DEF Source
    <3>3. PICK r2 \in Begun(r1) : FinishEntry(r2, FALSE)
      BY <3>1
    <3>4. r2 \in Round /\ Orderly(r2)
      BY <3>2, BegunOrderly
    <3> QED
      BY <3>3, <3>4, FinishEntryAsking
  <2> QED
    BY <2>1, <2>2, <2>3
<1> QED
  BY <1>2, <1>3

LEMMA EnterCleanupAsking ==
  ASSUME TypeOK, Sound, Asking, EnterCleanup
  PROVE  Asking' /\ Settled'
<1> DEFINE ask == [kind |-> "cleanup", by |-> active, id |-> 0]
           asked == [round EXCEPT !.holder = active, !.choices = Append(@, ask)]
<1>1. round \in Round /\ round.choices = <<>> /\ Orderly(round) /\ active \in Player
  BY EnteringOrderly DEF EnterCleanup
<1>2. ask \in Choice /\ ask.kind # "resolution"
  BY <1>1 DEF Choice, ChoiceKind
<1>3. asked = [round EXCEPT !.holder = active, !.choices = << ask >>]
  BY <1>1
<1>4. FinishEntry(asked, FALSE)
      \/ \E r \in Delayed(round) : \E skipped : FinishEntry(r, skipped)
  BY DEF EnterCleanup
<1> HIDE DEF asked, ask
<1>5. asked \in Round /\ Orderly(asked)
  BY <1>1, <1>2, <1>3, QuestionOrderly
<1>6. ASSUME NEW r \in Delayed(round), NEW skipped, FinishEntry(r, skipped)
      PROVE  Asking' /\ Settled'
  <2>1. r \in Round /\ Orderly(r)
    BY <1>1, DelayedOrderly
  <2> QED
    BY <1>6, <2>1, FinishEntryAsking
<1> QED
  BY <1>4, <1>5, <1>6, FinishEntryAsking

(* The end of a mutation: a suspended resolution is not swept.             *)
LEMMA ClosingAsking ==
  ASSUME TypeOK, Asking, Sweep \/ Recheck \/ LegendSettled \/ DamageDealt
  PROVE  Asking' /\ Settled'
<1>1. round \in Round /\ active \in Player
  BY DEF TypeOK
<1>2. CASE Sweep
  <2>1. ctl'.at = "rest"
    BY <1>2 DEF Sweep, AtRest
  <2>2. CASE Orderly(round)
    <3>1. round' = round \/ \E s \in CheckStateBasedActions(round) : round' = s.round
      BY <1>2 DEF Sweep, After
    <3>2. Orderly(round')
      BY <1>1, <2>2, <3>1, CheckOrderly
    <3> QED
      BY <2>1, <3>2, AtWork
  <2>3. CASE Behind(round) /\ round.choices # <<>>
    <3>1. 1 \in DOMAIN round.choices
      BY <1>1, <2>3, EmptySeq, LenProperties DEF Round
    <3>2. Suspended(round)
      BY <2>3, <3>1 DEF Behind, Suspended
    <3>3. round' = round
      BY <1>2, <3>2 DEF Sweep
    <3> QED
      BY <2>1, <2>3, <3>3 DEF Asking, Settled
  <2> QED
    BY <2>2, <2>3 DEF Asking
<1>3. CASE Recheck
  <2>1. Halt /\ \E s \in CheckStateBasedActions(round) : round' = s.round
    BY <1>3 DEF Recheck, After
  <2>2. Orderly(round')
    BY <1>1, <1>3, <2>1, Elsewhere, CheckOrderly DEF Recheck
  <2>3. ctl'.at \in {"rest", "sweep"}
    BY <2>1, HaltAt
  <2> QED
    BY <2>2, <2>3, AtWork
<1>4. CASE LegendSettled
  <2>1. PICK s \in CheckStateBasedActions(round) :
          round' = IF s.round.choices = <<>> /\ ~s.over
                   THEN [s.round EXCEPT !.holder = active] ELSE s.round
    BY <1>4 DEF LegendSettled
  <2>2. Orderly(s.round) /\ s.round \in Round
    BY <1>1, <1>4, Elsewhere, CheckOrderly DEF LegendSettled
  <2>3. /\ round'.choices = s.round.choices /\ round'.stack = s.round.stack
        /\ round'.target = s.round.target /\ round'.held = s.round.held
    BY <2>1, <2>2 DEF Round
  <2>4. Halt
    BY <1>4 DEF LegendSettled
  <2>5. ctl'.at \in {"rest", "sweep"}
    BY <2>4, HaltAt
  <2>6. Orderly(round')
    BY <2>2, <2>3, SameInputs
  <2> QED
    BY <2>5, <2>6, AtWork
<1>5. CASE DamageDealt
  <2>1. PICK s \in CheckStateBasedActions(round) :
          round' = IF s.over THEN s.round ELSE Grant(s.round, active)
    BY <1>5 DEF DamageDealt
  <2>2. Orderly(s.round) /\ s.round \in Round
    BY <1>1, <1>5, Elsewhere, CheckOrderly DEF DamageDealt
  <2>3. Orderly(round')
    BY <1>1, <2>1, <2>2, GrantOrderly
  <2>4. Goto("drain") \/ Halt
    BY <1>5 DEF DamageDealt
  <2>5. ctl'.at \in {"drain", "rest", "sweep"}
    BY <2>4, GotoAt, HaltAt
  <2> QED
    BY <2>3, <2>5, AtWork
<1> QED
  BY <1>2, <1>3, <1>4, <1>5

LEMMA EngineAsking ==
  ASSUME TypeOK, Sound, Asking, Settled, EngineStep
  PROVE  Asking' /\ Settled'
BY DrainAsking, CheckBeforePassAsking, TakeAsking, SuspendsAsking, ResolveAsking,
   RetargetOfferAsking, SettleAsking, AdvancesAsking, EnterUntapAsking, EnterStepAsking,
   EnterBlocksAndDamageAsking, EnterCleanupAsking, ClosingAsking
   DEF EngineStep

-----------------------------------------------------------------------------
(* The mutations.                                                          *)
LEMMA PassPriorityAsking ==
  ASSUME TypeOK, Asking, NEW p \in Player, PassPriority(p)
  PROVE  Asking' /\ Settled'
<1> DEFINE n == round.passes + 1
<1>1. round.choices = <<>> /\ round.target = {} /\ Orderly(round) /\ round \in Round
  BY AwaitsNoChoice, AwaitsOther DEF PassPriority, ChoiceKind, TypeOK
<1>2. \/ round' = [round EXCEPT !.passes = n]
      \/ round' = [round EXCEPT !.passes = n, !.holder = Opponent(p)]
  BY DEF PassPriority
<1> HIDE DEF n
<1>3. /\ round'.choices = round.choices /\ round'.stack = round.stack
      /\ round'.target = round.target /\ round'.held = round.held
  BY <1>1, <1>2 DEF Round
<1>4. Orderly(round')
  BY <1>1, <1>3, SameInputs
<1>5. \/ Begin(IF round.stack # <<>> THEN "resolve" ELSE "advance", "pass", TRUE)
      \/ Begin("drain", "drain", TRUE)
  BY DEF PassPriority
<1>6. ctl'.at = "resolve" => round.stack # <<>>
  <2>1. CASE round.stack = <<>>
    <3>1. Begin("advance", "pass", TRUE) \/ Begin("drain", "drain", TRUE)
      BY <1>5, <2>1
    <3>2. ctl'.at = "advance" \/ ctl'.at = "drain"
      BY <3>1, BeginAt, Zenon
    <3> QED
      BY <3>2
  <2> QED
    BY <2>1
<1> QED
  BY <1>1, <1>3, <1>4, <1>6 DEF Asking, Settled, OwesInput

LEMMA IntentsAsking ==
  ASSUME Asking, NEW p \in Player,
         EndTurn(p) \/ PassUntilAction(p) \/ CancelAutoPass(p) \/ Concede(p)
  PROVE  Asking' /\ Settled'
<1>1. round' = round
  BY DEF EndTurn, PassUntilAction, CancelAutoPass, Concede
<1>2. ctl.at = "rest" /\ ctl'.at \in {"rest", "drain"}
  BY BeginAt DEF EndTurn, PassUntilAction, CancelAutoPass, Concede, Queues, Presses
<1> QED
  BY <1>1, <1>2 DEF Asking, Settled

LEMMA CastAsking ==
  ASSUME TypeOK, Asking, NEW p \in Player, NEW keep \in BOOLEAN, Cast(p, keep)
  PROVE  Asking' /\ Settled'
<1>1. PICK c \in Card :
        round' \in Place("cast",
          [round EXCEPT !.stack = Append(@, [id |-> c, by |-> p, needs |-> FALSE]),
                        !.passes = 0, !.holder = Opponent(p)])
  BY DEF Cast
<1> DEFINE item == [id |-> c, by |-> p, needs |-> FALSE]
           cast == [round EXCEPT !.stack = Append(@, item),
                                 !.passes = 0, !.holder = Opponent(p)]
<1>2. item \in Item
  BY DEF Item
<1>3. round \in Round /\ round.stack \in Seq(Item) /\ Opponent(p) \in Player
  BY OpponentIsOther DEF TypeOK, Round
<1>4. round' \in Place("cast", cast)
  BY <1>1
<1>0. Awaits("priority", p)
  BY DEF Cast
<1>5. round.target = {} /\ Orderly(round)
  <2>0. "priority" \notin ChoiceKind
    BY DEF ChoiceKind
  <2>1. round.target = {}
    BY <1>0, <2>0, AwaitsNoChoice
  <2>2. Orderly(round)
    BY <1>0, AwaitsOther
  <2> QED
    BY <2>1, <2>2
<1>12. ~item.needs
  OBVIOUS
<1> HIDE DEF item
<1>6. Append(round.stack, item) \in Seq(Item)
  BY <1>2, <1>3, AppendProperties
<1>7. /\ cast \in Round /\ cast.choices = round.choices /\ cast.target = {}
      /\ cast.held = round.held /\ cast.stack = Append(round.stack, item)
  BY <1>3, <1>5, <1>6 DEF Round
<1> HIDE DEF cast
<1>11. ~NeedsTarget(cast.stack)
  BY <1>2, <1>3, <1>5, <1>7, <1>12, NeedsOfAppend DEF Orderly, Asked
<1>8. Orderly(cast)
  BY <1>5, <1>7, <1>11 DEF Orderly, Tidy, Asked, Held, Alive
<1>9. Orderly(round')
  BY <1>4, <1>7, <1>8, PlaceOrderly DEF Source
<1>10. ctl'.at = "drain"
  BY BeginAt DEF Cast
<1> QED
  BY <1>9, <1>10, AtWork

(* What a queue asks is what its head and its tail ask.                    *)
LEMMA KindsOfHead ==
  ASSUME NEW s \in Seq(Choice), s # <<>>
  PROVE  KindsOf(s) \subseteq {Head(s).kind} \cup KindsOf(Tail(s))
<1>1. /\ Tail(s) \in Seq(Choice) /\ Len(Tail(s)) = Len(s) - 1 /\ Len(s) \in Nat
      /\ \A i \in 1..Len(Tail(s)) : Tail(s)[i] = s[i + 1]
      /\ Head(s) = s[1]
  BY HeadTailProperties, LenProperties
<1>2. DOMAIN Tail(s) = 1..(Len(s) - 1) /\ DOMAIN s = 1..Len(s)
  BY <1>1, LenProperties
<1> SUFFICES ASSUME NEW i \in 1..Len(s), i # 1
             PROVE  s[i].kind \in KindsOf(Tail(s))
  BY <1>1, <1>2 DEF KindsOf
<1>3. i - 1 \in 1..(Len(s) - 1) /\ (i - 1) + 1 = i
  BY <1>1
<1>4. Tail(s)[i - 1] = s[i]
  BY <1>1, <1>3
<1> QED
  BY <1>2, <1>3, <1>4 DEF KindsOf

LEMMA AnsweringOther ==
  ASSUME TypeOK, Asking, NEW kind, kind # "resolution", NEW p, Answers(kind, p)
  PROVE  /\ round \in Round /\ round.choices \in Seq(Choice) /\ round.choices # <<>>
         /\ Head(round.choices).kind = kind /\ Orderly(round)
         /\ "resolution" \notin KindsOf(Tail(round.choices))
<1>1. /\ round \in Round /\ round.choices \in Seq(Choice) /\ round.choices # <<>>
      /\ Head(round.choices).kind = kind
  BY DEF TypeOK, Round, Answers, Awaits
<1>2. Orderly(round)
  BY AwaitsOther DEF Answers
<1>3. KindsOf(Tail(round.choices)) \subseteq KindsOf(round.choices)
  BY <1>1, KindsOfTail
<1> QED
  BY <1>1, <1>2, <1>3 DEF Orderly, Tidy, Asked

(* An answer other than to an order leaves the orders asked.               *)
LEMMA AnsweredOrderly ==
  ASSUME TypeOK, Asking, NEW kind, kind \notin {"resolution", "order"}, NEW p, Answers(kind, p)
  PROVE  /\ [round EXCEPT !.choices = Tail(@)] \in Round
         /\ Orderly([round EXCEPT !.choices = Tail(@)])
<1> DEFINE t == [round EXCEPT !.choices = Tail(@)]
<1>1. /\ round \in Round /\ round.choices \in Seq(Choice) /\ round.choices # <<>>
      /\ Head(round.choices).kind = kind /\ Orderly(round)
      /\ "resolution" \notin KindsOf(Tail(round.choices))
  BY AnsweringOther
<1>2. /\ t \in Round /\ t.choices = Tail(round.choices) /\ t.stack = round.stack
      /\ t.target = round.target /\ t.held = round.held
  BY <1>1, TailType, DequeuedEffect
<1>3. KindsOf(round.choices) \subseteq {kind} \cup KindsOf(Tail(round.choices))
  BY <1>1, KindsOfHead
<1> HIDE DEF t
<1>4. Orderly(t)
  BY <1>1, <1>2, <1>3 DEF Orderly, Tidy, Asked, Held, Alive
<1> QED
  BY <1>2, <1>4 DEF t

(* The answers to a suspended resolution come one after the other; the     *)
(* last one resumes it.                                                    *)
LEMMA AnswerResolutionAsking ==
  ASSUME TypeOK, Asking, NEW p \in Player, AnswerResolution(p)
  PROVE  Asking' /\ Settled'
<1>1. /\ round \in Round /\ round.choices \in Seq(Choice) /\ round.choices # <<>>
      /\ Head(round.choices).kind = "resolution"
  BY DEF TypeOK, Round, AnswerResolution, Answers, Awaits
<1>2. Behind(round)
  BY <1>1, HeadKind DEF Asking, Orderly, Tidy
<1> DEFINE rest == Tail(round.choices)
           place == Min(Places(round, Head(round.choices).id))
           told == [round EXCEPT !.told = place]
           t == [told EXCEPT !.choices = Tail(@)]
<1>0. round' = Dequeued(told)
  BY DEF AnswerResolution
<1>11. place \in Nat
  BY <1>1, LeastPlace DEF AnswerResolution
<1> HIDE DEF place
<1>12. /\ told \in Round /\ told.choices = round.choices /\ told.stack = round.stack
       /\ told.target = round.target /\ told.held = round.held
  BY <1>1, <1>11 DEF Round
<1> HIDE DEF told
<1>3. /\ t \in Round /\ t.choices = rest /\ t.stack = round.stack
      /\ t.target = round.target /\ t.held = round.held
  BY <1>1, <1>12, TailType, DequeuedEffect
<1>4. round' = HeadChooser(t)
  BY <1>0 DEF Dequeued
<1> HIDE DEF t
<1>5. /\ round'.choices = rest /\ round'.stack = round.stack
      /\ round'.target = {} /\ ~round'.held
  BY <1>2, <1>3, <1>4, HeadChooserEffect DEF Behind
<1>6. \A k \in DOMAIN rest : rest[k].kind = "resolution" /\ rest[k].id = Top(round).id
  <2>1. /\ rest \in Seq(Choice) /\ Len(rest) = Len(round.choices) - 1
        /\ Len(round.choices) \in Nat
        /\ \A i \in 1..Len(rest) : rest[i] = round.choices[i + 1]
    BY <1>1, HeadTailProperties, LenProperties
  <2>2. DOMAIN rest = 1..(Len(round.choices) - 1) /\ DOMAIN round.choices = 1..Len(round.choices)
    BY <1>1, <2>1, LenProperties
  <2>3. \A i \in 1..(Len(round.choices) - 1) : i + 1 \in 1..Len(round.choices)
    BY <2>1
  <2> QED
    BY <1>2, <2>1, <2>2, <2>3 DEF Behind
<1>7. Top(round') = Top(round)
  BY <1>5 DEF Top
<1>8. Begin(IF rest # <<>> THEN "sweep" ELSE "resolve", "answer", TRUE)
  BY DEF AnswerResolution, Rest
<1> HIDE DEF rest
<1>9. CASE rest # <<>>
  <2>1. ctl'.at = "sweep"
    BY <1>8, <1>9, BeginAt
  <2>2. Behind(round')
    BY <1>2, <1>5, <1>6, <1>7 DEF Behind
  <2> QED
    BY <1>5, <1>9, <2>1, <2>2 DEF Asking, Settled
<1>10. CASE rest = <<>>
  <2>1. Orderly(round')
    BY <1>2, <1>5, <1>10, KindsOfEmpty DEF Orderly, Tidy, Asked, Held, Alive, Behind
  <2>2. ~OwesInput(round') /\ round'.stack # <<>>
    BY <1>2, <1>5, <1>10 DEF OwesInput, Behind
  <2> QED
    BY <2>1, <2>2 DEF Asking, Settled
<1> QED
  BY <1>9, <1>10

LEMMA AnswerLegendAsking ==
  ASSUME TypeOK, Asking, NEW p \in Player, AnswerLegend(p)
  PROVE  Asking' /\ Settled'
<1>1. Orderly(round')
  BY AnsweredOrderly DEF AnswerLegend
<1>2. ctl'.at = "legend"
  BY BeginAt DEF AnswerLegend
<1> QED
  BY <1>1, <1>2, AtWork

LEMMA AnswerOrderAsking ==
  ASSUME TypeOK, Asking, NEW p \in Player, AnswerOrder(p)
  PROVE  Asking' /\ Settled'
<1>1. /\ round \in Round /\ round.choices # <<>> /\ active \in Player
      /\ round.stack \in Seq(Item) /\ round.batch \in Batch
      /\ round.batch.of \in [Player -> Seq(Trigger)] /\ round.batch.lead \in Player
  BY DEF TypeOK, AnswerOrder, Answers, Round, Batch
<1>2. /\ Orderly(round) /\ round.choices \in Seq(Choice)
      /\ "resolution" \notin KindsOf(Tail(round.choices))
  BY AnsweringOther DEF AnswerOrder
<1>3. PICK slice \in Orders(round.batch.of[p]) :
        LET b == [round.batch EXCEPT !.of[p] = slice]
            more == Rest(round) # <<>> /\ Head(Rest(round)).kind = "order"
        IN  IF more
            THEN /\ round' = Dequeued([round EXCEPT !.batch = b])
                 /\ Begin("sweep", "answer", TRUE)
            ELSE /\ round' = Land([round EXCEPT
                      !.choices = Tail(@), !.held = FALSE, !.batch = NoBatch(active),
                      !.stack = @ \o b.of[b.lead] \o b.of[Opponent(b.lead)]], active)
                 /\ Begin("recheck", "answer", TRUE)
  BY DEF AnswerOrder
<1> DEFINE b == [round.batch EXCEPT !.of[p] = slice]
           more == Rest(round) # <<>> /\ Head(Rest(round)).kind = "order"
           parked == [round EXCEPT !.batch = b]
           asked == [round EXCEPT !.choices = Tail(@), !.held = FALSE]
           landed == [round EXCEPT
             !.choices = Tail(@), !.held = FALSE, !.batch = NoBatch(active),
             !.stack = @ \o b.of[b.lead] \o b.of[Opponent(b.lead)]]
<1>4. slice \in Seq(Trigger)
  BY <1>1, OrdersType
<1>5. b \in Batch /\ b.lead \in Player
  BY <1>1, <1>4 DEF Batch
<1>6. \/ more /\ round' = Dequeued(parked) /\ Begin("sweep", "answer", TRUE)
      \/ round' = Land(landed, active) /\ Begin("recheck", "answer", TRUE)
  BY <1>3
<1> HIDE DEF b
<1>7. round.stack \o b.of[b.lead] \o b.of[Opponent(b.lead)] \in Seq(Item)
  BY <1>1, <1>5, OpponentIsOther, StackedType
<1>8. Tail(round.choices) \in Seq(Choice) /\ NoBatch(active) \in Batch
  BY <1>1, <1>2, HeadTailProperties, NoBatchType
<1>9. ctl'.at \in {"sweep", "recheck"}
  BY <1>6, BeginAt
<1>10. CASE more /\ round' = Dequeued(parked)
  <2>1. /\ parked \in Round /\ parked.choices = round.choices /\ parked.stack = round.stack
        /\ parked.target = round.target /\ parked.held = round.held
    BY <1>1, <1>5 DEF Round
  <2> DEFINE t == [parked EXCEPT !.choices = Tail(@)]
  <2> HIDE DEF parked
  <2>2. /\ t \in Round /\ t.choices = Tail(round.choices) /\ t.stack = round.stack
        /\ t.target = round.target
    BY <1>1, <2>1, TailType, DequeuedEffect
  <2>3. round' = HeadChooser(t)
    BY <1>10 DEF Dequeued
  <2>4. Tail(round.choices) # <<>> /\ Head(Tail(round.choices)).kind = "order"
    BY <1>10 DEF Rest
  <2>5. "order" \in KindsOf(Tail(round.choices))
    BY <1>8, <2>4, HeadKind
  <2> HIDE DEF t
  <2>6. Orderly(t)
    BY <1>2, <2>2, <2>5 DEF Orderly, Tidy, Asked, Held, Alive
  <2>7. Orderly(round')
    BY <2>2, <2>3, <2>6, HeadChooserOrderly
  <2> QED
    BY <1>9, <2>7, AtWork
<1>11. CASE round' = Land(landed, active)
  <2>1. /\ asked \in Round /\ asked.choices = Tail(round.choices) /\ asked.stack = round.stack
        /\ asked.target = round.target /\ asked.held = FALSE
    BY <1>1, <1>8 DEF Round
  <2>2. /\ landed \in Round /\ landed.choices = Tail(round.choices)
        /\ landed.stack = round.stack \o b.of[b.lead] \o b.of[Opponent(b.lead)]
        /\ landed.target = round.target /\ landed.held = FALSE
    BY <1>1, <1>7, <1>8 DEF Round
  <2> HIDE DEF asked, landed
  <2>3. Orderly(asked)
    BY <1>2, <2>1 DEF Orderly, Tidy, Asked, Held, Alive
  <2>4. Tidy(landed)
    BY <1>5, <2>1, <2>2, <2>3, StackedTidy DEF Orderly
  <2>5. Orderly(round')
    BY <1>1, <1>11, <2>2, <2>4, LandOrderly
  <2> QED
    BY <1>9, <2>5, AtWork
<1> QED
  BY <1>6, <1>10, <1>11

LEMMA AnswerUntapAsking ==
  ASSUME TypeOK, Asking, NEW p \in Player, AnswerUntap(p)
  PROVE  Asking' /\ Settled'
<1>1. Orderly(round) /\ round \in Round
  BY AnsweringOther DEF AnswerUntap
<1> DEFINE t == [round EXCEPT !.choices = Tail(@)]
<1>2. t \in Round /\ Orderly(t)
  BY AnsweredOrderly DEF AnswerUntap
<1>3. round' = round \/ round' \in Place("untap", t)
  BY DEF AnswerUntap
<1> HIDE DEF t
<1>4. Orderly(round')
  BY <1>1, <1>2, <1>3, PlaceOrderly DEF Source
<1>5. Begin("sweep", "answer", TRUE) \/ Begin("advance", "answer", TRUE)
  BY DEF AnswerUntap
<1>6. ctl'.at \in {"sweep", "advance"}
  BY <1>5, BeginAt
<1> QED
  BY <1>4, <1>6, AtWork

LEMMA AnswerDrawAsking ==
  ASSUME TypeOK, Asking, NEW p \in Player, AnswerDraw(p)
  PROVE  Asking' /\ Settled'
<1> DEFINE t == [round EXCEPT !.choices = Tail(@)]
<1>1. t \in Round /\ Orderly(t) /\ active \in Player
  BY AnsweredOrderly DEF AnswerDraw, TypeOK
<1>2. PICK r \in Place("event", t) :
        /\ round' = IF r.choices # <<>> THEN HeadChooser(r) ELSE Grant(r, active)
        /\ Begin(IF r.choices # <<>> THEN "sweep" ELSE "drain", "answer", TRUE)
  BY DEF AnswerDraw
<1> HIDE DEF t
<1>3. r \in Round /\ Orderly(r)
  BY <1>1, <1>2, PlaceOrderly DEF Source
<1>4. Orderly(round')
  BY <1>1, <1>2, <1>3, HeadChooserOrderly, GrantOrderly
<1>5. ctl'.at \in {"sweep", "drain"}
  BY <1>2, BeginAt
<1> QED
  BY <1>4, <1>5, AtWork

LEMMA AnswerCleanupAsking ==
  ASSUME TypeOK, Asking, NEW p \in Player, AnswerCleanup(p)
  PROVE  Asking' /\ Settled'
<1> DEFINE r == [round EXCEPT !.choices = Tail(@)]
<1>1. r \in Round /\ Orderly(r) /\ active \in Player
  BY AnsweredOrderly DEF AnswerCleanup, TypeOK
<1>2. PICK r1 \in Delayed(r) : \E r2 \in Place("event", r1) : round' \in {Grant(r2, active), r2}
  BY DEF AnswerCleanup
<1> HIDE DEF r
<1>3. r1 \in Round /\ Orderly(r1)
  BY <1>1, <1>2, DelayedOrderly
<1>4. PICK r2 \in Place("event", r1) : round' \in {Grant(r2, active), r2}
  BY <1>2
<1>5. r2 \in Round /\ Orderly(r2)
  BY <1>3, <1>4, PlaceOrderly DEF Source
<1>6. Orderly(round')
  BY <1>1, <1>4, <1>5, GrantOrderly
<1>7. \/ Begin("advance", "answer", TRUE) \/ Begin("sweep", "answer", TRUE)
      \/ Begin("drain", "answer", TRUE)
  BY DEF AnswerCleanup
<1>8. ctl'.at \in {"advance", "sweep", "drain"}
  BY <1>7, BeginAt
<1> QED
  BY <1>6, <1>8, AtWork

LEMMA LandTargetAsking ==
  ASSUME TypeOK, NEW r \in Round, Tidy(r), LandTarget(r)
  PROVE  Asking' /\ Settled'
<1>1. Begin("rest", "drain", FALSE) \/ Begin("drain", "drain", FALSE)
  BY DEF LandTarget
<1>2. ctl'.at \in {"rest", "drain"}
  BY <1>1, BeginAt
<1>3. Orderly(round')
  BY LandOrderly DEF LandTarget, TypeOK
<1> QED
  BY <1>2, <1>3, AtWork

LEMMA TargetsAsking ==
  ASSUME TypeOK, Asking, NEW p \in Player, ChooseTarget(p) \/ DeclineTarget(p) \/ Retarget(p)
  PROVE  Asking' /\ Settled'
<1>1. round \in Round /\ active \in Player
  BY DEF TypeOK
<1>2. Orderly(round)
  BY AwaitsOther DEF ChooseTarget, DeclineTarget, Retarget, Chosen
<1>0. ASSUME NEW r, r.target = {}, r.choices = round.choices, r.held = round.held
      PROVE  Tidy(r)
  BY <1>0, <1>2 DEF Orderly, Tidy, Held, Alive
<1>3. CASE ChooseTarget(p)
  <2>1. PICK t \in Chosen("trigger", p) : LandTarget(Announced(round, t.id))
    BY <1>3 DEF ChooseTarget
  <2>2. Announced(round, t.id) \in Round
    BY <1>1, AnnouncedType
  <2>3. /\ Announced(round, t.id).choices = round.choices
        /\ Announced(round, t.id).target = {} /\ Announced(round, t.id).held = round.held
    BY <1>1 DEF Announced, Round
  <2> QED
    BY <1>0, <2>1, <2>2, <2>3, LandTargetAsking
<1>4. CASE DeclineTarget(p)
  <2>1. PICK t \in Chosen("trigger", p) :
          \E k \in Places(round, t.id) : LandTarget(Withdrawn(round, k))
    BY <1>4 DEF DeclineTarget
  <2>2. PICK k \in Places(round, t.id) : LandTarget(Withdrawn(round, k))
    BY <2>1
  <2>3. Withdrawn(round, k) \in Round
    BY <1>1, WithdrawnType
  <2>4. /\ Withdrawn(round, k).choices = round.choices /\ Withdrawn(round, k).target = {}
        /\ Withdrawn(round, k).held = round.held
    BY <1>1 DEF Withdrawn, Round
  <2> QED
    BY <1>0, <2>2, <2>3, <2>4, LandTargetAsking
<1>5. CASE Retarget(p)
  <2> DEFINE r == [round EXCEPT !.target = {}]
  <2>1. /\ r \in Round /\ r.target = {} /\ r.choices = round.choices /\ r.held = round.held
        /\ r.stack = round.stack
    BY <1>1 DEF Round
  <2>2. round' \in Place("resolve", Grant(r, active))
    BY <1>5 DEF Retarget
  <2> HIDE DEF r
  <2>6. \E t \in round.target : t.kind = "retarget"
    BY <1>5 DEF Retarget, Chosen
  <2>7. ~NeedsTarget(r.stack)
    BY <1>2, <2>1, <2>6 DEF Orderly, Asked
  <2>8. Orderly(r)
    BY <1>0, <2>1, <2>7 DEF Orderly, Asked
  <2>3. Grant(r, active) \in Round /\ Orderly(Grant(r, active))
    BY <1>1, <2>1, <2>8, GrantOrderly
  <2>4. Orderly(round')
    BY <2>2, <2>3, PlaceOrderly DEF Source
  <2>5. ctl'.at = "drain"
    BY <1>5, BeginAt DEF Retarget
  <2> QED
    BY <2>4, <2>5, AtWork
<1> QED
  BY <1>3, <1>4, <1>5

LEMMA DeclarationsAsking ==
  ASSUME TypeOK, Asking, NEW p \in Player,
         \/ ToggleAttacker(p) \/ ConfirmAttackers(p) \/ PayAttackTax(p)
         \/ CancelAttackTax(p) \/ ConfirmBlockers(p) \/ ConfirmDamage(p)
  PROVE  Asking' /\ Settled'
<1>1. round \in Round /\ active \in Player /\ combat.parked \subseteq Tax
  BY DEF TypeOK, Combat
<1>2. \E kind : kind # "resolution" /\ \E q : Awaits(kind, q)
  BY <1>1 DEF ToggleAttacker, ConfirmAttackers, PayAttackTax, CancelAttackTax, ConfirmBlockers,
              ConfirmDamage, Declares, Tax
<1>3. Orderly(round)
  BY <1>2, AwaitsOther
<1>4. CASE ToggleAttacker(p)
  <2>1. round' = round /\ ctl'.at = "rest"
    BY <1>4 DEF ToggleAttacker
  <2> QED
    BY <1>3, <2>1, AtWork
<1>5. CASE ConfirmAttackers(p) \/ PayAttackTax(p)
  <2>1. PICK c : ChargeTaxes(c)
    BY <1>5 DEF ConfirmAttackers, PayAttackTax
  <2>2. FinalizeConfirmAttackers(c) \/ \E tax : Park(c, tax)
    BY <2>1 DEF ChargeTaxes
  <2>3. CASE FinalizeConfirmAttackers(c)
    <3>1. PICK r \in IF c.attacking THEN Place("attack", round) ELSE {round} :
            round' = Grant(r, active)
      BY <2>3 DEF FinalizeConfirmAttackers
    <3>2. r \in Round /\ Orderly(r)
      BY <1>1, <1>3, <3>1, PlaceOrderly DEF Source
    <3>3. Orderly(round')
      BY <1>1, <3>1, <3>2, GrantOrderly
    <3>4. ctl'.at = "drain"
      BY <2>3, BeginAt DEF FinalizeConfirmAttackers
    <3> QED
      BY <3>3, <3>4, AtWork
  <2>4. CASE \E tax : Park(c, tax)
    <3>1. round' = round /\ ctl'.at = "rest"
      BY <2>4, BeginAt DEF Park
    <3> QED
      BY <1>3, <3>1, AtWork
  <2> QED
    BY <2>2, <2>3, <2>4
<1>6. CASE CancelAttackTax(p)
  <2>1. round' = round /\ ctl'.at = "rest"
    BY <1>6, BeginAt DEF CancelAttackTax
  <2> QED
    BY <1>3, <2>1, AtWork
<1>7. CASE ConfirmBlockers(p)
  <2>1. PICK r \in Place("block", round) : round' = Grant(r, active)
    BY <1>7 DEF ConfirmBlockers
  <2>2. r \in Round /\ Orderly(r)
    BY <1>1, <1>3, PlaceOrderly DEF Source
  <2>3. Orderly(round')
    BY <1>1, <2>1, <2>2, GrantOrderly
  <2>4. ctl'.at = "drain"
    BY <1>7, BeginAt DEF ConfirmBlockers
  <2> QED
    BY <2>3, <2>4, AtWork
<1>8. CASE ConfirmDamage(p)
  <2>1. \/ Begin("rest", "drain", FALSE) /\ round' = round
        \/ Begin("dealt", "drain", FALSE) /\ round' \in Place("damage", round)
    BY <1>8 DEF ConfirmDamage
  <2>2. ctl'.at \in {"rest", "dealt"}
    BY <2>1, BeginAt
  <2>3. Orderly(round')
    BY <1>1, <1>3, <2>1, PlaceOrderly DEF Source
  <2> QED
    BY <2>2, <2>3, AtWork
<1> QED
  BY <1>4, <1>5, <1>6, <1>7, <1>8

LEMMA MutationAsking ==
  ASSUME TypeOK, Asking, NEW p \in Player, Mutation(p)
  PROVE  Asking' /\ Settled'
BY PassPriorityAsking, IntentsAsking, CastAsking, AnswerResolutionAsking, AnswerLegendAsking,
   AnswerOrderAsking, AnswerUntapAsking, AnswerDrawAsking, AnswerCleanupAsking,
   TargetsAsking, DeclarationsAsking
   DEF Mutation

-----------------------------------------------------------------------------
(* Combat: what opens its declarations and what ends its steps.            *)
Fighting == OpenHere /\ BlocksDeclared

LEMMA Holding ==
  ASSUME OpenHere, phase' = phase, combat'.open => combat.open,
         ctl'.at \notin {"advance", "turn", "enter"}
  PROVE  Fighting'
BY DEF Fighting, OpenHere, BlocksDeclared

LEMMA SurvivorsDeclared ==
  ASSUME NEW c \in Combat, NEW d \in Survivors(c)
  PROVE  d.open = c.open /\ d.blocked = c.blocked
BY DEF Survivors, Combat

LEMMA CheckOpens ==
  ASSUME TypeOK, NEW r, NEW s \in CheckStateBasedActions(r)
  PROVE  s.combat.open = combat.open
<1>1. \/ s.combat = combat
      \/ s.combat \in Survivors(combat)
  BY DEF CheckStateBasedActions, Found, Lost
<1> QED
  BY <1>1, SurvivorsDeclared DEF TypeOK

LEMMA CountPassFighting ==
  ASSUME TypeOK, NEW r, CountPass(r), ~combat'.open,
         phase' = "DECLARE_BLOCKERS" /\ combat'.attacking => combat'.blocked
  PROVE  Fighting'
BY DEF Fighting, OpenHere, BlocksDeclared

LEMMA TakeFighting ==
  ASSUME TypeOK, OpenHere,
         TakeDeclaring \/ TakeHaltsForBlocks \/ TakeNoBlocks \/ TakeDamaging \/ TakePass
  PROVE  Fighting'
<1>1. combat \in Combat
  BY DEF TypeOK
<1>2. CASE TakeDeclaring
  <2>1. phase' = "DECLARE_ATTACKERS" /\ \E r : CountPass(r)
    BY <1>2 DEF TakeDeclaring
  <2>2. ~combat'.open
    BY <1>1, <1>2 DEF TakeDeclaring, OpenHere, DamageSteps, Combat
  <2> QED
    BY <2>1, <2>2, CountPassFighting
<1>3. CASE TakeHaltsForBlocks
  <2>1. Halt /\ phase' = phase /\ combat' = combat
    BY <1>3 DEF TakeHaltsForBlocks
  <2>2. ctl'.at \in {"rest", "sweep"}
    BY <2>1, HaltAt
  <2> QED
    BY <2>1, <2>2, Holding
<1>4. CASE TakeNoBlocks
  <2>1. \E r : CountPass(r)
    BY <1>4 DEF TakeNoBlocks
  <2>2. ~combat'.open /\ combat'.blocked
    BY <1>1, <1>4 DEF TakeNoBlocks, OpenHere, DamageSteps, Combat
  <2> QED
    BY <2>1, <2>2, CountPassFighting
<1>5. CASE TakeDamaging
  <2>1. phase' \in DamageSteps /\ \E r : CountPass(r)
    BY <1>5 DEF TakeDamaging
  <2> DEFINE c == [combat EXCEPT !.open = FALSE, !.owing = {}]
  <2>2. c \in Combat /\ ~c.open
    BY <1>1 DEF Combat
  <2>3. combat' \in Survivors(c)
    BY <1>5 DEF TakeDamaging
  <2> HIDE DEF c
  <2>4. ~combat'.open
    BY <2>2, <2>3, SurvivorsDeclared
  <2> QED
    BY <2>1, <2>4, CountPassFighting DEF DamageSteps
<1>6. CASE TakePass
  <2>1. CountPass(round) /\ phase' = phase /\ combat' = combat /\ ~DeclarationOpen
    BY <1>6 DEF TakePass
  <2>2. ~combat'.open /\ (phase' = "DECLARE_BLOCKERS" => combat'.blocked)
    BY <2>1 DEF DeclarationOpen, OpenHere
  <2> QED
    BY <2>1, <2>2, CountPassFighting
<1> QED
  BY <1>2, <1>3, <1>4, <1>5, <1>6

LEMMA ResolutionFighting ==
  ASSUME TypeOK, OpenHere,
         ResolutionSuspends \/ ResolveTopOfStack \/ ResolveWithRetarget \/ SettleResolution
  PROVE  Fighting'
<1>1. combat \in Combat
  BY DEF TypeOK
<1>2. CASE SettleResolution
  <2>1. PICK s \in CheckStateBasedActions(round) :
          combat' = s.combat /\ (Halt \/ Goto("drain"))
    BY <1>2 DEF SettleResolution, After
  <2>2. ctl'.at \in {"rest", "sweep", "drain"}
    BY <2>1, GotoAt, HaltAt
  <2>3. phase' = phase
    BY <1>2 DEF SettleResolution
  <2> QED
    BY <2>1, <2>2, <2>3, CheckOpens, Holding
<1>3. CASE ResolutionSuspends \/ ResolveTopOfStack \/ ResolveWithRetarget
  <2>1. (\E r : ThenHandOn(r)) /\ phase' = phase
    BY <1>3 DEF ResolutionSuspends, ResolveTopOfStack, ResolveWithRetarget, Resolved
  <2>2. combat' = combat \/ combat' \in Survivors(combat)
    BY <1>3 DEF ResolutionSuspends, ResolveTopOfStack, ResolveWithRetarget, Resolved
  <2>3. combat'.open => combat.open
    BY <1>1, <2>2, SurvivorsDeclared
  <2>4. Goto("drain") \/ Halt \/ Goto("settle")
    BY <2>1 DEF ThenHandOn
  <2>5. ctl'.at \in {"drain", "rest", "sweep", "settle"}
    BY <2>4, GotoAt, HaltAt
  <2> QED
    BY <2>1, <2>3, <2>5, Holding
<1> QED
  BY <1>2, <1>3

LEMMA AdvancesFighting ==
  ASSUME TypeOK, OpenHere, AdvancePhase \/ AdvanceTurn
  PROVE  Fighting'
<1>1. ~combat.open
  BY DEF AdvancePhase, AdvanceTurn, OpenHere
<1>2. combat' \in {combat, NoCombat}
  BY DEF AdvancePhase, AdvanceTurn
<1>3. ~combat'.open
  BY <1>1, <1>2 DEF NoCombat
<1>4. Goto("turn") \/ Goto("enter") \/ (ctl' = ctl /\ ctl.at = "turn")
  BY DEF AdvancePhase, AdvanceTurn
<1>5. ctl'.at \in {"turn", "enter"}
  BY <1>4, GotoAt
<1> QED
  BY <1>3, <1>5 DEF Fighting, OpenHere, BlocksDeclared

(* A step is left from its entry only if it opened no declaration.         *)
LEMMA FinishEntryFighting ==
  ASSUME TypeOK, NEW r, NEW skipped, FinishEntry(r, skipped),
         combat'.open => phase' \in DamageSteps /\ ~skipped,
         phase' = "DECLARE_BLOCKERS" /\ skipped => ~combat'.attacking
  PROVE  Fighting'
<1>1. (Goto("advance") /\ skipped) \/ Halt \/ Goto("drain")
  BY DEF FinishEntry
<1>2. (ctl'.at = "advance" /\ skipped) \/ ctl'.at \in {"rest", "sweep", "drain"}
  BY <1>1, GotoAt, HaltAt
<1> QED
  BY <1>2 DEF Fighting, OpenHere, BlocksDeclared

LEMMA EnterFighting ==
  ASSUME TypeOK, OpenHere,
         \/ EnterUntap \/ SkipDrawStep \/ EnterStep \/ EnterDeclareAttackers
         \/ EnterDeclareBlockers \/ EnterDamage \/ EnterEndOfCombat \/ EnterCleanup
  PROVE  Fighting'
<1>1. combat \in Combat /\ ~combat.open
  BY DEF TypeOK, OpenHere, EnterUntap, SkipDrawStep, EnterStep, EnterDeclareAttackers,
         EnterDeclareBlockers, EnterDamage, EnterEndOfCombat, EnterCleanup
<1>2. CASE EnterUntap \/ SkipDrawStep \/ EnterStep \/ EnterEndOfCombat \/ EnterCleanup
  <2>1. combat' = combat /\ phase' # "DECLARE_BLOCKERS"
    BY <1>2 DEF EnterUntap, SkipDrawStep, EnterStep, EnterEndOfCombat, EnterCleanup
  <2>2. \E r, skipped : FinishEntry(r, skipped)
    BY <1>2 DEF EnterUntap, SkipDrawStep, EnterStep, EnterEndOfCombat, EnterCleanup
  <2> QED
    BY <1>1, <2>1, <2>2, FinishEntryFighting
<1>3. CASE EnterDeclareAttackers
  <2>1. ~combat'.open /\ phase' = "DECLARE_ATTACKERS"
    BY <1>3 DEF EnterDeclareAttackers, NoCombat
  <2>2. \E r, skipped : FinishEntry(r, skipped)
    BY <1>3 DEF EnterDeclareAttackers
  <2> QED
    BY <2>1, <2>2, FinishEntryFighting
<1>4. CASE EnterDeclareBlockers
  <2>1. PICK noLegalBlock :
          /\ combat' = [combat EXCEPT !.blocked = noLegalBlock]
          /\ \E r : FinishEntry(r, ~combat.attacking)
    BY <1>4 DEF EnterDeclareBlockers
  <2>2. ~combat'.open /\ combat'.attacking = combat.attacking
    BY <1>1, <2>1 DEF Combat
  <2> QED
    BY <2>1, <2>2, FinishEntryFighting
<1>5. CASE EnterDamage
  <2>1. phase' \in DamageSteps
    BY <1>5 DEF EnterDamage
  <2>2. \/ combat' = combat /\ \E r : FinishEntry(r, TRUE)
        \/ \E r : FinishEntry(r, FALSE)
    BY <1>5 DEF EnterDamage
  <2> QED
    BY <1>1, <2>1, <2>2, FinishEntryFighting DEF DamageSteps
<1> QED
  BY <1>2, <1>3, <1>4, <1>5

LEMMA ClosingFighting ==
  ASSUME TypeOK, OpenHere, Sweep \/ Recheck \/ LegendSettled \/ DamageDealt
  PROVE  Fighting'
<1>1. phase' = phase
  BY DEF Sweep, Recheck, LegendSettled, DamageDealt
<1>2. combat' = combat \/ \E s \in CheckStateBasedActions(round) : combat' = s.combat
  BY DEF Sweep, Recheck, LegendSettled, DamageDealt, After
<1>3. combat'.open => combat.open
  BY <1>2, CheckOpens
<1>4. ctl' = AtRest \/ Halt \/ Goto("drain")
  BY DEF Sweep, Recheck, LegendSettled, DamageDealt
<1>5. ctl'.at \in {"rest", "sweep", "drain"}
  BY <1>4, GotoAt, HaltAt DEF AtRest
<1> QED
  BY <1>1, <1>3, <1>5, Holding

LEMMA PassesFighting ==
  ASSUME TypeOK, OpenHere, DrainAutoPasses \/ CheckBeforePass
  PROVE  Fighting'
<1>1. phase' = phase
  BY DEF DrainAutoPasses, CheckBeforePass
<1>2. combat' = combat \/ \E s \in CheckStateBasedActions(round) : combat' = s.combat
  BY DEF DrainAutoPasses, CheckBeforePass, After
<1>3. combat'.open => combat.open
  BY <1>2, CheckOpens
<1>4. Halt \/ StartPass \/ Goto("take") \/ Goto("drain")
  BY DEF DrainAutoPasses, CheckBeforePass
<1>5. ctl'.at \in {"rest", "sweep", "check", "take", "drain"}
  BY <1>4, GotoAt, HaltAt DEF StartPass, TypeOK, Control
<1> QED
  BY <1>1, <1>3, <1>5, Holding

LEMMA EngineFighting ==
  ASSUME TypeOK, OpenHere, EngineStep
  PROVE  Fighting'
BY PassesFighting, TakeFighting, ResolutionFighting, AdvancesFighting, EnterFighting,
   ClosingFighting
   DEF EngineStep

(* Only a pass and the answers that resume a step end one.                 *)
LEMMA PassPriorityFighting ==
  ASSUME OpenHere, NEW p \in Player, PassPriority(p)
  PROVE  Fighting'
<1>1. phase' = phase /\ combat' = combat /\ ~DeclarationOpen
  BY DEF PassPriority
<1>2. ~combat'.open /\ (phase' = "DECLARE_BLOCKERS" => combat'.blocked)
  BY <1>1 DEF DeclarationOpen, OpenHere
<1> QED
  BY <1>2 DEF Fighting, OpenHere, BlocksDeclared

LEMMA ResumesFighting ==
  ASSUME TypeOK, Sound, OpenHere, NEW p \in Player, AnswerUntap(p) \/ AnswerCleanup(p)
  PROVE  Fighting'
<1>1. phase' = phase /\ combat' = combat
  BY DEF AnswerUntap, AnswerCleanup
<1>2. phase \in {"UNTAP", "CLEANUP"}
  BY Resuming DEF AnswerUntap, AnswerCleanup, SoloKinds
<1> QED
  BY <1>1, <1>2 DEF Fighting, OpenHere, BlocksDeclared, DamageSteps

LEMMA AnswersFighting ==
  ASSUME TypeOK, OpenHere, NEW p \in Player,
         \/ EndTurn(p) \/ PassUntilAction(p) \/ CancelAutoPass(p) \/ Concede(p)
         \/ \E keep \in BOOLEAN : Cast(p, keep)
         \/ AnswerResolution(p) \/ AnswerOrder(p) \/ AnswerLegend(p) \/ AnswerDraw(p)
         \/ ChooseTarget(p) \/ DeclineTarget(p) \/ Retarget(p)
  PROVE  Fighting'
<1>1. phase' = phase /\ combat' = combat
  BY DEF EndTurn, PassUntilAction, CancelAutoPass, Concede, Cast, AnswerResolution,
         AnswerOrder, AnswerLegend, AnswerDraw, ChooseTarget, DeclineTarget, Retarget
<1>2. \/ ctl' = ctl /\ ctl.at = "rest"
      \/ \E pc \in {"drain", "sweep", "resolve", "recheck", "legend", "rest"} :
           \E caller, sweeps : Begin(pc, caller, sweeps)
  BY DEF EndTurn, PassUntilAction, CancelAutoPass, Concede, Cast, AnswerResolution,
         AnswerOrder, AnswerLegend, AnswerDraw, ChooseTarget, DeclineTarget, Retarget,
         LandTarget, Queues, Presses
<1>3. ctl'.at \in {"drain", "sweep", "resolve", "recheck", "legend", "rest"}
  BY <1>2, BeginAt
<1> QED
  BY <1>1, <1>3, Holding

LEMMA ChargeTaxesFighting ==
  ASSUME OpenHere, phase' = phase, NEW c \in Combat, c.open = combat.open, ChargeTaxes(c)
  PROVE  Fighting'
<1>1. combat'.open => combat.open
  BY DEF ChargeTaxes, FinalizeConfirmAttackers, Park, Combat
<1>2. Begin("drain", "drain", FALSE) \/ Begin("rest", "drain", FALSE)
  BY DEF ChargeTaxes, FinalizeConfirmAttackers, Park
<1>3. ctl'.at \in {"drain", "rest"}
  BY <1>2, BeginAt
<1> QED
  BY <1>1, <1>3, Holding

LEMMA DeclarationsFighting ==
  ASSUME TypeOK, OpenHere, NEW p \in Player,
         \/ ToggleAttacker(p) \/ ConfirmAttackers(p) \/ PayAttackTax(p)
         \/ CancelAttackTax(p) \/ ConfirmBlockers(p) \/ ConfirmDamage(p)
  PROVE  Fighting'
<1>1. combat \in Combat
  BY DEF TypeOK
<1>2. CASE ToggleAttacker(p) \/ CancelAttackTax(p) \/ ConfirmBlockers(p) \/ ConfirmDamage(p)
  <2>1. phase' = phase
    BY <1>2 DEF ToggleAttacker, CancelAttackTax, ConfirmBlockers, ConfirmDamage
  <2>2. combat'.open => combat.open
    BY <1>1, <1>2 DEF ToggleAttacker, CancelAttackTax, ConfirmBlockers, ConfirmDamage, Combat
  <2>3. \/ ctl' = ctl /\ ctl.at = "rest"
        \/ \E pc \in {"drain", "dealt", "rest"} : Begin(pc, "drain", FALSE)
    BY <1>2 DEF ToggleAttacker, CancelAttackTax, ConfirmBlockers, ConfirmDamage
  <2>4. ctl'.at \in {"drain", "dealt", "rest"}
    BY <2>3, BeginAt
  <2> QED
    BY <2>1, <2>2, <2>4, Holding
<1>3. CASE ConfirmAttackers(p)
  <2>1. ChargeTaxes(combat) /\ phase' = phase
    BY <1>3 DEF ConfirmAttackers
  <2> QED
    BY <1>1, <2>1, ChargeTaxesFighting
<1>4. CASE PayAttackTax(p)
  <2>1. PICK tax : ChargeTaxes(Paid(tax))
    BY <1>4 DEF PayAttackTax
  <2>2. Paid(tax) \in Combat /\ Paid(tax).open = combat.open
    BY <1>1 DEF Paid, Combat
  <2>3. phase' = phase
    BY <1>4 DEF PayAttackTax
  <2> QED
    BY <2>1, <2>2, <2>3, ChargeTaxesFighting
<1> QED
  BY <1>2, <1>3, <1>4

LEMMA MutationFighting ==
  ASSUME TypeOK, Sound, OpenHere, NEW p \in Player, Mutation(p)
  PROVE  Fighting'
BY PassPriorityFighting, AnswersFighting, ResumesFighting, DeclarationsFighting DEF Mutation

-----------------------------------------------------------------------------
LEMMA InitInputs == Init => InputInv
<1> SUFFICES ASSUME Init
             PROVE  InputInv
  OBVIOUS
<1>1. /\ round.choices = <<>> /\ round.target = {} /\ ~round.held
      /\ ctl.at = "rest" /\ ~combat.open
  BY DEF Init, AtRest, NoCombat
<1>3. ~NeedsTarget(round.stack)
  BY DEF Init, NeedsTarget
<1>2. Orderly(round)
  BY <1>1, <1>3, KindsOfEmpty DEF Orderly, Tidy, Asked, Held, Alive
<1> QED
  BY <1>1, <1>2 DEF InputInv, Asking, Settled, OpenHere, BlocksDeclared

(* The invariant of the inputs, carried by the one of the round.           *)
LEMMA InputInvariant == Spec => [](OrderInv /\ InputInv)
<1>1. OrderInv /\ InputInv /\ [Next]_vars => InputInv'
  <2> SUFFICES ASSUME OrderInv, InputInv, [Next]_vars
               PROVE  InputInv'
    OBVIOUS
  <2>1. TypeOK /\ Sound /\ Asking /\ Settled /\ OpenHere /\ BlocksDeclared
    BY DEF OrderInv, InputInv
  <2>2. CASE EngineStep
    BY <2>1, <2>2, EngineAsking, EngineFighting DEF InputInv, Fighting
  <2>3. CASE \E p \in Player : Mutation(p)
    BY <2>1, <2>3, MutationAsking, MutationFighting DEF InputInv, Fighting
  <2>4. CASE UNCHANGED vars
    BY <2>1, <2>4 DEF InputInv, Asking, Settled, OpenHere, BlocksDeclared, vars
  <2> QED
    BY <2>2, <2>3, <2>4 DEF Next
<1> QED
  BY <1>1, InitInputs, OrderInvariant, PTL DEF Spec

(* Where the last answer to a resolution was written: on the bottom-most   *)
(* object with the id of the one that resumes.                             *)
Written(r) == r.stack # <<>> /\ r.told = Min(Places(r, Top(r).id))
Told ==
  round.told # 0 =>
    /\ Written(round)
    /\ ctl.at = "resolve" \/ "resolution" \in KindsOf(round.choices)

(* Nothing but an answer writes one.                                       *)
LEMMA LandTold ==
  ASSUME NEW r \in Round, NEW ap
  PROVE  Land(r, ap).told = r.told
BY DEF Land, RaiseTarget, Grant, Round

LEMMA HeadChooserTold ==
  ASSUME NEW r \in Round
  PROVE  HeadChooser(r).told = r.told
BY DEF HeadChooser, Round

LEMMA GrantTold ==
  ASSUME NEW r \in Round, NEW p
  PROVE  Grant(r, p).told = r.told
BY DEF Grant, Round

LEMMA PlaceTold ==
  ASSUME TypeOK, NEW source \in Source, NEW r \in Round, NEW s \in Place(source, r)
  PROVE  s.told = r.told /\ s \in Round
<1>0. s \in Round /\ active \in Player
  BY PlaceEffect DEF TypeOK
<1>1. PICK f \in Firing(source, r, active, Spared) :
        s = PlaceTriggersOnStack(r, BatchOf(f), f.ordered, active)
  BY DEF Placed, Place
<1> DEFINE b == BatchOf(f)
           placed == [r EXCEPT !.stack = @ \o b.of[active] \o b.of[Opponent(active)]]
           parked == [r EXCEPT !.batch = b, !.held = TRUE, !.passes = 0,
                               !.choices = @ \o OrderChoices(f.ordered, active)]
<1>2. s \in {r, Land(placed, active), HeadChooser(parked)}
  BY <1>1 DEF PlaceTriggersOnStack
<1>3. b \in Batch /\ f.ordered \in SUBSET Player
  BY <1>0, FiringType, FiringOrdered
<1> HIDE DEF b
<1>4. placed \in Round /\ placed.told = r.told
  <2>1. r.stack \o b.of[active] \o b.of[Opponent(active)] \in Seq(Item)
    BY <1>0, <1>3, OpponentIsOther, StackedType DEF Round
  <2> QED
    BY <2>1 DEF Round
<1>5. parked \in Round /\ parked.told = r.told
  <2>1. r.choices \o OrderChoices(f.ordered, active) \in Seq(Choice)
    BY <1>0, <1>3, OrderChoicesType, ConcatProperties DEF Round
  <2> QED
    BY <1>3, <2>1 DEF Round
<1> HIDE DEF placed, parked
<1> QED
  BY <1>0, <1>2, <1>4, <1>5, LandTold, HeadChooserTold

LEMMA DelayedTold ==
  ASSUME TypeOK, NEW r \in Round, NEW s \in Delayed(r)
  PROVE  s.told = r.told /\ s \in Round
<1>0. s \in Round
  BY DelayedType
<1>1. CASE phase \in owed.delayed
  <2>1. PICK f \in Firing("delayed", r, active, Spared) :
          s = FireDelayed(r, BatchOf(f), active)
    BY <1>1 DEF Delayed
  <2> QED
    BY <1>0, <2>1 DEF FireDelayed, Grant, Round
<1>2. CASE phase \notin owed.delayed
  BY <1>0, <1>2 DEF Delayed
<1> QED
  BY <1>1, <1>2

LEMMA BegunTold ==
  ASSUME TypeOK, NEW r \in Round, NEW s \in Begun(r)
  PROVE  s.told = r.told /\ s \in Round
BY PlaceTold DEF Begun, Source

LEMMA DrawnTold ==
  ASSUME TypeOK, NEW r \in Round, NEW s \in Drawn(r)
  PROVE  s.told = r.told /\ s \in Round
<1>1. s \in Round
  BY DrawnType
<1>2. CASE s \in Place("event", r)
  BY <1>2, PlaceTold DEF Source
<1>3. ASSUME NEW p \in Player, s = AskDraw(r, p)
      PROVE  s.told = r.told
  BY <1>3 DEF AskDraw, Round
<1> QED
  BY <1>1, <1>2, <1>3 DEF Drawn

LEMMA CheckTold ==
  ASSUME TypeOK, NEW r \in Round, NEW s \in CheckStateBasedActions(r)
  PROVE  s.round.told = r.told /\ s.round \in Round
<1>0. s.round \in Round
  BY CheckType DEF Outcome
<1>1. \/ s \in { Found(r, "clean", combat), Lost(r) }
      \/ s \in { Found(AskLegend(r, p), "due", combat) : p \in Player }
      \/ s \in { Found(x, Left, c) : x \in Place("death", r), c \in Survivors(combat) }
  BY DEF CheckStateBasedActions
<1>2. CASE s \in { Found(r, "clean", combat), Lost(r) }
  BY <1>0, <1>2 DEF Found, Lost
<1>3. CASE s \in { Found(AskLegend(r, p), "due", combat) : p \in Player }
  <2>1. PICK p \in Player : s = Found(AskLegend(r, p), "due", combat)
    BY <1>3
  <2> QED
    BY <1>0, <2>1 DEF Found, AskLegend, Round
<1>4. CASE s \in { Found(x, Left, c) : x \in Place("death", r), c \in Survivors(combat) }
  <2>1. PICK x \in Place("death", r), c \in Survivors(combat) : s = Found(x, Left, c)
    BY <1>4
  <2>2. x.told = r.told
    BY PlaceTold DEF Source
  <2> QED
    BY <1>0, <2>1, <2>2 DEF Found
<1> QED
  BY <1>1, <1>2, <1>3, <1>4

LEMMA CountPassTold ==
  ASSUME NEW r \in Round, CountPass(r)
  PROVE  round'.told = r.told
BY DEF CountPass, Round

LEMMA FinishEntryTold ==
  ASSUME TypeOK, NEW r \in Round, NEW skipped, FinishEntry(r, skipped)
  PROVE  round'.told = r.told
<1>1. round' \in {r, HeadChooser(r), Grant(r, active)}
  BY DEF FinishEntry
<1> QED
  BY <1>1, HeadChooserTold, GrantTold

(* What the resolution resumed with is forgotten with it.                  *)
LEMMA ThenHandOnTold ==
  ASSUME TypeOK, NEW r \in Round, ThenHandOn(r)
  PROVE  round'.told = r.told
BY DEF ThenHandOn, HandPriorityOn, HeadChooser, Grant, Round

LEMMA ResolvedTold ==
  ASSUME TypeOK, NEW r \in Round, NEW w, NEW c, NEW b, Resolved(r, w, c, b)
  PROVE  round'.told = r.told
<1>1. PICK s \in Place("resolve", r) : ThenHandOn(s)
  BY DEF Resolved
<1>2. s.told = r.told /\ s \in Round
  BY PlaceTold DEF Source
<1> QED
  BY <1>1, <1>2, ThenHandOnTold

LEMMA ResolutionForgets ==
  ASSUME TypeOK, ResolutionSuspends \/ ResolveTopOfStack \/ ResolveWithRetarget
  PROVE  round'.told = 0
<1>1. round \in Round
  BY DEF TypeOK
<1>2. CASE ResolutionSuspends
  <2>1. PICK asked \in Asks :
          ThenHandOn([round EXCEPT !.told = 0, !.choices = [ k \in DOMAIN asked |->
            [kind |-> "resolution", by |-> Seat(active, asked[k]), id |-> Top(round).id] ]])
    BY <1>2 DEF ResolutionSuspends
  <2> DEFINE r == [round EXCEPT !.told = 0, !.choices = [ k \in DOMAIN asked |->
            [kind |-> "resolution", by |-> Seat(active, asked[k]), id |-> Top(round).id] ]]
  <2>2. r \in Round
    BY <1>2, AskedType DEF ResolutionSuspends
  <2>3. r.told = 0
    BY <1>1 DEF Round
  <2> HIDE DEF r
  <2> QED
    BY <2>1, <2>2, <2>3, ThenHandOnTold DEF r
<1>3. CASE ResolveTopOfStack
  <2>1. \E w, c, b : Resolved(Popped(round), w, c, b)
    BY <1>3 DEF ResolveTopOfStack
  <2>2. Popped(round) \in Round /\ Popped(round).told = 0
    BY <1>1, <1>3, PoppedType DEF Popped, Round, ResolveTopOfStack, Resolving
  <2> QED
    BY <2>1, <2>2, ResolvedTold
<1>4. CASE ResolveWithRetarget
  <2>1. PICK s \in FreshIds(Id \ (UsedIds(round) \cup Spared), 1) :
          Resolved([Popped(round) EXCEPT
                      !.stack = Append(@, [id |-> s[1], by |-> Top(round).by, needs |-> FALSE]),
                      !.target = { [kind |-> "retarget", by |-> Top(round).by, id |-> s[1]] }],
                   owed, combat, board)
    BY <1>4 DEF ResolveWithRetarget
  <2> DEFINE r == [Popped(round) EXCEPT
                     !.stack = Append(@, [id |-> s[1], by |-> Top(round).by, needs |-> FALSE]),
                     !.target = { [kind |-> "retarget", by |-> Top(round).by, id |-> s[1]] }]
  <2>2. r \in Round
    BY <1>4, OfferType DEF ResolveWithRetarget
  <2>3. Popped(round) \in Round /\ Popped(round).told = 0
    BY <1>1, <1>4, PoppedType DEF Popped, Round, ResolveWithRetarget, Resolving
  <2>4. r.told = 0
    BY <2>3 DEF Round
  <2>5. Resolved(r, owed, combat, board)
    BY <2>1
  <2> HIDE DEF r
  <2> QED
    BY <2>2, <2>4, <2>5, ResolvedTold
<1> QED
  BY <1>2, <1>3, <1>4

LEMMA TakeTold ==
  ASSUME TypeOK,
         TakeDeclaring \/ TakeHaltsForBlocks \/ TakeNoBlocks \/ TakeDamaging \/ TakePass
  PROVE  round'.told = round.told
<1>1. round \in Round
  BY DEF TypeOK
<1>2. CASE TakeHaltsForBlocks
  BY <1>1, <1>2 DEF TakeHaltsForBlocks, Round
<1>3. CASE TakeDeclaring \/ TakeNoBlocks \/ TakeDamaging \/ TakePass
  <2>1. \E r : CountPass(r) /\ (r = round \/ \E source \in Source : r \in Place(source, round))
    BY <1>3 DEF TakeDeclaring, TakeNoBlocks, TakeDamaging, TakePass, Source
  <2> QED
    BY <1>1, <2>1, PlaceTold, CountPassTold
<1> QED
  BY <1>2, <1>3

LEMMA EnterStepTold ==
  ASSUME TypeOK, EnterUntap \/ SkipDrawStep \/ EnterStep \/ EnterEndOfCombat \/ EnterCleanup
  PROVE  round'.told = round.told
<1>1. round \in Round /\ active \in Player
  BY DEF TypeOK
<1>2. CASE EnterUntap
  <2>1. \E r, skipped : FinishEntry(r, skipped) /\ (r = AskUntap \/ r \in Place("untap", round))
    BY <1>2 DEF EnterUntap
  <2>2. AskUntap \in Round /\ AskUntap.told = round.told
    <3>1. << [kind |-> "untap", by |-> active, id |-> 0] >> \in Seq(Choice)
      BY <1>1 DEF Choice, ChoiceKind
    <3> QED
      BY <1>1, <3>1 DEF AskUntap, Round
  <2> QED
    BY <1>1, <2>1, <2>2, PlaceTold, FinishEntryTold DEF Source
<1>3. CASE SkipDrawStep
  BY <1>1, <1>3, FinishEntryTold DEF SkipDrawStep
<1>4. CASE EnterStep
  <2>1. PICK r1 \in IF phase = "DRAW" THEN Drawn(round)
                    ELSE IF phase = "PRECOMBAT_MAIN" THEN Place("event", round) ELSE {round} :
          \E r2 \in Delayed(r1) : \E r3 \in Begun(r2) : FinishEntry(r3, FALSE)
    BY <1>4 DEF EnterStep
  <2>2. r1 \in Round /\ r1.told = round.told
    BY <1>1, <2>1, PlaceTold, DrawnTold DEF Source
  <2>3. PICK r2 \in Delayed(r1) : \E r3 \in Begun(r2) : FinishEntry(r3, FALSE)
    BY <2>1
  <2>4. r2 \in Round /\ r2.told = r1.told
    BY <2>2, <2>3, DelayedTold
  <2>5. PICK r3 \in Begun(r2) : FinishEntry(r3, FALSE)
    BY <2>3
  <2> QED
    BY <2>2, <2>4, <2>5, BegunTold, FinishEntryTold
<1>5. CASE EnterEndOfCombat
  <2>1. PICK r1 \in Delayed(round) : \E r2 \in Begun(r1) : FinishEntry(r2, ~combat.attacking)
    BY <1>5 DEF EnterEndOfCombat
  <2>2. r1 \in Round /\ r1.told = round.told
    BY <1>1, <2>1, DelayedTold
  <2>3. PICK r2 \in Begun(r1) : FinishEntry(r2, ~combat.attacking)
    BY <2>1
  <2> QED
    BY <2>2, <2>3, BegunTold, FinishEntryTold
<1>6. CASE EnterCleanup
  <2> DEFINE ask == [kind |-> "cleanup", by |-> active, id |-> 0]
             asked == [round EXCEPT !.holder = active, !.choices = Append(@, ask)]
  <2>1. FinishEntry(asked, FALSE) \/ \E r \in Delayed(round) : \E skipped : FinishEntry(r, skipped)
    BY <1>6 DEF EnterCleanup
  <2>2. ask \in Choice
    BY <1>1 DEF Choice, ChoiceKind
  <2> HIDE DEF ask
  <2>3. Append(round.choices, ask) \in Seq(Choice)
    BY <1>1, <2>2, AppendProperties DEF Round
  <2>4. asked \in Round /\ asked.told = round.told
    BY <1>1, <2>3 DEF Round
  <2> HIDE DEF asked
  <2> QED
    BY <1>1, <2>1, <2>4, DelayedTold, FinishEntryTold
<1> QED
  BY <1>2, <1>3, <1>4, <1>5, <1>6

LEMMA EnterCombatTold ==
  ASSUME TypeOK, EnterDeclareAttackers \/ EnterDeclareBlockers \/ EnterDamage
  PROVE  round'.told = round.told
<1>1. round \in Round
  BY DEF TypeOK
<1>2. CASE EnterDeclareAttackers
  <2>1. PICK r \in Begun(round) : FinishEntry(r, FALSE)
    BY <1>2 DEF EnterDeclareAttackers
  <2> QED
    BY <1>1, <2>1, BegunTold, FinishEntryTold
<1>3. CASE EnterDeclareBlockers
  <2>1. \E r1 \in Begun(round) : \E r2, skipped :
          FinishEntry(r2, skipped) /\ (r2 = r1 \/ r2 \in Place("block", r1))
    BY <1>3 DEF EnterDeclareBlockers
  <2> QED
    BY <1>1, <2>1, BegunTold, PlaceTold, FinishEntryTold DEF Source
<1>4. CASE EnterDamage
  <2>1. \/ \E r \in Begun(round) : \E skipped : FinishEntry(r, skipped)
        \/ \E r1 \in Place("damage", round) : \E r2 \in Begun(r1) : FinishEntry(r2, FALSE)
    BY <1>4 DEF EnterDamage
  <2>2. CASE \E r \in Begun(round) : \E skipped : FinishEntry(r, skipped)
    BY <1>1, <2>2, BegunTold, FinishEntryTold
  <2>3. CASE \E r1 \in Place("damage", round) : \E r2 \in Begun(r1) : FinishEntry(r2, FALSE)
    <3>1. PICK r1 \in Place("damage", round) : \E r2 \in Begun(r1) : FinishEntry(r2, FALSE)
      BY <2>3
    <3>2. r1 \in Round /\ r1.told = round.told
      BY <1>1, <3>1, PlaceTold DEF Source
    <3> QED
      BY <3>1, <3>2, BegunTold, FinishEntryTold
  <2> QED
    BY <2>1, <2>2, <2>3
<1> QED
  BY <1>2, <1>3, <1>4

LEMMA ClosingTold ==
  ASSUME TypeOK, Sweep \/ Recheck \/ LegendSettled \/ DamageDealt
                 \/ CheckBeforePass \/ SettleResolution
  PROVE  round'.told = round.told
<1>1. round \in Round /\ active \in Player
  BY DEF TypeOK
<1>2. \/ round' = round
      \/ \E s \in CheckStateBasedActions(round) :
           round' \in {s.round, [s.round EXCEPT !.holder = active], Grant(s.round, active)}
  BY DEF Sweep, Recheck, LegendSettled, DamageDealt, CheckBeforePass, SettleResolution, After
<1>3. ASSUME NEW s \in CheckStateBasedActions(round),
             round' \in {s.round, [s.round EXCEPT !.holder = active], Grant(s.round, active)}
      PROVE  round'.told = round.told
  <2>1. s.round \in Round /\ s.round.told = round.told
    BY <1>1, CheckTold
  <2> QED
    BY <1>3, <2>1 DEF Grant, Round
<1> QED
  BY <1>2, <1>3

LEMMA EngineTold ==
  ASSUME TypeOK, EngineStep
  PROVE  \/ round'.told = round.told
         \/ round'.told = 0 /\ ctl.at = "resolve"
<1>1. ResolutionSuspends \/ ResolveTopOfStack \/ ResolveWithRetarget => ctl.at = "resolve"
  BY DEF ResolutionSuspends, ResolveTopOfStack, ResolveWithRetarget, Resolving
<1>2. DrainAutoPasses \/ AdvancePhase \/ AdvanceTurn => round' = round
  BY DEF DrainAutoPasses, AdvancePhase, AdvanceTurn
<1> QED
  BY <1>1, <1>2, ResolutionForgets, TakeTold, EnterStepTold, EnterCombatTold, ClosingTold
     DEF EngineStep

-----------------------------------------------------------------------------
(* The mutations write no answer either, AnswerResolution apart.           *)
LEMMA AnsweredTold ==
  ASSUME TypeOK, NEW kind, NEW p, Answers(kind, p)
  PROVE  /\ [round EXCEPT !.choices = Tail(@)] \in Round
         /\ [round EXCEPT !.choices = Tail(@)].told = round.told
<1>1. round \in Round /\ round.choices # <<>>
  BY DEF TypeOK, Answers
<1>2. [round EXCEPT !.choices = Tail(@)] \in Round
  BY <1>1, TailType
<1> QED
  BY <1>1, <1>2 DEF Round

LEMMA AnswersTold ==
  ASSUME TypeOK, NEW p \in Player,
         AnswerLegend(p) \/ AnswerUntap(p) \/ AnswerDraw(p) \/ AnswerCleanup(p)
  PROVE  round'.told = round.told
<1> DEFINE t == [round EXCEPT !.choices = Tail(@)]
<1>1. t \in Round /\ t.told = round.told /\ active \in Player
  BY AnsweredTold DEF AnswerLegend, AnswerUntap, AnswerDraw, AnswerCleanup, TypeOK
<1>2. CASE AnswerLegend(p)
  BY <1>1, <1>2 DEF AnswerLegend
<1>3. CASE AnswerUntap(p)
  <2>1. round' = round \/ round' \in Place("untap", t)
    BY <1>3 DEF AnswerUntap
  <2> HIDE DEF t
  <2> QED
    BY <1>1, <2>1, PlaceTold DEF Source
<1>4. CASE AnswerDraw(p)
  <2>1. PICK r \in Place("event", t) : round' \in {HeadChooser(r), Grant(r, active)}
    BY <1>4 DEF AnswerDraw
  <2> HIDE DEF t
  <2>2. r \in Round /\ r.told = t.told
    BY <1>1, <2>1, PlaceTold DEF Source
  <2> QED
    BY <1>1, <2>1, <2>2, HeadChooserTold, GrantTold
<1>5. CASE AnswerCleanup(p)
  <2>1. PICK r1 \in Delayed(t) :
          \E r2 \in Place("event", r1) : round' \in {Grant(r2, active), r2}
    BY <1>5 DEF AnswerCleanup
  <2> HIDE DEF t
  <2>2. r1 \in Round /\ r1.told = t.told
    BY <1>1, <2>1, DelayedTold
  <2>3. PICK r2 \in Place("event", r1) : round' \in {Grant(r2, active), r2}
    BY <2>1
  <2>4. r2 \in Round /\ r2.told = r1.told
    BY <2>2, <2>3, PlaceTold DEF Source
  <2> QED
    BY <1>1, <2>2, <2>3, <2>4, GrantTold
<1> QED
  BY <1>2, <1>3, <1>4, <1>5

LEMMA AnswerOrderTold ==
  ASSUME TypeOK, NEW p \in Player, AnswerOrder(p)
  PROVE  round'.told = round.told
<1>1. /\ round \in Round /\ round.choices # <<>> /\ active \in Player
      /\ round.stack \in Seq(Item) /\ round.batch \in Batch
      /\ round.batch.of \in [Player -> Seq(Trigger)] /\ round.batch.lead \in Player
  BY DEF TypeOK, AnswerOrder, Answers, Round, Batch
<1>2. PICK slice \in Orders(round.batch.of[p]) :
        LET b == [round.batch EXCEPT !.of[p] = slice]
        IN  \/ round' = Dequeued([round EXCEPT !.batch = b])
            \/ round' = Land([round EXCEPT
                      !.choices = Tail(@), !.held = FALSE, !.batch = NoBatch(active),
                      !.stack = @ \o b.of[b.lead] \o b.of[Opponent(b.lead)]], active)
  BY DEF AnswerOrder
<1> DEFINE b == [round.batch EXCEPT !.of[p] = slice]
           parked == [round EXCEPT !.batch = b]
           landed == [round EXCEPT
             !.choices = Tail(@), !.held = FALSE, !.batch = NoBatch(active),
             !.stack = @ \o b.of[b.lead] \o b.of[Opponent(b.lead)]]
<1>3. slice \in Seq(Trigger)
  BY <1>1, OrdersType
<1>4. b \in Batch /\ b.lead \in Player
  BY <1>1, <1>3 DEF Batch
<1>5. round' = Dequeued(parked) \/ round' = Land(landed, active)
  BY <1>2
<1> HIDE DEF b
<1>6. parked \in Round /\ parked.told = round.told /\ parked.choices = round.choices
  BY <1>1, <1>4 DEF Round
<1>7. landed \in Round /\ landed.told = round.told
  <2>1. round.stack \o b.of[b.lead] \o b.of[Opponent(b.lead)] \in Seq(Item)
    BY <1>1, <1>4, OpponentIsOther, StackedType
  <2>2. Tail(round.choices) \in Seq(Choice) /\ NoBatch(active) \in Batch
    BY <1>1, HeadTailProperties, NoBatchType DEF Round
  <2> QED
    BY <1>1, <2>1, <2>2 DEF Round
<1> HIDE DEF parked, landed
<1>8. Dequeued(parked).told = parked.told
  <2> DEFINE t == [parked EXCEPT !.choices = Tail(@)]
  <2>1. t \in Round
    BY <1>1, <1>6, TailType
  <2>2. t.told = parked.told
    BY <1>6 DEF Round
  <2>3. Dequeued(parked) = HeadChooser(t)
    BY DEF Dequeued
  <2> HIDE DEF t
  <2> QED
    BY <2>1, <2>2, <2>3, HeadChooserTold
<1> QED
  BY <1>5, <1>6, <1>7, <1>8, LandTold

LEMMA TargetsTold ==
  ASSUME TypeOK, NEW p \in Player, ChooseTarget(p) \/ DeclineTarget(p) \/ Retarget(p)
  PROVE  round'.told = round.told
<1>1. round \in Round /\ active \in Player
  BY DEF TypeOK
<1>2. CASE ChooseTarget(p)
  <2>1. PICK t \in Chosen("trigger", p) : round' = Land(Announced(round, t.id), active)
    BY <1>2 DEF ChooseTarget, LandTarget
  <2>2. Announced(round, t.id) \in Round
    BY <1>1, AnnouncedType
  <2>3. Announced(round, t.id).told = round.told
    BY <1>1 DEF Announced, Round
  <2> QED
    BY <2>1, <2>2, <2>3, LandTold
<1>3. CASE DeclineTarget(p)
  <2>1. PICK t \in Chosen("trigger", p) :
          \E k \in Places(round, t.id) : round' = Land(Withdrawn(round, k), active)
    BY <1>3 DEF DeclineTarget, LandTarget
  <2>2. PICK k \in Places(round, t.id) : round' = Land(Withdrawn(round, k), active)
    BY <2>1
  <2>3. Withdrawn(round, k) \in Round
    BY <1>1, WithdrawnType
  <2>4. Withdrawn(round, k).told = round.told
    BY <1>1 DEF Withdrawn, Round
  <2> QED
    BY <2>2, <2>3, <2>4, LandTold
<1>4. CASE Retarget(p)
  <2> DEFINE r == [round EXCEPT !.target = {}]
  <2>1. r \in Round /\ r.told = round.told
    BY <1>1 DEF Round
  <2>2. round' \in Place("resolve", Grant(r, active))
    BY <1>4 DEF Retarget
  <2> HIDE DEF r
  <2>3. Grant(r, active) \in Round /\ Grant(r, active).told = round.told
    BY <1>1, <2>1, GrantType, GrantTold
  <2> QED
    BY <2>2, <2>3, PlaceTold DEF Source
<1> QED
  BY <1>2, <1>3, <1>4

LEMMA CastTold ==
  ASSUME TypeOK, NEW p \in Player, NEW keep \in BOOLEAN, Cast(p, keep)
  PROVE  round'.told = round.told
<1>1. PICK c \in Card :
        round' \in Place("cast",
          [round EXCEPT !.stack = Append(@, [id |-> c, by |-> p, needs |-> FALSE]),
                        !.passes = 0, !.holder = Opponent(p)])
  BY DEF Cast
<1> DEFINE item == [id |-> c, by |-> p, needs |-> FALSE]
           cast == [round EXCEPT !.stack = Append(@, item),
                                 !.passes = 0, !.holder = Opponent(p)]
<1>2. item \in Item
  BY DEF Item
<1>3. round \in Round /\ round.stack \in Seq(Item) /\ Opponent(p) \in Player
  BY OpponentIsOther DEF TypeOK, Round
<1> HIDE DEF item
<1>4. Append(round.stack, item) \in Seq(Item)
  BY <1>2, <1>3, AppendProperties
<1>5. cast \in Round /\ cast.told = round.told
  BY <1>3, <1>4 DEF Round
<1>6. round' \in Place("cast", cast)
  BY <1>1 DEF item
<1> HIDE DEF cast
<1> QED
  BY <1>5, <1>6, PlaceTold DEF Source

LEMMA DeclarationsTold ==
  ASSUME TypeOK, NEW p \in Player,
         \/ ToggleAttacker(p) \/ ConfirmAttackers(p) \/ PayAttackTax(p)
         \/ CancelAttackTax(p) \/ ConfirmBlockers(p) \/ ConfirmDamage(p)
  PROVE  round'.told = round.told
<1>1. round \in Round /\ active \in Player
  BY DEF TypeOK
<1>2. \/ round' = round
      \/ \E r : /\ r = round \/ \E source \in Source : r \in Place(source, round)
                /\ round' \in {r, Grant(r, active)}
  BY DEF ToggleAttacker, ConfirmAttackers, PayAttackTax, CancelAttackTax, ConfirmBlockers,
         ConfirmDamage, ChargeTaxes, FinalizeConfirmAttackers, Park, Source
<1> QED
  BY <1>1, <1>2, PlaceTold, GrantTold

LEMMA MutationTold ==
  ASSUME TypeOK, NEW p \in Player, Mutation(p), ~AnswerResolution(p)
  PROVE  round'.told = round.told
<1>1. PassPriority(p) => round'.told = round.told
  BY DEF PassPriority, TypeOK, Round
<1>2. EndTurn(p) \/ PassUntilAction(p) \/ CancelAutoPass(p) \/ Concede(p) => round' = round
  BY DEF EndTurn, PassUntilAction, CancelAutoPass, Concede
<1> QED
  BY <1>1, <1>2, CastTold, AnswersTold, AnswerOrderTold, TargetsTold, DeclarationsTold
     DEF Mutation

-----------------------------------------------------------------------------
(* While an answer stands written, nothing but its resolution moves.       *)
LEMMA StillAsking ==
  ASSUME Asking, "resolution" \in KindsOf(round.choices)
  PROVE  /\ Behind(round) /\ round.choices # <<>> /\ Suspended(round)
         /\ ctl.at \in {"rest", "drain", "sweep"}
<1>1. Behind(round) /\ round.choices # <<>> /\ ctl.at \in {"rest", "drain", "sweep"}
  BY DEF Asking, Orderly, Tidy
<1> QED
  BY <1>1 DEF KindsOf, Suspended

LEMMA WrittenByEngine ==
  ASSUME TypeOK, Asking, Told, EngineStep
  PROVE  Told'
<1> SUFFICES ASSUME round'.told # 0
             PROVE  Written(round') /\ (ctl'.at = "resolve" \/ "resolution" \in KindsOf(round'.choices))
  BY DEF Told, Written, Places, Top
<1>1. round.told # 0 /\ round'.told = round.told
  BY EngineTold
<1>2. CASE ctl.at = "resolve"
  <2>1. ResolutionSuspends \/ ResolveTopOfStack \/ ResolveWithRetarget
    BY <1>2 DEF EngineStep, DrainAutoPasses, CheckBeforePass, TakeDeclaring, TakeHaltsForBlocks,
       TakeNoBlocks, TakeDamaging, TakePass, SettleResolution, AdvancePhase, AdvanceTurn,
       EnterUntap, SkipDrawStep, EnterStep, EnterDeclareAttackers, EnterDeclareBlockers,
       EnterDamage, EnterEndOfCombat, EnterCleanup, Sweep, Recheck, LegendSettled, DamageDealt
  <2> QED
    BY <2>1, ResolutionForgets
<1>3. CASE "resolution" \in KindsOf(round.choices)
  <2>1. Suspended(round) /\ ctl.at \in {"rest", "drain", "sweep"}
    BY <1>3, StillAsking
  <2>2. DrainAutoPasses \/ Sweep
    BY <2>1 DEF EngineStep, CheckBeforePass, TakeDeclaring, TakeHaltsForBlocks,
       TakeNoBlocks, TakeDamaging, TakePass, ResolutionSuspends, ResolveTopOfStack,
       ResolveWithRetarget, Resolving, SettleResolution, AdvancePhase, AdvanceTurn,
       EnterUntap, SkipDrawStep, EnterStep, EnterDeclareAttackers, EnterDeclareBlockers,
       EnterDamage, EnterEndOfCombat, EnterCleanup, Recheck, LegendSettled, DamageDealt
  <2>3. round' = round
    BY <2>1, <2>2 DEF DrainAutoPasses, Sweep
  <2> QED
    BY <1>1, <1>3, <2>3 DEF Told
<1> QED
  BY <1>1, <1>2, <1>3 DEF Told

LEMMA WrittenByAnswer ==
  ASSUME TypeOK, Asking, NEW p \in Player, AnswerResolution(p)
  PROVE  Told'
<1>1. /\ round \in Round /\ round.choices \in Seq(Choice) /\ round.choices # <<>>
      /\ Head(round.choices).kind = "resolution" /\ Head(round.choices) = round.choices[1]
      /\ 1 \in DOMAIN round.choices
  BY EmptySeq, LenProperties DEF TypeOK, Round, AnswerResolution, Answers, Awaits
<1>2. Behind(round)
  BY <1>1, HeadKind DEF Asking, Orderly, Tidy
<1>3. Head(round.choices).id = Top(round).id /\ round.stack # <<>>
  BY <1>1, <1>2 DEF Behind
<1> DEFINE place == Min(Places(round, Head(round.choices).id))
           told == [round EXCEPT !.told = place]
           t == [told EXCEPT !.choices = Tail(@)]
<1>4. round' = Dequeued(told)
  BY DEF AnswerResolution
<1>5. place \in Nat /\ place = Min(Places(round, Top(round).id))
  BY <1>1, <1>3, LeastPlace DEF AnswerResolution
<1> HIDE DEF place
<1>6. /\ told \in Round /\ told.choices = round.choices /\ told.stack = round.stack
      /\ told.told = place
  BY <1>1, <1>5 DEF Round
<1> HIDE DEF told
<1>7. /\ t \in Round /\ t.choices = Tail(round.choices) /\ t.stack = round.stack
  BY <1>1, <1>6, TailType, DequeuedEffect
<1>8. t.told = place
  BY <1>6 DEF Round
<1>9. round' = HeadChooser(t)
  BY <1>4 DEF Dequeued
<1> HIDE DEF t
<1>10. round'.stack = round.stack /\ round'.told = place /\ round'.choices = Tail(round.choices)
  BY <1>7, <1>8, <1>9, HeadChooserEffect, HeadChooserTold
<1>11. Written(round')
  BY <1>3, <1>5, <1>10 DEF Written, Places, Top
<1>12. Begin(IF Tail(round.choices) # <<>> THEN "sweep" ELSE "resolve", "answer", TRUE)
  BY DEF AnswerResolution, Rest
<1>13. CASE Tail(round.choices) # <<>>
  <2> DEFINE rest == Tail(round.choices)
  <2>1. /\ rest \in Seq(Choice) /\ Len(rest) = Len(round.choices) - 1
        /\ Len(round.choices) \in Nat
        /\ \A i \in 1..Len(rest) : rest[i] = round.choices[i + 1]
    BY <1>1, HeadTailProperties, LenProperties
  <2>4. rest # <<>>
    BY <1>13
  <2> HIDE DEF rest
  <2>5. Len(rest) # 0 /\ Len(rest) \in Nat
    BY <2>1, <2>4, EmptySeq, LenProperties
  <2>2. DOMAIN rest = 1..Len(rest) /\ DOMAIN round.choices = 1..Len(round.choices)
    BY <1>1, <2>1, LenProperties
  <2> DEFINE n == Len(rest)
             m == Len(round.choices)
  <2>8. n \in Nat /\ m \in Nat /\ n # 0 /\ n = m - 1
    BY <2>1, <2>5
  <2> HIDE DEF n, m
  <2>9. 1 \in 1..n /\ 1 + 1 \in 1..m
    BY <2>8
  <2>6. 1 \in 1..Len(rest) /\ 1 + 1 \in 1..Len(round.choices)
    BY <2>9 DEF n, m
  <2>7. rest[1].kind = "resolution"
    BY <1>2, <2>1, <2>2, <2>6 DEF Behind
  <2>3. "resolution" \in KindsOf(Tail(round.choices))
    BY <2>2, <2>6, <2>7 DEF KindsOf, rest
  <2> QED
    BY <1>10, <1>11, <2>3 DEF Told
<1>14. CASE Tail(round.choices) = <<>>
  <2>1. ctl'.at = "resolve"
    BY <1>12, <1>14, BeginAt
  <2> QED
    BY <1>11, <2>1 DEF Told
<1> QED
  BY <1>13, <1>14

LEMMA WrittenByMutation ==
  ASSUME TypeOK, Asking, Told, NEW p \in Player, Mutation(p), ~AnswerResolution(p)
  PROVE  Told'
<1> SUFFICES ASSUME round'.told # 0
             PROVE  Written(round') /\ (ctl'.at = "resolve" \/ "resolution" \in KindsOf(round'.choices))
  BY DEF Told, Written, Places, Top
<1>1. round.told # 0
  BY MutationTold
<1>2. ctl.at = "rest"
  BY DEF Mutation, PassPriority, EndTurn, PassUntilAction, CancelAutoPass, Concede, Cast,
     AnswerOrder, AnswerLegend, AnswerUntap, AnswerDraw, AnswerCleanup,
     ChooseTarget, DeclineTarget, LandTarget, Retarget, ToggleAttacker, ConfirmAttackers,
     PayAttackTax, CancelAttackTax, ConfirmBlockers, ConfirmDamage, ChargeTaxes,
     FinalizeConfirmAttackers, Park, Begin, Queues, Presses, Answers
<1>3. "resolution" \in KindsOf(round.choices) /\ Written(round)
  BY <1>1, <1>2 DEF Told
<1>4. ~Orderly(round)
  BY <1>3 DEF Orderly, Tidy
<1>5. combat.parked \subseteq Tax
  BY DEF TypeOK, Combat
<1>6. \A kind, q : Awaits(kind, q) => kind = "resolution"
  BY <1>4, AwaitsOther
<1>7. EndTurn(p) \/ PassUntilAction(p) \/ CancelAutoPass(p) \/ Concede(p)
  BY <1>5, <1>6 DEF Mutation, PassPriority, Cast, AnswerOrder, AnswerLegend, AnswerUntap,
     AnswerDraw, AnswerCleanup, Answers, ChooseTarget, DeclineTarget, Retarget, Chosen,
     ToggleAttacker, ConfirmAttackers, PayAttackTax, CancelAttackTax, ConfirmBlockers,
     ConfirmDamage, Declares, Tax
<1>8. round' = round
  BY <1>7 DEF EndTurn, PassUntilAction, CancelAutoPass, Concede
<1> QED
  BY <1>3, <1>8

LEMMA ToldInvariant == Spec => [](OrderInv /\ InputInv /\ Told)
<1>1. Init => Told
  BY DEF Init, Told
<1>2. OrderInv /\ InputInv /\ Told /\ [Next]_vars => Told'
  <2> SUFFICES ASSUME OrderInv, InputInv, Told, [Next]_vars
               PROVE  Told'
    OBVIOUS
  <2>1. TypeOK /\ Asking
    BY DEF OrderInv, InputInv
  <2>2. CASE UNCHANGED vars
    BY <2>2 DEF Told, Written, Places, Top, vars
  <2> QED
    BY <2>1, <2>2, WrittenByEngine, WrittenByAnswer, WrittenByMutation DEF Next
<1> QED
  BY <1>1, <1>2, InputInvariant, PTL DEF Spec

(* An object that shares the id of the one about to resolve lies below it. *)
SharesItsId ==
  \E k \in DOMAIN round.stack : k < Len(round.stack) /\ round.stack[k].id = Top(round).id

(* The answers to a suspended resolution are written on the very object    *)
(* that resumes, whatever else is answered, pushed or swept meanwhile,     *)
(* unless a lower object on the stack has the same id, as two activations  *)
(* of one source do (commitChoiceAnswer's find by id).                     *)
THEOREM AnswersAreRead == Spec => [](AnswerRead \/ SharesItsId)
<1>1. TypeOK /\ Told => AnswerRead \/ SharesItsId
  <2> SUFFICES ASSUME TypeOK, Told, ctl.at = "resolve", round.told # 0, ~SharesItsId
               PROVE  round.told = Len(round.stack)
    BY DEF AnswerRead, Answered
  <2>1. round.stack # <<>> /\ round.told = Min(Places(round, Top(round).id))
    BY DEF Told, Written
  <2>2. /\ round \in Round /\ Len(round.stack) \in Nat
        /\ DOMAIN round.stack = 1..Len(round.stack) /\ Len(round.stack) \in DOMAIN round.stack
    BY <2>1, EmptySeq, LenProperties DEF TypeOK, Round
  <2>3. Top(round).id \in StackIds(round)
    BY <2>2 DEF StackIds, Top
  <2>4. round.told \in Places(round, Top(round).id)
    BY <2>1, <2>2, <2>3, LeastPlace
  <2>5. round.told \in DOMAIN round.stack /\ ~(round.told < Len(round.stack))
    BY <2>4 DEF Places, SharesItsId
  <2> QED
    BY <2>2, <2>5
<1>2. OrderInv => TypeOK
  BY DEF OrderInv
<1> QED
  BY <1>1, <1>2, ToldInvariant, PTL

(* A target is asked for an object on the stack, of its controller, and a  *)
(* trigger's only while it is unannounced, whatever is pushed, popped or   *)
(* withdrawn while the question is open (pendingTarget).                   *)
THEOREM TargetsStayAlive == Spec => []TargetAlive
<1>1. InputInv => TargetAlive
  BY DEF InputInv, Asking, Orderly, Tidy, Alive, Behind, TargetAlive
<1> QED
  BY <1>1, InputInvariant, PTL

(* Nothing resolves before its controller announced its target, however it *)
(* reached the stack, and no resolution starts on an empty one (the        *)
(* owesInput guard of drainAutoPasses and raiseTriggerTargetSelection      *)
(* wherever a batch lands, an answer is given or a trigger is declined).   *)
THEOREM TargetsAnnouncedFirst == Spec => []AnnouncedFirst
<1>1. TypeOK /\ InputInv => AnnouncedFirst
  <2> SUFFICES ASSUME TypeOK, InputInv, ctl.at = "resolve"
               PROVE  round.stack # <<>> /\ ~Top(round).needs
    BY DEF AnnouncedFirst
  <2>1. round.stack # <<>> /\ round.target = {}
    BY DEF InputInv, Settled, OwesInput
  <2>2. Orderly(round)
    BY Elsewhere DEF InputInv
  <2>3. ~NeedsTarget(round.stack)
    BY <2>1, <2>2 DEF Orderly, Asked
  <2>4. Len(round.stack) \in DOMAIN round.stack
    BY <2>1, EmptySeq, LenProperties DEF TypeOK, Round
  <2> QED
    BY <2>1, <2>3, <2>4 DEF NeedsTarget, Top
<1>2. OrderInv => TypeOK
  BY DEF OrderInv
<1> QED
  BY <1>1, <1>2, InputInvariant, PTL

(* Triggers held off the stack are asked for: the game never waits with a  *)
(* batch nobody is to order (pendingTriggerBatch and pendingChoices).      *)
THEOREM HeldTriggersAreAsked == Spec => []HeldIsAsked
<1>1. InputInv => HeldIsAsked
  BY DEF InputInv, Asking, Orderly, Tidy, Held, Behind, KindsOf, HeldIsAsked
<1> QED
  BY <1>1, InputInvariant, PTL

(* The declare-blockers step of a live attack ends with blocks declared,   *)
(* whoever passes and however the step is left (passPriority's guard and   *)
(* the halt of drainAutoPasses).                                           *)
THEOREM BlocksAreDeclared == Spec => []BlocksDeclared
<1>1. InputInv => BlocksDeclared
  BY DEF InputInv
<1> QED
  BY <1>1, InputInvariant, PTL

(* A damage step ends with its damage assigned, though its assigners are   *)
(* not the holders of priority (damageConfirmed).                          *)
THEOREM DamageIsAssigned == Spec => []DamageAssigned
<1>1. InputInv => DamageAssigned
  BY DEF InputInv, OpenHere, DamageAssigned
<1> QED
  BY <1>1, InputInvariant, PTL
==============================================================================
