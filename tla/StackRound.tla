----------------------------- MODULE StackRound -----------------------------
(***************************************************************************)
(* The data of one round of priority and the pure functions on it: who     *)
(* holds priority and how many seats passed, the stack, the inputs the     *)
(* engine is suspended on, and the placement of simultaneous triggers.     *)
(*                                                                         *)
(* Functions of gre/triggers.ts, gre/rules.ts and gre/state.ts mutate a    *)
(* GameState in place; here each is a function from a round to a round, in *)
(* which "ap" is the active player.                                        *)
(***************************************************************************)
EXTENDS Naturals, Sequences, FiniteSets

CONSTANTS
  Player,    \* the two seats of a game
  MaxStack,  \* bound: objects on the stack or held off it at once
  Card,      \* bound: the cards that are cast or whose abilities are activated
  Sources,   \* those with an ability that may be activated again while it waits
  Fires      \* what each source of triggers may put on the stack

(* A trigger or a copy is allocated an instance id.  A spell keeps the id  *)
(* of its card and an activated ability that of its source, so these come  *)
(* back, and two abilities of one source share theirs.                     *)
Id == 1..MaxStack
ObjectId == Id \cup Card

(* What one scan for triggers finds: the triggers of the active player and *)
(* of the other one (TRUE: it announces a target), the slices that their   *)
(* controller must put in order, and whose slice was collected first.      *)
Side == {"active", "other"}
Shape == [of : [Side -> Seq(BOOLEAN)], ordered : SUBSET Side, lead : Side]
Nothing == [of |-> [s \in Side |-> <<>>], ordered |-> {}, lead |-> "active"]
Source == {"resolve", "cast", "attack", "block", "damage", "death",
           "event", "delayed", "begin", "untap"}

ASSUME PlayerAssumption == \E a, b \in Player : a # b /\ Player = {a, b}
ASSUME StackAssumption == MaxStack \in Nat
ASSUME CardAssumption == Card \cap (Id \cup {0}) = {} /\ Sources \subseteq Card
ASSUME FiresAssumption ==
  Fires \in [Source -> SUBSET Shape] /\ \A s \in Source : Nothing \in Fires[s]
(* A delayed trigger carries no requirement to announce a target by.       *)
ASSUME DelayedAssumption ==
  \A shape \in Fires["delayed"] : \A s \in Side :
    \A k \in DOMAIN shape.of[s] : ~shape.of[s][k]

Opponent(p) == CHOOSE q \in Player : q # p
Seat(ap, side) == IF side = "active" THEN ap ELSE Opponent(ap)

-----------------------------------------------------------------------------
(* An object of the stack: its id, its controller, and whether it is a     *)
(* trigger that still has to announce its target.                          *)
Trigger == [id : Id, by : Player, needs : BOOLEAN]
Item == Trigger \cup [id : Card, by : Player, needs : {FALSE}]

(* A batch of simultaneous triggers, one slice per controller; "lead" had  *)
(* its slice collected first, which need not be the active player.         *)
Batch == [of : [Player -> Seq(Trigger)], lead : Player]
NoBatch(ap) == [of |-> [p \in Player |-> <<>>], lead |-> ap]
BatchIds(b) == UNION { { b.of[p][k].id : k \in DOMAIN b.of[p] } : p \in Player }

ChoiceKind == {"resolution", "order", "legend", "cleanup", "untap", "draw"}
Choice == [kind : ChoiceKind, by : Player, id : ObjectId \cup {0}]
Target == [kind : {"trigger", "retarget"}, by : Player, id : Id]

(* batch is the pendingTriggerBatch, choices the queue of pendingChoices,  *)
(* target the pendingTarget, if any.  told: the place on the stack whose   *)
(* collectedChoices took the last answer to a resolution, 0 for none.      *)
Round == [holder : Player, passes : Nat, stack : Seq(Item),
          choices : Seq(Choice), target : SUBSET Target,
          batch : Batch, held : BOOLEAN, told : Nat]

StackIds(r) == { r.stack[k].id : k \in DOMAIN r.stack }
UsedIds(r) == StackIds(r) \cup BatchIds(r.batch)
              \cup { t.id : t \in r.target }
              \cup { r.choices[k].id : k \in DOMAIN r.choices }

HasRoom(r, n) == Len(r.stack) + Cardinality(BatchIds(r.batch)) + n <= MaxStack

(* How many of the n objects at the bottom of the stack have the id i: as  *)
(* ids come back, what was on the stack is remembered as a multiset.       *)
Times(r, n, i) == Cardinality({ k \in 1..n : r.stack[k].id = i })
NoIds == [i \in ObjectId |-> 0]
Snapshot(r) == [i \in ObjectId |-> Times(r, Len(r.stack), i)]

(* baselineMask: the bottom-most objects of each id of a multiset, as many *)
(* as it holds; pruning leaves of it what is still on the stack.           *)
Masked(r, ids) ==
  { k \in DOMAIN r.stack : Times(r, k, r.stack[k].id) <= ids[r.stack[k].id] }
Unpruned(r, ids) == ids   \* mutant: what left the stack stays in the baseline
Pruned(r, ids) ==
  [i \in ObjectId |-> IF ids[i] <= Times(r, Len(r.stack), i) THEN ids[i]
                      ELSE Times(r, Len(r.stack), i)]

(* The engine is suspended on an input of a player.                        *)
OwesChoice(r) == r.choices # <<>>   \* mutant: a pendingTarget is not owed input
OwesInput(r) == r.choices # <<>> \/ r.target # {}
NeverSuspended(r) == FALSE          \* mutant: the sweep runs inside a resolution
Suspended(r) == \E k \in DOMAIN r.choices : r.choices[k].kind # "order"

GrantCounting(r, p) == [r EXCEPT !.holder = p]  \* mutant: passCount not reset
Grant(r, p) == [r EXCEPT !.holder = p, !.passes = 0]
HeadChooser(r) ==
  IF r.choices = <<>> THEN r ELSE [r EXCEPT !.holder = Head(r.choices).by]

(* handPriorityOn: to the head chooser, else to who retargets, else afresh *)
(* to the active player.                                                   *)
HandPriorityOn(r, ap) ==
  IF r.choices # <<>> THEN HeadChooser(r)
  ELSE IF r.target # {}
  THEN [r EXCEPT !.holder = (CHOOSE t \in r.target : TRUE).by]
  ELSE Grant(r, ap)

-----------------------------------------------------------------------------
(* The topmost trigger that has not announced its target asks for it. *)
Unannounced(s) ==
  { i \in DOMAIN s : s[i].needs /\ \A j \in DOMAIN s : j > i => ~s[j].needs }
RaiseTarget(r) ==
  LET raised == { [kind |-> "trigger", by |-> r.stack[i].by, id |-> r.stack[i].id]
                  : i \in Unannounced(r.stack) }
  IN  [r EXCEPT !.target = raised, !.passes = 0,
                !.holder = (CHOOSE t \in raised : TRUE).by]
Land(r, ap) ==
  IF Unannounced(r.stack) # {} THEN RaiseTarget(r) ELSE Grant(r, ap)

(* placeTriggersOnStack and the grant its callers make when it landed.     *)
(* With no order owed the slices go up active player first.  Otherwise the *)
(* whole batch is held off the stack until the last order is submitted.    *)
Order(p) == [kind |-> "order", by |-> p, id |-> 0]
OpponentOrders(ordered, ap) ==  \* mutant: the active player is never asked
  IF Opponent(ap) \in ordered THEN << Order(Opponent(ap)) >> ELSE <<>>
OrderChoices(ordered, ap) ==
  (IF ap \in ordered THEN << Order(ap) >> ELSE <<>>)
  \o (IF Opponent(ap) \in ordered THEN << Order(Opponent(ap)) >> ELSE <<>>)
PlaceOverHeld(r, b, ordered, ap) ==  \* mutant: what lands empties the held batch
  IF \A p \in Player : b.of[p] = <<>> THEN r
  ELSE IF ordered = {}
  THEN Land([r EXCEPT !.stack = @ \o b.of[ap] \o b.of[Opponent(ap)],
                      !.batch = NoBatch(ap)], ap)
  ELSE HeadChooser([r EXCEPT !.batch = b, !.held = TRUE, !.passes = 0,
                             !.choices = @ \o OrderChoices(ordered, ap)])
PlaceTriggersOnStack(r, b, ordered, ap) ==
  IF \A p \in Player : b.of[p] = <<>> THEN r
  ELSE IF ordered = {}
  THEN Land([r EXCEPT !.stack = @ \o b.of[ap] \o b.of[Opponent(ap)]], ap)
  ELSE HeadChooser([r EXCEPT !.batch = b, !.held = TRUE, !.passes = 0,
                             !.choices = @ \o OrderChoices(ordered, ap)])

(* fireDelayedTriggers pushes in the order of scheduling, announces no     *)
(* target and takes priority for the active player.                        *)
FireDelayed(r, b, ap) ==
  IF \A p \in Player : b.of[p] = <<>> THEN r
  ELSE Grant([r EXCEPT !.stack = @ \o b.of[b.lead] \o b.of[Opponent(b.lead)]], ap)

-----------------------------------------------------------------------------
(* Instance ids are allocated in increasing order: the lowest ones free.   *)
IdsPastTheEnd(free, n) ==  \* mutant: off by one past the ids there are
  { s \in [1..n -> 2..(MaxStack + 1)] :
      \A i, j \in 1..n : i # j => s[i] # s[j] /\ s[i] - 1 \in free }
FreshIds(free, n) ==
  { s \in [1..n -> free] :
      \A k \in 1..n : { j \in free : j < s[k] } = { s[m] : m \in 1..(k - 1) } }

(* The batches a source may fire: a shape, its sides seated, its triggers  *)
(* given fresh ids.  A shape that finds no room or no ids does not fire.   *)
Size(shape) == Len(shape.of["active"]) + Len(shape.of["other"])
Slice(shape, ids, ap, p) ==
  LET side == IF p = ap THEN "active" ELSE "other"
      base == IF p = ap THEN 0 ELSE Len(shape.of["active"])
  IN  [ k \in 1..Len(shape.of[side]) |->
          [id |-> ids[base + k], by |-> p, needs |-> shape.of[side][k]] ]
Built(shape, ids, ap) ==
  [ lead |-> Seat(ap, shape.lead), ordered |-> { Seat(ap, s) : s \in shape.ordered },
    of |-> [p \in Player |-> Slice(shape, ids, ap, p)] ]
Firing(source, r, ap, spared) ==
  UNION { { Built(shape, ids, ap) :
            ids \in FreshIds(Id \ (UsedIds(r) \cup spared), Size(shape)) }
          : shape \in { sh \in Fires[source] : HasRoom(r, Size(sh)) } }
BatchOf(b) == [of |-> b.of, lead |-> b.lead]

(* The rounds that follow when the triggers of a source are placed. *)
Placed(source, r, ap, spared) ==
  { PlaceTriggersOnStack(r, BatchOf(b), b.ordered, ap)
    : b \in Firing(source, r, ap, spared) }
=============================================================================
