---------------------------- MODULE LimitedDraft ----------------------------
(***************************************************************************)
(* The draft of a limited event (convex/limited/draftEngine.ts): packs go  *)
(* round the table, a seat picks from the pack in front of it and queues   *)
(* the others, and a seat nobody drives is picked for at once.  A timeout  *)
(* scheduled for a pack cannot be cancelled: it names the number of the    *)
(* pack it was scheduled for.                                              *)
(*                                                                         *)
(* The operators are functions of a draft record, as the engine's are of   *)
(* its arguments.  A pack is how many cards are left in it: which card is  *)
(* taken decides nothing here.                                             *)
(***************************************************************************)
EXTENDS LimitedTable, Sequences, FiniteSets, FiniteSetsExt

CONSTANTS PackSize,    \* cards of a booster
          DraftRounds  \* boosters a seat opens

ASSUME PackAssumption == PackSize \in Nat \ {0} /\ DraftRounds \in Nat \ {0}

FullPool == PackSize * DraftRounds
Timer == [seat : Seats, seq : 1..FullPool]
Draft ==
  [hand : [Seats -> Seq(1..PackSize)],  \* currentPack first, then packQueue
   pool : [Seats -> 0..FullPool],
   seq : [Seats -> 0..FullPool],        \* pickSeq: the packs it was timed for
   timers : SUBSET Timer,               \* timeouts that have yet to fire
   timed : BOOLEAN,
   round : 0..DraftRounds,              \* 0: no pack was ever dealt
   left : Nat,                          \* draftPacksRemaining
   done : BOOLEAN]                      \* the pools are final

NoDraft == [hand |-> [s \in Seats |-> <<>>], pool |-> [s \in Seats |-> 0],
            seq |-> [s \in Seats |-> 0], timers |-> {}, timed |-> FALSE,
            round |-> 0, left |-> 0, done |-> FALSE]

(* isEventPoolFinal: a draft that has ended, or a sealed event. *)
Final(pool) == [NoDraft EXCEPT !.pool = pool, !.done = TRUE]
Sealed == Final([s \in Seats |-> FullPool])

(***************************************************************************)
(* assignFreshPack, once the pack is current: it is numbered and timed     *)
(* unless the seat is driven by the server.  Of the timeouts that are out  *)
(* of date only the latest is kept: an older one would do what it does.    *)
(***************************************************************************)
ArmedWithChoice(d, s, auto) ==   \* mutant: a pack of one card is not timed
  IF ~d.timed \/ s \in auto THEN d
  ELSE [d EXCEPT !.seq[s] = @ + 1,
                 !.timers = IF Head(d.hand[s]) = 1 THEN @
                            ELSE @ \cup {[seat |-> s, seq |-> d.seq[s] + 1]}]
Armed(d, s, auto) ==
  IF ~d.timed \/ s \in auto THEN d
  ELSE [d EXCEPT !.seq[s] = @ + 1,
                 !.timers = { t \in @ : t.seat = s => t.seq = d.seq[s] }
                            \cup {[seat |-> s, seq |-> d.seq[s] + 1]}]

(* A pack arrives: it is current if the seat has none, else it is queued. *)
OnTop(d, s, pack, auto) ==   \* mutant: the pack that arrives displaces the queue
  Armed([d EXCEPT !.hand[s] = <<pack>>], s, auto)
Given(d, s, pack, auto) ==
  LET e == [d EXCEPT !.hand[s] = Append(@, pack)]
  IN IF d.hand[s] = <<>> THEN Armed(e, s, auto) ELSE e

(* Every seat opens a booster. *)
Dealt(d, auto) ==
  FoldSet(LAMBDA s, e : Armed(e, s, auto),
          [d EXCEPT !.round = @ + 1, !.left = Cardinality(Seats),
                    !.hand = [s \in Seats |-> <<PackSize>>]],
          Seats)

(* passDirection: to the left in the first round, then turn about. *)
Neighbour(s, round) ==
  LET n == Cardinality(Seats)
  IN IF round % 2 = 1 THEN (s % n) + 1 ELSE ((s + n - 2) % n) + 1

(***************************************************************************)
(* applyPick: the seat takes a card, hands the rest on and turns to its    *)
(* next pack; the last pack to be emptied opens the next round or ends     *)
(* the draft.  What timed a draft that has ended is forgotten, the         *)
(* timeouts included: each returns at once (limitedEvents.ts:2823).        *)
(***************************************************************************)
Passed(d, s, auto) ==
  LET rest == Head(d.hand[s]) - 1
      taken == [d EXCEPT !.hand[s] = Tail(@), !.pool[s] = @ + 1]
  IN IF rest > 0 THEN Given(taken, Neighbour(s, d.round), rest, auto)
     ELSE [taken EXCEPT !.left = @ - 1]
NotTimed(d, s, auto) == d   \* mutant: a queued pack is turned to untimed
Turned(d, s, auto) == IF d.hand[s] = <<>> THEN d ELSE Armed(d, s, auto)
Advanced(d, auto) ==
  IF d.left > 0 THEN d
  ELSE IF d.round < DraftRounds THEN Dealt(d, auto)
  ELSE Final(d.pool)
Picked(d, s, auto) == Advanced(Turned(Passed(d, s, auto), s, auto), auto)

(* runBotAutoPicks: the first seat the server drives that holds a pack picks, *)
(* until there is none.                                                    *)
BotPick(d, auto) ==
  LET ready == { s \in auto : d.hand[s] # <<>> }
  IN IF d.done \/ ready = {} THEN d ELSE Picked(d, Min(ready), auto)
BotsPicked(d, auto) ==
  FoldSet(LAMBDA i, e : BotPick(e, auto), d, 1..(Cardinality(Seats) * FullPool))

(* startDraft, and the bots' first picks. *)
Started(timed, auto) == BotsPicked(Dealt([NoDraft EXCEPT !.timed = timed], auto), auto)

(* The packs that are still on the table. *)
OnTable(d) == UNION { {s} \X DOMAIN d.hand[s] : s \in Seats }
=============================================================================
