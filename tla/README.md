# Tolaria: a TLA+ verification of the game engine

Tolaria is a web platform for playing Magic: The Gathering. Its server is
TypeScript on Convex: every public function is a *mutation*, one serializable
transaction over a document store. The server owns the rules (the "GRE" in
`src/convex/gre`, driven by the mutations of `src/convex/game.ts`), the matches,
the limited events (drafts, rounds, standings) and some background work.
The frontend (`src/src`) only displays what it is sent.

This directory holds the specifications kept beside that code, the TLC
instances that check them, and the theorems TLAPS proves about them.

    tlc -workers 2 -config Priority.cfg MCTurnPriority    # one run
    tlapm TurnOrderProofs.tla                             # one module of proofs

## 1. Inventory

| component | state it keeps | operations | what is hard | what makes it correct |
|---|---|---|---|---|
| **Turn, priority, stack** (`gre/phases.ts`, `gre/state.ts`, `gre/passUntilAction.ts`) | active player, step, priority, passCount, stack, standing intents, owed turns, skips and combats | `passPriority`, `endTurn`, `passUntilAction`, `cancelAutoPass`, `concede`; inside: `drainAutoPasses`, `advancePhase`, `advanceTurn`, `resolveTopOfStack` | three loops that call one another and stop anywhere for an input; standing passes that act for absent players | two passes resolve; steps and turns in order; turns end quiet; the drain ends |
| **Trigger placement** (`gre/triggers.ts`, `gre/rules.ts`, `gre/pendingTargetOrigin.ts`) | the held batch, `pendingTarget` | `placeTriggersOnStack`, `confirmTargets`, `cancelTarget` | simultaneous triggers held off the stack while other mutations run | held triggers land; announced before they resolve |
| **Pending choices** (`gre/pendingChoice*.ts`) | queue of choices | `submitResolutionChoice` by kind, `computeExpectedInput` | a resolution that stays on the stack behind its questions and is resumed by another mutation | the answer resumes the right object |
| **State-based actions** (`gre/sba.ts`) | none | `checkStateBasedActions`, `sweepUnlessResolutionSuspended` | run at many points, suspend on the legend rule, place triggers | no answer is lost |
| **Combat** (`gre/combat.ts`, `gre/damageAssignment.ts`, `game.ts`) | declarations, taxes, blocks, damage assignment | `toggleAttacker`, `confirmAttackers`, tax payment, `confirmBlockers`, `confirmDamage` | the actor is often not the holder of priority | blocks and damage are never stepped over; a tax is settled where it is owed |
| **Casting and payment** (`gre/castCommit.ts`, `gre/activationCommit.ts`, `gre/owedPayment.ts`) | `pendingCast`, tapped mana | announce, pay, cancel, commit | staged, reversible announcement | cancel restores what announcing took |
| **Mulligan and play/draw** (`gre/mulligan.ts`, `matches.ts`) | who chooses, declarations, locks, mulligans taken, bottom choices | `chooseFirstPlayer`, `declareMulligan`, the bottom pick | declarations made one by one that take effect together; choices that come rounds later | seats stay in step; turns begin with the hands that were kept |
| **Match and game lifecycle** (`matches.ts`, `gameTable.ts`, `game.ts`) | score, current game, its games row | start, join, record result, draw, next game, forfeit, leave | a result recorded twice or late; a match ended from outside | the match and its pairing agree; nobody is held by a match that no longer counts |
| **Limited draft** (`limited/draftEngine.ts`, `droppedSeat.ts`, `pickTimerSchedule.ts`) | packs, queues, `pickSeq` | pick, timeout, drop, bot pick | scheduled timeouts that cannot be cancelled | cards are conserved; every pack in front of a person is timed; a draft ends |
| **Limited rounds** (`limited/rounds.ts`, `swiss.ts`, `standings.ts`) | pairings, deadlines | report, concede, deadline, cascade, nudge | a deadline racing a result; a cascade that throws | rounds in order, no rematch, a result is never changed, an event ends |
| **Verdict outbox** (`verdictsOutbox.ts`, `verdictsDrain.ts`, `verdictForward.ts`) | rows to store, the bucket | submit, drain, forward, put, read back, mark | racing drains, lost answers, redeploys | nothing is forgotten before the bucket has it; all is stored at last |
| **Lobby, join codes, GC** (`joinCodes.ts`, `gameTable.ts`, `crons.ts`) | open tables | open, join, sweep | sweep against join | a code names one table |
| **Bug-report rate limit** (`bugReportRateLimit.ts`) | timestamps | check | window boundaries | equals a rolling window |
| **Layers and continuous effects** (`gre/layers.ts`, `gre/dependency.ts`) | none | characteristics of a permanent | dependency order | a large pure function |
| **Cards, oracle compiler, AI, tabletop, frontend, scripts** | - | - | - | see "Not modelled" |

How they interact. There is no shared memory and no lock: mutations are
transactions, so two of them never interleave inside. The concurrency of the
engine is that of *suspended control*: a mutation leaves the game in the middle
of a resolution, of a declaration or of a step, saves, and another mutation, of
either player, goes on from there. Any call of the API may come in any such
state, and only some of them are guarded by the one "expected input". The
limited events and the outbox add scheduled mutations, which fire late, cannot
be cancelled and are not retried. `PROJECT.json` lists the hazards one by one,
at their lines.

## 2. Plan

1. **StackRound, TurnPriority, TurnOrder** (done): the round of priority, the
   engine and its mutations, the abstract order of turns it implements.
2. **LimitedTable, LimitedDraft, LimitedRounds, LimitedEvent, EventLedger**
   (done): the draft and the rounds as functions, as in the code; the event that
   composes them with the matches of its pairings, the scheduler and the people
   at the table; the ledger of rounds it implements. Proved: what binds a
   pairing to its match, that both agree on the winner, and the refinement.
3. **VerdictArchive, VerdictOutbox** (done): racing drains, forwarded uploads,
   puts that fail or vanish, redeploys; refinement to an archive. Proved: its
   type, both safety invariants and the refinement.
4. **Opening** (done): the play/draw choice and the mulligan, composed with
   TurnPriority, whose first state is its last. Proved: the composition
   implements TurnPriority, and both properties of the opening.
   **CastPayment** (announce, pay, cancel, commit of a staged cast) is next.
5. Join codes and sweeps against joins; the rate limit as an operator checked
   against a reference definition; the driver of the bot's moves as a retry model.
6. Proofs. Every safety property of a passing run is a theorem (section 5), and
   every property a violation run refutes is a theorem under the condition that
   excludes its cause. What a proof may still add belongs to the modules above
   that are not written yet.

## 3. Modules

### StackRound: the data of a round of priority

One record, `round`, holds what a handler passes around: the holder of
priority, `passes` (passCount), the stack, the queue of choices
(`pendingChoices`), the target asked for (`pendingTarget`), the held batch
(`pendingTriggerBatch`, `held`). The code's functions change a `GameState` in
place; here they are functions from a round to a round: `PlaceTriggersOnStack`,
`Land` (`landTriggerAnnouncementPriority`), `RaiseTarget`
(`raiseTriggerTargetSelection`), `HandPriorityOn`, `Grant`, `FireDelayed`.
Which event fires which triggers is card data: the constant `Fires` says, for
every source, what one scan may find. `Placed` is the set of rounds that follow.

### TurnPriority: the engine and the mutations

A mutation is a *run of steps*. `ctl` says where the running mutation stands:
`ctl.at = "rest"` between mutations; a mutation's action leaves it, engine
steps follow, each one a piece of `drainAutoPasses`, `advancePhase`,
`advanceTurn` or `resolveTopOfStack`, and the state the code saves is the one
in which `ctl.at` is "rest" again. `ctl.caller` is who called the resolver or
`advancePhase` (the code behaves differently after `passPriority`, in the drain
and after an answer), `ctl.sweeps` whether the mutation ends with the sweep of
state-based actions. No other mutation moves in between, as in the code.

| variable | code |
|---|---|
| `active`, `phase` | `activePlayerId`, `phase` |
| `round` | see StackRound; its `told` is the place on the stack whose `collectedChoices` took the last answer |
| `intent` | `autoPassPlayers`, `queuedEndTurn`, `singleShotAutoPass`, `passUntilAction` and its queued form with their `ignoredStackIds`; its `seen` is a ghost: how much of the stack was there when the seat last pressed Pass Until Action |
| `owed` | extra turns, skipped turns and draw steps, extra combats, the extra cleanup, delayed triggers |
| `combat` | is there a live attacker, are attackers and blocks declared, taxes due and parked, is damage open and who still assigns |
| `board` | what the next check of state-based actions would find |
| `over` | `gameOver` |
| `passed` | ghost: who passed in succession since anything last happened; no action reads it |

| actions | code |
|---|---|
| `DrainAutoPasses`, `CheckBeforePass`, `Take*` | one iteration of `drainAutoPasses`: promotion of queued intents, the stop of Pass Until Action, state-based actions, what it confirms in the player's place, the pass |
| `ResolutionSuspends`, `ResolveTopOfStack`, `ResolveWithRetarget`, `SettleResolution` | `resolveTopOfStack` and what its callers do after it |
| `AdvancePhase`, `AdvanceTurn`, `Enter*`, `SkipDrawStep` | leaving a step, a turn; entering each step, up to its suspension, its skip or its round of priority |
| `Sweep`, `Recheck`, `LegendSettled`, `DamageDealt` | the ends of the mutations that have one of their own |
| `PassPriority` ... `ConfirmDamage` | one action per mutation of `game.ts` or kind of `submitResolutionChoice` |

`PROJECT.json` maps every definition to its lines.

What is abstracted, and what that costs:

- Cards are data. What a resolution may do is the constants `Asks` (whom it
  suspends on) and `Effects` (what it leaves: deaths to find, a legend, extra or
  skipped turns, attackers removed, ...); a resolution chooses one outcome.
- Attackers are a Boolean: does a live attacker exist. Bands, exert, enlist,
  attack requirements and the amounts of damage are left out; so are the
  Camouflage and Melee detours.
- A creature with first strike is nondeterministic: that step may be skipped.
- Blocks are confirmed by the engine, at the entry of the step or by the drain,
  exactly when no legal block exists, which is nondeterministic each time.
- The id of an object on the stack does not name it for ever. A trigger or a copy
  is allocated one (`Id`, finite, never one in use or in a baseline, since
  allocation never comes back). A spell keeps the id of its card and an
  activated ability that of its source (`Card`), so these do come back; a source
  in `Sources` may be activated again while its ability waits, and then two
  objects share one. What the code does by id is done by id: an answer
  goes to the bottom-most object of its id (`AnswerResolution`), and the
  baselines of Pass Until Action are multisets that shield the bottom-most
  objects of each id (`Masked`) and are pruned by the drain alone.
- A delayed trigger fires once, at a later step. Watches on the same turn and
  "each upkeep" triggers are left out.
- `AnswerOrder` accepts any permutation of the slice as submitted: it may be
  the one already held, which changes nothing.
- A target selection with minimum 0 that is declined counts as announced;
  triggers without a legal target (which the code drops) are not fired.
- The two questions of the draw step (which card looked at to draw, whether to
  pay for a replaced draw) are one kind, "draw". May-pay, name-card,
  meld-arrange and trigger-mode questions behave as a mid-resolution question or
  are left out.
- A cast is its commit: the staged `pendingCast` with its payment is planned as
  a module of its own.
- The monarch's end-step draw is one of the triggers of that step.
- The drain's bound of 200 iterations is not counted.
- `resolveTopOfStack` throws on an empty stack; the actions are guarded by
  `Resolving` instead, and `AnnouncedFirst` with the deadlock check show that it
  is never called on one.
- `Init` is the state `finalizeMulligan` leaves: the first upkeep, with priority
  to the player on the play. `Opening` is what comes before it.
- The legend rule is kept out of the priority run: `finalizeLegendKeep` hands
  priority back without resetting passCount, so a pass made before the question
  counts after it and `TwoPasses` does not hold of it (section 5). Nothing in the
  code says which is meant; it is a listed hazard. The combat run has the legend rule.

### Opening: a game from its play/draw choice on

`Opening` extends TurnPriority with the London mulligan. There is no game before
`chooseFirstPlayer`, so the choice is in `GameInit`: whoever chooses (the winner
of the toss, the loser of the last game, or nobody), a bot that always plays, and
so either seat on the play. While `stage` is "declaring" or "bottoming" the
variables of TurnPriority hold what `finalizeMulligan` leaves in them, and only a
concession changes one; afterwards `Play` is its `Next`.

| variable | code |
|---|---|
| `stage` | is `mulligan` set, and its `bottoming` |
| `seats` | `players`, the order in which seats declare; `active` is who plays first |
| `declaring`, `declared`, `locked`, `taken` | the fields of `MulliganState` |
| `hand` | how many cards each opening hand has; forgotten with the first step of the turns |
| `bottoms` | the queue of `mulligan-bottom` choices, always in seat order |

| actions | code |
|---|---|
| `DeclareMulligan`, with `ExecuteMulliganRound` and `EnterBottomingPhase` | `declareMulligan`: `recordDeclaration`, which executes the round and may begin the bottom choices or the game |
| `SubmitMulliganBottom` | `submitResolutionChoice` of that kind, which may begin the game |
| `ConcedeOpening` | `concede`, which no phase guards |

Libraries are never short of an opening hand (decks are checked before a match),
so a bottom choice is of as many cards as mulligans were taken. `passPriority`,
`endTurn`, `passUntilAction` and the actions on cards in hand ask for another
phase than MULLIGAN and are left out; abilities of cards in hand are not
modelled anywhere. `saveGameState` and the projections have no effect here.

### TurnOrder: the abstract specification

What the engine promises about turns and steps, without priority, stack or
choices: steps in order, an extra combat after an end of combat, another
cleanup when one is owed, the latest extra turn first, a skip taken from the
player who would move next. `TurnPriority!TurnStructure` maps `phase` to `step`
and the fields of `owed` to the abstract debts; everything else stutters.

### MCTurnPriority and the .cfg files

MCTurnPriority names the instances of `Fires`, `Asks` and `AttackTaxes` the
runs use; MCOpening adds the opening to them, for the `turn` run. `Symmetry`
permutes the two seats, which no definition tells apart but through `active`,
and the cards, and it is used in no run that checks liveness.

### VerdictOutbox: rows, drains, uploads, a bucket

A drain is a Convex *action*: it has no transaction, every query, mutation, put
and get it makes is a step, and drains race with one another and with the
uploads an acceptor runs for other deployments. What is atomic in the code is
one action here, and nothing more.

| variable | code |
|---|---|
| `row`, `born`, `hash` | the rows of `verdicts` and `verdictResolutions`: fat, slim or deleted; their order of insertion; the version of the code their stamp was computed with |
| `code` | the version of the hashing code each deployment runs |
| `objects`, `attestations` | the bucket: it never overwrites and never deletes |
| `drain` | where each running drain stands: the page it read, its cursor, what it waits to mark |
| `uploads` | the rows being uploaded, by a drain or by the acceptor; `awaited` is false once nobody waits for the answer |
| `vanished` | names the bucket acknowledged and does not hold |

| actions | code |
|---|---|
| `Submit`, `Teardown`, `Redeploy` | `submit`, `enqueueBulk`, `record`; the teardown of a test lane; a deploy |
| `Start`, `ReadPage`, `ReadBatch` | `drain`, `pendingPage` with its cursor, `pendingResolutions` without one |
| `Send`, `Leave` | `prepareOutboxRow`, then the upload here or the forward to the acceptor with its checks (`acceptForward`) |
| `PutObject`, `PutAttestation`, `ReRead` | `storeOutboxRow`, `storeResolutionRow`, each call able to fail before or after its effect |
| `TimeOut`, `Die` | a forward nobody answered in time; an action that dies |
| `Mark` | `markStored`, `markResolutionStored` with what they compare |

Abstractions. A name is a hash of a judgement: a pair of the judgement and the
version of the code that hashes it. What the acceptor refuses, what a test lane
seeds and which names hold other bytes are the constants `Refused`, `Fixtures`
and `Spoiled`; in the run the first two are empty. A paged row is always fat,
so `storeOutboxRow`'s answer `already-slim` to one cannot happen. A deployment
with neither credential has no drain. `VerdictArchive` is what this promises
its users: a judgement is given, recorded, and only then forgotten.

### LimitedDraft and LimitedRounds: the engines as functions

`draftEngine.ts`, `rounds.ts`, `swiss.ts` and `pairingMatch.ts` are pure
functions of an event's fields, and so are `LimitedDraft` (of a draft record)
and `LimitedRounds` (of the rounds opened so far). `Armed` is `assignFreshPack`,
`Picked` is `applyPick` (`Passed`, `Turned`, `Advanced`), `BotsPicked` is
`runBotAutoPicks`; `Openings` is `pairRound` with `openRound`, `Cascaded` is
`advanceRoundIfComplete`.

- A pack is how many cards are left in it. Which card is picked, selected and
  default picks, draft signals and unattended marks are left out.
- Of the timeouts of a seat that are out of date only the latest is kept, and a
  draft that ended forgets them all: each would return at once.
- The code draws the order of a round at random among equals; here every
  pairing of the least displacement may come. A pairing lists its seats in
  numeric order. Bot matches have any winner. `currentRound` is always the last.
- There are at most three rounds (`TotalRounds`), so a cascade is three steps.
- The tie-breaks of the standings are left out; a result is what
  `classifyPairingResult` makes of it.

### LimitedEvent: the event, its people, its matches, its scheduler

| variable | code |
|---|---|
| `status` | the phase of the event (`eventStatus.ts`); "gone": the row was deleted |
| `people`, `dropped` | `seats[].userId`, `seats[].droppedAt` |
| `decks` | the seats a deck names, read until the rounds begin |
| `draft`, `rounds` | the draft fields of the seats and the event; `rounds` |
| `deadlines`, `undated` | scheduled `expireRoundDeadline` calls; rounds whose scheduling failed |
| `matches` | the `matches` row and its current `games` row (`game`) |

| actions | code |
|---|---|
| `Join`, `Leave`, `StartDraft`, `StartSealed`, `Cancel` | `joinLimitedEvent`, `leaveLimitedEvent`, `startLimitedEvent`, `cancelLimitedEvent` |
| `SubmitPick`, `AutoPickSeatTimeout`, `SubmitDeck`, `RemoveDeck`, `DropBeforePlay` | picks and their timeouts, `userDecks.create` and `remove`, `dropSeatInDraft`; each ends in `OpenPlayPhaseIfReady` |
| `StartPairingMatch`, `JoinGame`, `ChooseFirstPlayer`, `NextGame`, `WinGame`, `DrawGame`, `ForfeitMatch`, `LeaveGame` | the mutations of `game.ts` and `gameTable.ts` on the match of a pairing; the last game runs `Record`, `recordLimitedPairingResult` |
| `DropInPlay`, `ExpireRoundDeadline`, `NudgeEventRounds` | a pairing decided without its match (`EndMatches`), and what the page of a stuck event sends |

- A person is named by the seat they have; the start of a draft reshuffles
  them. The type of the event is chosen at its start.
- The ready flags of `setReady` are merged into `NextGame`. The number of a game
  is capped at `BestOf`. Of a finished match only its winner and whether its
  games row still waits are kept; nothing else of it is read again.
- `findActiveMatchForUser` also sees casual matches; here only those of the
  event. A person in a casual match can be delayed by it, never freed.
- The second cascade that a drop makes in the step that opens the rounds finds
  them conceded already and does nothing.
- `MaxFaults` bounds cascades that throw (`Unadvanced`) and schedulings that
  fail (`Unscheduled`), both swallowed by the code.

`EventLedger` is what the rounds promise their players: they open in order,
seat everyone once, repeat no meeting, and keep every result recorded.

## 4. Runs

Every run of the engine has two players, the number it supports. All effects,
triggers and intents listed in a cfg combine freely.

| run | checks | shows |
|---|---|---|
| `priority` | TypeOK, TwoPasses, AnswerRead, TargetAlive, AnnouncedFirst, HeldIsAsked, BatchLands | three objects on the stack: one suspended, one triggered above it and one to order against it, which is what it takes to pop the wrong one; a pair held for its order while a death triggers beside it; cards that come back under their id; a draw step that asks |
| `combat` | TargetAlive, AnnouncedFirst, BlocksDeclared, DamageAssigned, EndsOnEmptyStack | all of combat with both taxes, both assigners, End Turn pressed anywhere, the legend rule, untap, draw and cleanup steps that ask |
| `turn` | OpeningType, RoundsInStep, HandsAsKept, TurnEndsQuiet, StopsOnAction, UntapWithoutPriority, TurnsInOrder | every opening with hands of three cards, which is what it takes for a seat to keep before, with or after the forced end of the other; then the turns: two debts at once, so that an extra turn meets a skip or another extra turn; suspended untap, draw and cleanup steps; delayed triggers of the cleanup; Pass Until Action against a card that comes back |
| `settles` | EngineSettles, TaxClears | every mutation that starts comes to rest, with a concession whenever the engine rests; every standing pass pressed beside a parked sacrifice |
| `outbox` | TypeOK, NothingForgotten, AttestedAfterVerdict, Archives, EventuallyStored | two deployments, one forwarding; a legacy row, the same judgement from another author, a resolution; a redeploy of either, a spoiled name, a fault anywhere |
| `event` | TypeOK, NobodyLeftWaiting, PacksCounted, PackTimed, BoundToItsMatch, WinnerAgrees, KeepsLedger, DraftEnds, RoundsEnd | a whole event of three seats: queues of packs, a bye each round, two rounds, a best of three, drops and deadlines anywhere, one fault |

Bounds: `MaxStack` (objects on the stack or held at once, and ids of triggers),
`Card` (cards cast or activated) and `MaxOwed` (debts at once) only bound
the state space; a trigger that finds no room or no id does not fire, an effect
that finds no room owes nothing. One card is enough for an id to come back, and
one in `Sources` for two objects to share theirs. Extra combats are owed in `turn`, whose end of combat is
reached without attackers. Deadlock is checked in `priority` and `combat`:
in every state somebody can act (sometimes only by pressing End Turn: see "A cast
before attackers are declared" below). It is off in `turn` and `settles`, where a game
may be lost or conceded and then really stops, and in `event`, which may end.

The bounds of `outbox`: page size and batch 1, so that a page has a successor
and a batch can be full; two versions, so that a hash moves once; one fault is
what it takes to separate any two calls that belong together. The two drains
are of two deployments, one direct and one forwarding, and an abandoned forward
is a second upload of the same judgement that runs on the acceptor beside the
acceptor's own drain; two drains of one table are covered by the proofs only,
which take any number of them. Deadlock is checked. The bounds of
`event`: three seats are the fewest with a bye, two rounds, and a queue of
packs; two people meet, race and leave one another; two boosters of two cards
turn the direction of passing and leave a pack in a queue; two matches are one
that is left and one that is played.

What each property says:

- **TwoPasses**: a resolution, or the end of a step, takes a pass of each seat
  in succession with nothing put on the stack, answered or declared between.
  The code counts in `passCount`, reset at dozens of places; the ghost `passed`
  remembers *who* passed, so a single missing reset shows.
- **AnswerRead**: the answer to a suspended resolution is written on the very
  object that then resumes. It is found by an id, twice over: nothing may be
  swept, placed or popped while the resolution waits, and no object below may
  have its id. `priority` has no source activated again while it waits
  (`Sources = {}`); `answer_misread` has.
- **TargetAlive**: a target is asked only for an object that is on the stack,
  and a trigger's only while it is unannounced.
- **AnnouncedFirst**: no trigger resolves before its target is announced.
- **HeldIsAsked**: a batch held off the stack has its order asked for.
- **BlocksDeclared**, **DamageAssigned**: no standing pass takes a block or an
  assignment from the player it belongs to.
- **TaxClears**: a tax parked on a declaration is paid or cancelled before the
  attack is confirmed and before its step is left.
- **BatchLands**: what is held for its order reaches the stack, whatever is
  triggered meanwhile.
- **StopsOnAction**: Pass Until Action never passes over an object the opponent
  put on the stack since the seat last pressed, though an object of the same id
  may have been there then. What is new is said by the ghost `seen`, a height of
  the stack, not by ids.
- **EndsOnEmptyStack**, **UntapWithoutPriority**: no step is left over an object
  on the stack; in the untap step nobody is handed priority.
- **TurnEndsQuiet**: no turn ends over an object on the stack or an input owed.
- **TurnsInOrder**: TurnPriority implements TurnOrder.
- **RoundsInStep**: the opening waits on a seat that can declare, and no seat is
  a mulligan ahead of one that has not kept.
- **HandsAsKept**: turns begin with a card less in each hand for every mulligan
  its seat took, in whatever rounds.
- **EngineSettles** (liveness): a mutation that started ends.
- **NothingForgotten**: a slim row names objects the bucket really holds.
- **AttestedAfterVerdict**: no attestation without its verdict, even briefly.
- **Archives**: VerdictOutbox implements VerdictArchive.
- **EventuallyStored** (liveness): every row is stored, unless no drain can
  store it (`Hopeless`: a hash that moved, a spoiled name, a refusal) or it is a
  resolution behind a full batch of such (`Starved`).
- **NobodyLeftWaiting**: whatever completes the table opens the rounds in the
  same transaction.
- **PacksCounted**: no card is lost or dealt twice; the count of packs that
  decides when a round ends is the number of packs on the table.
- **PackTimed**: in a timed draft every pack in front of a person has a timeout
  of that very pack to come, and no pack lies at a seat the server drives.
- **BoundToItsMatch**: an open pairing and its match wait for each other; no
  pairing waits for a match that is over, and no match holds its players when
  its pairing is decided.
- **WinnerAgrees**: a pairing and its match never name two winners.
- **KeepsLedger**: LimitedEvent implements EventLedger.
- **DraftEnds**, **RoundsEnd** (liveness): a timed draft ends though nobody
  picks; with deadlines an event ends though nobody plays and a cascade failed.

Fairness. In the engine `FairSpec` adds `WF_vars(EngineStep)`: a mutation that started runs to
its end, since the code is a synchronous call that nothing can preempt. Nothing
is assumed of the players. `settles` fires no death triggers: a death that
triggers a death is an infinite loop of the cards, which the code cuts at 200
iterations and the model does not. Within this instance the engine's own steps
give no loop, though both seats pass by themselves.

In the outbox every drain that may start or go on does (the hourly cron of
`crons.ts`, and a call returns or fails), and so does every upload: weak
fairness of each. Submits, deploys and faults have none. In the event the
scheduler runs what it was given, each at some time and once; the order is
free. The first conjunct of its `Fairness` is the weak fairness of `Scheduled`,
spelled out because it is enabled exactly when something is awaited. The nudge
is weakly fair because the page of a stuck event sends it as long as anybody
looks (`useRoundCascadeRecovery`). Nobody need pick, join or play.

### Disagreements between the code and what it says

Each has a run in which TLC finds the shortest behaviour; `PROJECT.json` quotes
the comments.

- `batch_lost`: a second batch of triggers, found by the sweep at the end of the
  mutation, replaces the one that waits for its order. The first never lands.
- `tax_dodged`: End Turn while a mana attack tax is parked confirms the attack
  untaxed, and the parked tax is carried into later steps.
- `window_skipped`: combat damage dealt by a standing pass puts triggers on the
  stack and grants the active player priority, and the same pass is then
  counted: one more pass, of the opponent, resolves the trigger.
- `step_ends_early`: delayed triggers of an end of combat without attackers go
  on the stack and the step is skipped over them.
- `passed_over`: Pass Until Action decides to go on, then state-based actions
  put an opposing trigger on the stack, then the pass is taken over it.
- `answer_misread`: two activations of one source wait on the stack; the upper one
  suspends on a question, and the answer is written on the lower one, which has
  the same id. The upper one resumes without it and asks again. A lower object
  keeps what it was told until it resolves; that it may then read it as the
  answer to a question of its own is not modelled.

Three more causes, each of a property above. No run of its own repeats
the property; TLC finds them in the instances given (one card, other sets of
effects, intents, questions, taxes and steps empty, `MaxOwed = 0`):

- *A baseline left unpruned* (StopsOnAction, `MCTurnPriority!ReuseFires`,
  `MaxStack = 3`, `Intents = {"until"}`).
  `prunePassUntilActionBaselines` is called by the drain "on every iteration, so
  a baseline object that resolved or left can never shield a new object that
  reuses its id" (`passUntilAction.ts:149`), and nowhere else. A seat presses Pass
  Until Action over a spell or ability; it resolves into two triggers to order,
  and the drain returns; `submitTriggerOrder` lands them without a drain; the
  opponent casts or activates the same card again. The next drain finds the
  baseline full and the seat passes over the new object.
- *Priority in the untap step* (UntapWithoutPriority, `MCTurnPriority!UntapFires`,
  `MaxStack = 2`, `Intents = {"end"}`): two untap triggers of
  one seat are put in order in the untap step, and landing them opens a round
  of priority there. `phases.ts:861` says that UNTAP grants no priority.
- *A card drawn over a held batch* (BatchLands, `MCTurnPriority!DrawFires`,
  `MaxStack = 4`, `Effects = {"draw"}`, `BeginSteps = {"DRAW"}`): the draw step
  asks its question, and its "at the beginning of" triggers are held for their
  order behind it; the answer draws a card, and the triggers of that draw replace
  the held batch.

Found while modelling, and described here rather than in runs of their own; each
is a behaviour of `TurnPriority`, `Opening` or `LimitedEvent`:

- *A cast before attackers are declared.* Nothing stops the active player from
  casting in the declare-attackers step before they confirm. Priority then is
  the opponent's, who may neither pass (`game.ts:13432`) nor confirm: they must
  respond, or press End Turn or Pass Until Action, which confirms the attackers
  as they are (`phases.ts:4366`). `gre/scenarioBuilder.ts:485` rejects this very
  position as one "which a live game cannot play forward". With one card
  and `Intents = {}` TLC reports it as a deadlock.

- *The second seat on the play declares second.* `makeMulliganState`
  (`gre/mulligan.ts:40`) and `nextDeclaringPlayerId` go in the order of
  `players`, and `buildInitialGameState` never reorders them, so whenever
  `chooseFirstPlayer` or the next game puts the second seat on the play its
  opponent declares, and puts cards back, first. The comments say otherwise:
  "The starting player declares first" (`gre/mulligan.ts:33`), "declarations
  begin with the active player" (`game.ts:771`). Here: `declaring` is `seats[1]`
  in `GameInit` whoever is `active`.
- *Either seat may make the choice.* `chooseFirstPlayer` takes the choice of
  whichever seat calls first, as `setReady` does that of the seat that readies
  last: nothing asks whether the caller is the chooser.
- *A match over before it began can be joined.* A drop or the deadline finishes
  a waiting match and leaves its games row `waiting`; `joinWaitingGame`
  (`game.ts:3841`) asks only the games row. The opponent who joins makes the
  match active again, and its starter may by then sit in the match of the next
  round: two active matches for one player, although `limitedEvents.ts:3076`
  finishes it "so the single-active-Match guard stops seeing it". Such matches
  are marked `late`.
- *A cancelled event moves on.* `cancelLimitedEvent` finishes a playing event;
  `recordLimitedPairingResult` asks no phase, so a match in progress still
  records its result and may open a round of a `finished` event, whose
  standings `eventStatus.ts` calls final. A seat may no longer start a match.
- *A match without a winner whose pairing has one.* A best of three with one win
  and then draws ends without `winner` (`recordDrawnGame`), which its comment
  calls "how a drawn Match is recorded"; the pairing, 1-0, is a win. And only a
  drawn game looks at the number of games: a draw and a win for each side go on
  to a fourth game, where a draw as the third game would have ended the match.
- *Decks count for seats.* A deck may be created in any phase. One made while
  seating is open counts for whoever gets that seat in the shuffle; one made in
  the middle of a draft opens the rounds the moment the draft ends.
- *A deadline that could not be scheduled stays unscheduled* (`undated`): the
  failure is logged, and nothing arms that round again.

Each of the properties of the violation runs, and UntapWithoutPriority, is false
of the code at large, and true of it once its causes are left out: section 5
proves that for every value of the constants. A passing run checks each on an
instance without them (`TwoPasses` without combat and legends, `BatchLands`
where deaths and draws fire triggers that need no order, `TaxClears` with taxes
that are sacrifices only, `EndsOnEmptyStack` without triggers in skipped steps,
`StopsOnAction` without triggers of deaths and without resolutions to order
after, `AnswerRead` without a source activated twice, `UntapWithoutPriority`
without two untap triggers to order), so that a further cause would show.
`TurnEndsQuiet` and `TurnsInOrder` hold in spite of all.

## 5. Proofs

TLAPS proves the following for every value of the constants that satisfies the
assumptions: two distinct players (`PlayerAssumption`), naturals for bounds
(`StackAssumption`, `OwedAssumption`), and constants of their kinds
(`FiresAssumption`, which also says that a source may fire nothing,
`AsksAssumption`, `InputAssumption`). `DelayedAssumption` says that a delayed
trigger owes no target: `buildDelayedTriggerStackItem` (`gre/triggers.ts:57`)
makes its item without the requirement by which `raiseTriggerTargetSelection`
(`gre/rules.ts:4979`) finds what to announce; only `TargetsAnnouncedFirst` needs
it. TLC evaluates all of them on every run.

- `TypeCorrect` (TurnPriorityProofs): `Spec => []TypeOK`. TypeOK is inductive
  as it stands. It rests on typing lemmas, one per operator of StackRound: among them that a batch built from fresh ids is a batch of items,
  which needs the arithmetic of the two slices.
- `TurnsEndQuiet` (TurnOrderProofs): `Spec => []TurnEndsQuiet`. TurnEndsQuiet is
  not inductive: the step that ends a turn does not look at the stack. It may
  come from a second pass, from a step in which nobody gets priority, or from
  the answer to the choice that suspended a cleanup step. The invariant is
  `OrderInv == TypeOK /\ DrainOwed /\ SoloOwed /\ LeavesQuiet`:
  - `DrainOwed`: the drain counts a pass only when no input is owed;
  - `SoloOwed`: an untap or cleanup choice is open alone, over an empty stack,
    in its own step, so its answer resumes a quiet step;
  - `LeavesQuiet`: steps are left and entered on a quiet round. Combat steps,
    which are skipped whatever is on the stack (`step_ends_early`), and untap,
    whose triggers wait for the upkeep, are the exceptions the invariant has to
    name, and the step each of them leads to must be one that opens a round.
- `ImplementsTurnOrder` (TurnOrderProofs): `Spec => TurnsInOrder`. Initial
  states map to initial states; every engine step and mutation maps to a step of
  TurnOrder or to a stutter. AdvancePhase and AdvanceTurn need OrderInv: a turn
  is left only from the cleanup step with no cleanup owed, and combats are only
  ever consumed when there is one.

VerdictOutboxProofs, for every value of the constants that satisfies
`RowAssumption`, `BoundAssumption` and `SpoiledAssumption`:

- `TypeCorrect`, `NeverForgotten`, `NeverDangling`: TypeOK, NothingForgotten and
  AttestedAfterVerdict always hold, for any number of rows, deployments, drains
  and faults. The inductive invariant adds `MarkSound` (what a drain waits to
  mark has been read back: the fact that survives between the read and the mark
  because the bucket only grows) and `PutFirst` (an upload past its first stage
  has a verdict that was answered for).
- `ImplementsArchive`: VerdictOutbox implements VerdictArchive. A step of the
  outbox is a Give, a Forget, a Remove, a Record or a stutter; Forget needs
  MarkSound, since it is only there that the row's key is known to be stored.

TurnInputProofs, on top of OrderInv, for six of the engine's safety invariants
at once. Its invariant is `InputInv`:

- `Asking`: either the round is `Orderly` (what is held is asked for, a target
  is of an object on the stack, no resolution is suspended, and while a trigger
  on the stack is unannounced the target of one is asked for) or it is `Behind` a
  suspended resolution: every choice is of the object on top, nothing is held,
  targeted or unannounced, and the engine is at rest or about to hand it over.
  AnswerRead is not inductive alone: it is lost if anything is pushed or popped
  while the choices are open, which only the second case excludes. With it,
  `Told` is inductive: the last answer, if any, was written on the bottom-most
  object with the id of the top.
- `Settled`: an object resolves, and its resolution is settled, with no input
  owed.
- `OpenHere`: damage still to be assigned keeps the game in its damage step.
- `BlocksDeclared`, inductive with these.

`AnswersAreRead`, `TargetsStayAlive`, `TargetsAnnouncedFirst`,
`HeldTriggersAreAsked`, `BlocksAreDeclared` and `DamageIsAssigned` follow. The
first says `AnswerRead \/ SharesItsId`: an answer is read unless a lower object on
the stack has the id of the top. That only two activations of one source share an
id is left to TLC: `priority`, where there are none, checks AnswerRead itself. The lemmas are one per action
or group of actions, and one for each function on rounds that an Orderly round
stays so. They need no bound and, but for DelayedAssumption, nothing of `Fires`: any
triggers may come, anywhere.

TurnCauseProofs, for the other properties that TLC refutes. Each holds for all
values of the constants that leave its causes out, and each invariant below is inductive
on top of OrderInv and InputInv. So what the hypotheses name is all there is to
repair: no other trigger, question, intent or effect breaks the property.

| theorem | holds when | why |
|---|---|---|
| `TwoPassesElsewhere` | nothing triggers on attack, block or damage, and no legend is duplicated (`Undisturbed`; the constants of `priority` satisfy it) | `PassInv`: outside the moments that leave a step or resolve, and with no input owed, passCount is 0, or 1 with the opponent of the holder the one who passed (`Counted`); an open declaration was not passed over (`Unpassed`); a parked sacrifice leaves only its payment (`Paying`), which starts afresh |
| `TaxClearsElsewhere` | attacks owe no mana, or nobody presses a standing pass (`PressesBarred`) | `TaxInv`: with a tax parked the game is at rest, waits for nothing else and the declaration is still open |
| `UntapKeepsPriority` | triggers of the untap step need no order (`Unordered("untap")`) | `UntapInv`: the step is entered, left, or waits for its own question, and never comes to a drain |
| `StepsEndEmpty` | nothing triggers in the untap step, nor on the entry of a combat step (`NothingPiles`) | `EmptyInv`: the stack is empty wherever a step is left or entered |
| `StopsOnActionElsewhere` | no death fires a trigger of the player whose turn it is not (`DeathsFireActive`), and what resolves fires no triggers to order (`Unordered("resolve")`) | `SeenInv`: a baseline shields nothing above the height the seat saw, though ids come back: what leaves the stack is pruned before anything else is put on it; `StopInv`: what the drain found before state-based actions it still finds when it takes the pass |
| `BatchLandsElsewhere` | triggers of deaths, and of the events of a step's entry, need no order (`Unordered` of "death" and of "event") | `BatchInv`: what is not held is on the stack; every step either keeps the held batch or holds one where there was none (`Carries`), and the answer that lands it stacks a permutation of it (`OrderedSame`) |

The causes are needed. For tax, the deaths of StopsOnAction and of BatchLands,
and damage in TwoPasses the violation runs show it; the instances in section 4
show it for untap, for resolutions to order, and for BatchLands at a step's
entry. For TwoPasses TLC finds a missing pass likewise with an attack
trigger alone (a declaration confirmed within a standing pass), with a block
trigger alone, and with the legend rule added to `priority` (a pass, the choice
of the legend to keep, and a second pass by the same count). The block
trigger is a matter of the model, in which a block may turn illegal while
the defender is waited for. `NothingPiles` is wider than its
finding, which is of END_OF_COMBAT: triggers of the untap step wait on the
stack for the upkeep by design, and so would those of a combat step that is
skipped. BatchLands compares the rounds before and after a step of the engine: a batch of
the entry of a step that the step's own "at the beginning of" triggers replace
within the same entry is never in one, so of that case, which the same
assignment allows, neither the run nor the theorem speaks.

OpeningProofs, with `HandAssumption` (a hand has at least a card):

- `GameImplementsEngine`: `GameSpec => Spec`. A game with its opening is a game
  of TurnPriority, so its theorems carry over; `GameTurnsInOrder` and
  `GameTurnsEndQuiet` state two of them.
- `OpeningTypeCorrect`, `KeptInStep`, `BeginsAsKept`: OpeningType, RoundsInStep
  and HandsAsKept, for every hand size. The invariant adds that a seat that has
  not kept has a mulligan left to take (or the forced lock came late), that who
  is locked has declared nothing, and that while bottom choices are open a hand
  is whole until its own is answered.

LimitedEventProofs begins with lemmas on the rounds as functions: what `Openings`
returns seats everybody once and repeats no meeting; `Cascaded` keeps `Good`
(all the rounds do, and every round but the last is decided) and only extends.
Then, for any number of seats, people, matches and faults:

- `HoldOn`, `AgreeOnWinner`: BoundToItsMatch and WinnerAgrees. The inductive
  invariant is `IInv`: `Good(rounds)`; `Bonds`, which is `Single` (no match is
  bound to two pairings), `Tied` (an open pairing's match is under way, of its
  round and its two seats; a decided one's names no other winner) and `Owns` (a
  match under way has its open pairing); `Matched` (the matches are typed; a
  table that may still be left is under way, a score below the games to win);
  `Phase` (there are rounds only once the play phase opened); `Dated` (deadlines
  are of rounds there are). Without Good a seat could be found in two pairings
  of a round, and without Single the deadline could end a match that belongs to
  another pairing.
- `KeepsTheLedger`: LimitedEvent implements EventLedger. Every action
  `Proceeds`: IInv holds after it and the rounds only continue. What decides a
  pairing (`Decides`) changes an open one and nothing else, and what opens a
  round (`GrownGood`) does so when the last is settled.

- `TypeCorrect`, `NobodyIsLeftWaiting`, `PacksAreTimed`, `PacksAreCounted`: the
  event's TypeOK, NobodyLeftWaiting, PackTimed and PacksCounted, for any number
  of seats, packs, cards and people. The invariant is `IInv /\ AtTable /\
  InBounds`; AtTable says, phase by phase, in what state the draft is: not begun,
  `Going` with nothing left in front of a seat the server drives (`Quiet`), dealt
  out (`Full`), or cut short by a cancellation.

LimitedDraftProofs says what a draft is while it goes on (`Tabled`, `Clocked`):

- `InOrder`: of this round a seat has been brought its own pack and one for every
  pick of the seat before it, the `i`-th of which has lost `i - 1` cards. PacksCounted is not
  inductive without it: that a round ends with every pack empty and every pool
  grown by a booster follows from where the packs are, not from how many.
- `Counted`: the cards in pools and packs are those dealt, and `left` is the
  number of packs on the table.
- `Numbered` and `TimedBut`: no seat's `pickSeq` runs past its picks, and every pack in front
  of a person, but for those just passed and not yet armed, has its timeout.
- `BotsPicked` and `Dealt` are folds over sets and over a number of picks. The
  induction theorems of the library take an operator and cannot be used, but a
  *set* of the subsets (or of the numbers) a fact holds of can be named: `SubsetInd`
  and `NatInd` derive induction over such a set from the library's
  well-foundedness of the strict subset order. From them come the sums
  (`MapThenSumSet`) and that the bots stop, because a pick takes a card.

Each proof that the invariant is preserved has a lemma per action or group of
actions; facts on the pure functions (`PlacedEffect`, `LandEffect`,
`HeadChooserEffect`, `FireDelayedEffect`) are stated once in TurnPriorityProofs.

Only model-checked: all liveness (EngineSettles, EventuallyStored, DraftEnds,
RoundsEnd) and the absence of deadlock, since liveness and ENABLED are out of
this prover's reach. That the conditions of TurnCauseProofs are needed is TLC's
to show as well: a proof can say that a property holds, and the runs that it
does not.

## 6. Not modelled

- **Payment, lobby and join codes, rate limit**: planned, see the plan.
- **Which cards a mulligan draws and puts back**: hands are counted; the
  shuffle is a seeded function of data.
- **Casual, challenge and solo tables**: the matches of an event's pairings are
  modelled; those of the lobby share their code but bind no pairing. Deletion of
  finished games and matches by the sweeps of `crons.ts` is planned with the
  lobby, and so are the sideboards themselves.
- **Standings tie-breaks, draft signals, default picks, deck building by
  bots**: pure functions of data that no control depends on.
- **Layers and dependency**: a large pure function of the board, with no state.
  Its dependency order may become an operator module later.
- **Card catalogue, effect scripts, oracle compiler**: thousands of card
  definitions and the compiler that makes them from text: data, and sequential
  code with golden tests. Their influence on control is the constants.
- **AI search**: its quality is statistical. **Tabletop games**: free-form moves
  with no rules to enforce. **Frontend, scripts, dashboard**: no authority over
  the game.
