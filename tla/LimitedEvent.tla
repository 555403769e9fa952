---------------------------- MODULE LimitedEvent ----------------------------
(***************************************************************************)
(* A limited event from its first seat to its last round                   *)
(* (convex/limitedEvents.ts, and the matches of game.ts, matches.ts and    *)
(* gameTable.ts that its pairings are played in).  Every mutation is a     *)
(* transaction, so a step; what interleaves are the people at the table,   *)
(* the pick timeouts and the deadlines of rounds, which nobody can cancel, *)
(* and the matches, which live on when their pairing was decided without   *)
(* them.  A person is named by the seat they have.                         *)
(***************************************************************************)
EXTENDS LimitedDraft, LimitedRounds

CONSTANTS
  MaxPeople,    \* bound: the people who may sit down
  BestOf,       \* the games of a match: 1 or 3
  HasDeadline,  \* the event has a deadline for its rounds
  MaxFaults     \* bound: cascades that throw, schedulings that fail

ASSUME BoundAssumption ==
  /\ MaxPeople \in Nat /\ MaxMatches \in Nat /\ MaxFaults \in Nat
  /\ BestOf \in {1, 3} /\ HasDeadline \in BOOLEAN

VARIABLES
  status,     \* the phase of the event; "gone": its row was deleted
  people,     \* the seats that have a userId; from the start the rest are bots
  dropped,    \* the seats whose person left after the start
  decks,      \* the seats a deck was submitted for, until the rounds begin
  draft,
  rounds,     \* currentRound is always the last of them
  deadlines,  \* the rounds whose scheduled expiry has yet to fire
  undated,    \* the rounds whose expiry could not be scheduled
  matches,
  faults

vars == <<status, people, dropped, decks, draft, rounds, deadlines, undated,
          matches, faults>>
play == <<rounds, deadlines, undated, matches, faults>>
table == <<people, dropped, decks, draft>>

Match ==
  [status : {"unborn", "waiting", "pregame", "playing", "sideboarding",
             "finished", "gone"},
   game : {"none", "waiting", "pregame", "playing", "over"},  \* its games row
   round : Nat, a : Seats \cup {Nobody}, b : Seats \cup {Nobody},
   joined : BOOLEAN,                  \* the second seat is in players
   late : BOOLEAN,                    \* ... and came after the match was over
   wins : [a : 0..1, b : 0..1], number : 1..BestOf,
   winner : Seats \cup {Nobody}]
Unborn == [status |-> "unborn", game |-> "none", round |-> 0, a |-> Nobody,
           b |-> Nobody, joined |-> FALSE, late |-> FALSE,
           wins |-> [a |-> 0, b |-> 0], number |-> 1, winner |-> Nobody]
Active == {"waiting", "pregame", "playing", "sideboarding"}

TypeOK ==
  /\ status \in {"open", "started", "playing", "finished", "gone"}
  /\ people \subseteq Seats /\ dropped \subseteq people /\ decks \subseteq Seats
  /\ draft \in Draft
  /\ rounds \in Seq(SUBSET Pairing) /\ Len(rounds) <= TotalRounds
  /\ deadlines \subseteq DOMAIN rounds /\ undated \subseteq DOMAIN rounds
  /\ matches \in [1..MaxMatches -> Match]
  /\ faults \in 0..MaxFaults

Bots == Seats \ people
AutoDriven == Bots \cup dropped  \* isAutoDrivenSeat
Last == rounds[Len(rounds)]

Init ==
  /\ status = "open"
  /\ people = {} /\ dropped = {} /\ decks = {}
  /\ draft = NoDraft
  /\ rounds = <<>> /\ deadlines = {} /\ undated = {}
  /\ matches = [m \in 1..MaxMatches |-> Unborn]
  /\ faults = 0

(***************************************************************************)
(* What advances the rounds.                                               *)
(***************************************************************************)

(* scheduleRoundDeadline: the round the cascade stopped at is due. *)
DueNext(rs, new) ==   \* mutant: counts from one where the rounds do already
  IF HasDeadline /\ Len(new) > Len(rs) /\ ~Complete(new[Len(new)])
  THEN {Len(new) + 1} ELSE {}
DueFirst(rs, new) ==  \* mutant: only the opening of the play phase schedules
  IF HasDeadline /\ rs = <<>> /\ ~Complete(new[Len(new)]) THEN {Len(new)} ELSE {}
Due(rs, new) ==
  IF HasDeadline /\ Len(new) > Len(rs) /\ ~Complete(new[Len(new)])
  THEN {Len(new)} ELSE {}

Advance(rs, pending) ==
  \E new \in Cascaded(rs, dropped', Bots') :
    /\ rounds' = new
    /\ status' = IF Over(new) THEN "finished" ELSE status
    /\ deadlines' = pending \cup Due(rs, new)
    /\ UNCHANGED <<undated, faults>>

(* The results rs are kept whatever becomes of the cascade. *)
Unadvanced(rs, pending) ==
  /\ faults < MaxFaults /\ faults' = faults + 1
  /\ rounds' = rs /\ deadlines' = pending
  /\ UNCHANGED <<status, undated>>

(* ... and the round it opened, whatever becomes of the scheduling. *)
Unscheduled(rs, pending) ==
  /\ faults < MaxFaults /\ faults' = faults + 1
  /\ \E new \in Cascaded(rs, dropped, Bots) :
       /\ Due(rs, new) # {}
       /\ rounds' = new
       /\ undated' = undated \cup Due(rs, new)
  /\ deadlines' = pending
  /\ UNCHANGED status

(***************************************************************************)
(* openPlayPhaseIfReady, last in every transaction that may complete the   *)
(* table: it reads what the transaction wrote.  What throws in it rolls    *)
(* the transaction back.  The decks are not read after it.                 *)
(***************************************************************************)
Ready(final, submitted, auto) == final.done /\ Seats \ auto \subseteq submitted
OpenPlayPhaseAsRead(phase, submitted) ==   \* mutant: of the seats as they were read
  IF phase = "started" /\ Ready(draft', submitted, AutoDriven)
  THEN \E new \in Cascaded(<<>>, dropped', Bots') :
         /\ rounds' = new
         /\ status' = IF Over(new) THEN "finished" ELSE "playing"
         /\ deadlines' = Due(<<>>, new)
         /\ decks' = {}
         /\ UNCHANGED <<undated, matches, faults>>
  ELSE status' = phase /\ decks' = submitted /\ UNCHANGED play
OpenPlayPhaseIfReady(phase, submitted) ==
  IF phase = "started" /\ Ready(draft', submitted, AutoDriven')
  THEN \E new \in Cascaded(<<>>, dropped', Bots') :
         /\ rounds' = new
         /\ status' = IF Over(new) THEN "finished" ELSE "playing"
         /\ deadlines' = Due(<<>>, new)
         /\ decks' = {}
         /\ UNCHANGED <<undated, matches, faults>>
  ELSE status' = phase /\ decks' = submitted /\ UNCHANGED play

(***************************************************************************)
(* The table.                                                              *)
(***************************************************************************)

(* joinLimitedEvent: the first free seat. *)
Join ==
  /\ status = "open" /\ people # Seats
  /\ Cardinality(people) < MaxPeople
  /\ people' = people \cup {Min(Seats \ people)}
  /\ UNCHANGED <<status, dropped, decks, draft, play>>

(* leaveLimitedEvent of an open event: releaseSeat. *)
Leave(s) ==
  /\ status = "open" /\ s \in people
  /\ people' = people \ {s}
  /\ UNCHANGED <<status, dropped, decks, draft, play>>

(* startLimitedEvent: of a draft the seats are shuffled, two people or more
   are always timed, and the bots pick before anyone does. *)
StartDraft ==
  /\ status = "open"
  /\ people' \in { p \in SUBSET Seats : Cardinality(p) = Cardinality(people) }
  /\ \E timed \in BOOLEAN :
       /\ Cardinality(people) >= 2 => timed
       /\ draft' = Started(timed, Bots')
  /\ UNCHANGED dropped
  /\ OpenPlayPhaseIfReady("started", decks)
StartSealed ==
  /\ status = "open"
  /\ draft' = Sealed
  /\ UNCHANGED <<people, dropped>>
  /\ OpenPlayPhaseIfReady("started", decks)

(* submitPick *)
SubmitPick(s) ==
  /\ status = "started" /\ ~draft.done
  /\ s \in people /\ draft.hand[s] # <<>>
  /\ draft' = BotsPicked(Picked(draft, s, AutoDriven), AutoDriven)
  /\ UNCHANGED <<people, dropped>>
  /\ OpenPlayPhaseIfReady(status, decks)

(* autoPickSeatTimeout: a timeout that is out of date does nothing. *)
InDate(t) ==
  /\ status = "started" /\ ~draft.done /\ draft.timed
  /\ t.seat \notin AutoDriven /\ draft.seq[t.seat] = t.seq
  /\ draft.hand[t.seat] # <<>>
AutoPickSeatTimeout(t) ==
  /\ t \in draft.timers
  /\ LET fired == [draft EXCEPT !.timers = @ \ {t}]
     IN draft' = IF InDate(t)
                 THEN BotsPicked(Picked(fired, t.seat, AutoDriven), AutoDriven)
                 ELSE fired
  /\ UNCHANGED <<people, dropped>>
  /\ IF InDate(t) THEN OpenPlayPhaseIfReady(status, decks)
     ELSE UNCHANGED <<status, decks, play>>

(* userDecks.create and remove, which ask no phase: a deck is read until the
   rounds begin, and counts for the seat it names. *)
SubmitDeck(s) ==
  /\ status \in {"open", "started"} /\ s \in people \ decks
  /\ UNCHANGED <<people, dropped, draft>>
  /\ OpenPlayPhaseIfReady(status, decks \cup {s})
RemoveDeck(s) ==
  /\ status \in {"open", "started"} /\ s \in people \cap decks
  /\ decks' = decks \ {s}
  /\ UNCHANGED <<status, people, dropped, draft, play>>

(* cancelLimitedEvent *)
Cancel ==
  /\ status \in {"open", "started", "playing"}
  /\ status' = IF status = "open" THEN "gone" ELSE "finished"
  /\ UNCHANGED <<table, play>>

(***************************************************************************)
(* The matches of the pairings.                                            *)
(***************************************************************************)

Plays(s, m) == m.a = s \/ (m.joined /\ m.b = s)
(* findActiveMatchForUser *)
Busy(s) == \E i \in DOMAIN matches : matches[i].status \in Active /\ Plays(s, matches[i])

(***************************************************************************)
(* A match that is over keeps who won it and, if nobody joined, a games    *)
(* row one can join.  Nothing else of it is read again: not its score, and *)
(* a game that goes on in it is not counted (finalizeGameOver).            *)
(***************************************************************************)
Finished(m, winner) ==
  [m EXCEPT !.status = "finished", !.winner = winner,
            !.game = IF @ = "waiting" THEN @ ELSE "over",
            !.wins = [a |-> 0, b |-> 0], !.number = 1]

(* startPairingMatch: against a bot the match is ready to begin, against a
   person it waits for them. *)
StartPairingMatch(s) ==
  /\ status = "playing" /\ s \in people /\ ~Busy(s)
  /\ LET p == PairingOf(Last, s)
         opponent == Other(s, p)
         i == CHOOSE m \in DOMAIN matches : matches[m].status = "unborn"
         solo == opponent \in Bots
     IN /\ p.b # Nobody /\ p.result = "open"
        /\ p.match # 0 => matches[p.match].status = "gone"
        /\ \E m \in DOMAIN matches : matches[m].status = "unborn"
        /\ matches' = [matches EXCEPT ![i] =
             [Unborn EXCEPT !.round = Len(rounds), !.a = s, !.b = opponent,
                            !.joined = solo,
                            !.status = IF solo THEN "pregame" ELSE "waiting",
                            !.game = IF solo THEN "pregame" ELSE "waiting"]]
        /\ rounds' = Rewritten(rounds, Len(rounds), p, [p EXCEPT !.match = i])
  /\ UNCHANGED <<table, status, deadlines, undated, faults>>

(* joinGame: only the games row is asked whether it waits. *)
JoinGame(i) ==
  LET m == matches[i]
  IN /\ m.game = "waiting" /\ ~m.joined /\ ~Busy(m.b)
     /\ matches' = [matches EXCEPT ![i] =
          [m EXCEPT !.joined = TRUE, !.late = m.status = "finished",
                    !.status = "pregame", !.game = "pregame"]]
     /\ UNCHANGED <<table, status, rounds, deadlines, undated, faults>>

(* chooseFirstPlayer *)
ChooseFirstPlayer(i) ==
  /\ matches[i].status = "pregame"
  /\ matches' = [matches EXCEPT ![i].status = "playing", ![i].game = "playing"]
  /\ UNCHANGED <<table, status, rounds, deadlines, undated, faults>>

(* setReady of the last seat, or continueMatch: the next game.  Whether it is
   the last one is all that is asked of its number. *)
NextGame(i) ==
  /\ matches[i].status = "sideboarding"
  /\ matches' = [matches EXCEPT ![i].status = "playing", ![i].game = "playing",
                                ![i].number = IF @ < BestOf THEN @ + 1 ELSE @]
  /\ UNCHANGED <<table, status, rounds, deadlines, undated, faults>>

(***************************************************************************)
(* recordLimitedPairingResult of a match that is over: its pairing takes   *)
(* the result, turned to the pairing's own order of seats, if it is open   *)
(* and bound to this match; then the rounds advance as they can.           *)
(***************************************************************************)
BoundEver(i) ==   \* mutant: a pairing that is decided is recorded again
  { p \in rounds[matches[i].round] :
      {p.a, p.b} = {matches[i].a, matches[i].b} /\ p.match = i }
Bound(i) ==
  { p \in rounds[matches[i].round] :
      /\ {p.a, p.b} = {matches[i].a, matches[i].b}
      /\ p.match = i /\ p.result = "open" }
AsPlayed(p, m, x, y) ==   \* mutant: in the order of the match
  [p EXCEPT !.result = IF x = y THEN "draw" ELSE IF x > y THEN "a" ELSE "b"]
Played(p, m, x, y) ==
  IF x = y THEN [p EXCEPT !.result = "draw"] ELSE WonBy(p, IF x > y THEN m.a ELSE m.b)
Record(i, x, y) ==
  IF Bound(i) = {} THEN UNCHANGED <<status, rounds, deadlines, undated, faults>>
  ELSE LET p == CHOOSE q \in Bound(i) : TRUE
           rs == Rewritten(rounds, matches[i].round, p, Played(p, matches[i], x, y))
       IN Advance(rs, deadlines) \/ Unadvanced(rs, deadlines)
          \/ Unscheduled(rs, deadlines)

(* finalizeGameOver: recordGameResult, or recordDrawnGame. *)
GamesToWin == BestOf \div 2 + 1
WinGame(i, s) ==
  LET m == matches[i]
      x == m.wins.a + (IF s = m.a THEN 1 ELSE 0)
      y == m.wins.b + (IF s = m.a THEN 0 ELSE 1)
  IN /\ m.status = "playing" /\ s \in {m.a, m.b}
     /\ UNCHANGED table
     /\ IF x = GamesToWin \/ y = GamesToWin
        THEN /\ matches' = [matches EXCEPT ![i] = Finished(m, s)]
             /\ Record(i, x, y)
        ELSE /\ matches' = [matches EXCEPT ![i] =
                  [m EXCEPT !.status = "sideboarding", !.game = "over",
                            !.wins = [a |-> x, b |-> y]]]
             /\ UNCHANGED <<status, rounds, deadlines, undated, faults>>
DrawGame(i) ==
  LET m == matches[i]
  IN /\ m.status = "playing"
     /\ UNCHANGED table
     /\ IF m.number = BestOf
        THEN /\ matches' = [matches EXCEPT ![i] = Finished(m, Nobody)]
             /\ Record(i, m.wins.a, m.wins.b)
        ELSE /\ matches' = [matches EXCEPT ![i].status = "sideboarding",
                                           ![i].game = "over"]
             /\ UNCHANGED <<status, rounds, deadlines, undated, faults>>

(* forfeitMatch: there must be an opponent to give the games to. *)
ForfeitMatch(i, s) ==
  LET m == matches[i]
      winner == IF s = m.a THEN m.b ELSE m.a
  IN /\ m.status \in Active /\ m.joined /\ s \in {m.a, m.b} \cap people
     /\ UNCHANGED table
     /\ matches' = [matches EXCEPT ![i] = Finished(m, winner)]
     /\ IF winner = m.a THEN Record(i, GamesToWin, m.wins.b)
        ELSE Record(i, m.wins.a, GamesToWin)

(* leaveGame, before the first game is under way: both rows go, and the pairing
   is released (releaseAbandonedPairing); a match that is over stays. *)
LeaveGame(i) ==
  LET m == matches[i]
      mine == { p \in rounds[m.round] : Sits(m.a, p) /\ p.match # 0 /\ p.result = "open" }
  IN /\ m.game \in {"waiting", "pregame"}
     /\ IF m.status \in {"waiting", "pregame"}
        THEN /\ matches' = [matches EXCEPT ![i] =
                  [Unborn EXCEPT !.status = "gone"]]
             /\ rounds' = [rounds EXCEPT ![m.round] =
                  (@ \ mine) \cup { [p EXCEPT !.match = 0] : p \in mine }]
        ELSE /\ matches' = [matches EXCEPT ![i].game = "over"]
             /\ UNCHANGED rounds
     /\ UNCHANGED <<table, status, deadlines, undated, faults>>

(***************************************************************************)
(* Deciding a pairing without its match.  The match behind it is over too  *)
(* (finishTimedOutPairingMatch), if it was not already; its winner is the  *)
(* pairing's, when they are among its players.                             *)
(***************************************************************************)
Ends(old, p) ==  \* the pairing was open and is p now
  LET m == matches[p.match]
  IN IF old.result = "open" /\ p.result # "open" /\ p.match # 0 /\ m.status \in Active
     THEN {[i |-> p.match, winner |-> IF Plays(Winner(p), m) THEN Winner(p) ELSE Nobody]}
     ELSE {}
LeavesOn(ended) == matches' = matches   \* mutant: the match stays as it was
EndMatches(ended) ==
  matches' = [i \in DOMAIN matches |->
    IF \E e \in ended : e.i = i
    THEN Finished(matches[i], (CHOOSE e \in ended : e.i = i).winner) ELSE matches[i]]

(* leaveLimitedEvent after the start: the seat is dropped and the server picks
   for it; then its pairing is conceded (concedeDroppedPairingsInPlay).  The
   rounds that open in this step concede it themselves. *)
DropBeforePlay(s) ==
  /\ status = "started" /\ s \in people \ dropped
  /\ dropped' = dropped \cup {s}
  /\ UNCHANGED people
  /\ draft' = IF draft.done THEN draft ELSE BotsPicked(draft, AutoDriven')
  /\ OpenPlayPhaseIfReady(status, decks)
DropInPlay(s) ==
  /\ status = "playing" /\ s \in people \ dropped
  /\ dropped' = dropped \cup {s}
  /\ UNCHANGED <<people, decks, draft>>
  /\ EndMatches(UNION { UNION { Ends(p, Conceded(p, dropped')) : p \in rounds[r] } :
                        r \in DOMAIN rounds })
  /\ \/ Advance(AllConceded(rounds, dropped'), deadlines)
     \/ Unadvanced(AllConceded(rounds, dropped'), deadlines)

(* resolveExpiredRound: a bot beats the person who did not play it; of two
   people the one who came beats the one who did not, else both lose. *)
Present(p) == { s \in {p.a, p.b} : p.match # 0 /\ Plays(s, matches[p.match]) }
Expired(p) ==
  IF p.result # "open" THEN p
  ELSE IF p.a \in Bots THEN WonBy(p, p.a)
  ELSE IF p.b \in Bots THEN WonBy(p, p.b)
  ELSE IF Cardinality(Present(p)) = 1 THEN WonBy(p, CHOOSE s \in Present(p) : TRUE)
  ELSE [p EXCEPT !.result = "loss"]

(* expireRoundDeadline, which fires once: it does nothing if the rounds no
   longer run or this one is decided. *)
ExpireRoundDeadline(r) ==
  /\ r \in deadlines
  /\ UNCHANGED table
  /\ IF status # "playing" \/ Complete(rounds[r])
     THEN /\ deadlines' = deadlines \ {r}
          /\ UNCHANGED <<status, rounds, undated, matches, faults>>
     ELSE LET rs == [rounds EXCEPT ![r] = { Expired(p) : p \in @ }]
          IN /\ EndMatches(UNION { Ends(p, Expired(p)) : p \in rounds[r] })
             /\ \/ Advance(rs, deadlines \ {r})
                \/ Unadvanced(rs, deadlines \ {r})
                \/ Unscheduled(rs, deadlines \ {r})

(* nudgeEventRounds, which whoever looks at the event's page sends: what throws
   in it rolls it back. *)
NudgeEventRounds ==
  /\ status = "playing" /\ people # {} /\ Complete(Last)
  /\ UNCHANGED <<table, matches>>
  /\ Advance(rounds, deadlines)

TableStep ==
  \/ Join \/ StartDraft \/ StartSealed \/ Cancel
  \/ \E s \in Seats : \/ Leave(s) \/ SubmitPick(s) \/ SubmitDeck(s) \/ RemoveDeck(s)
                      \/ DropBeforePlay(s) \/ DropInPlay(s)
MatchStep ==
  \/ \E s \in Seats : StartPairingMatch(s)
  \/ \E i \in DOMAIN matches :
       \/ JoinGame(i) \/ ChooseFirstPlayer(i) \/ NextGame(i) \/ DrawGame(i) \/ LeaveGame(i)
       \/ \E s \in Seats : WinGame(i, s) \/ ForfeitMatch(i, s)
Scheduled ==
  \/ \E t \in draft.timers : AutoPickSeatTimeout(t)
  \/ \E r \in deadlines : ExpireRoundDeadline(r)
Next == TableStep \/ MatchStep \/ Scheduled \/ NudgeEventRounds
Spec == Init /\ [][Next]_vars

(***************************************************************************)
(* The scheduler runs what it was given, whatever comes first, and once;   *)
(* the page of an event that is stuck nudges it (useRoundCascadeRecovery). *)
(* Nobody need ever pick or play.  The first conjunct of Fairness is the   *)
(* weak fairness of Scheduled, which is enabled when something is awaited. *)
(***************************************************************************)
Awaited == draft.timers # {} \/ deadlines # {}
Fairness ==
  /\ []<>~Awaited \/ []<><<Scheduled>>_vars
  /\ WF_vars(NudgeEventRounds)
FairSpec == Spec /\ Fairness

(***************************************************************************)
(* Properties.                                                             *)
(***************************************************************************)

(* Whatever completes the table opens the rounds in the same transaction: an
   event never waits, with every pool final and every seat ready, for a call
   that nobody is left to make (openPlayPhaseIfReady's six callers). *)
NobodyLeftWaiting == status = "started" => ~Ready(draft, decks, AutoDriven)

(* No card is lost or dealt twice while packs are passed, queued and picked for
   the seats the server drives; draftPacksRemaining counts the packs on the
   table (reaching zero early or late, a round would be dealt over or never);
   and when the draft ends every seat has picked as many cards. *)
PacksCounted ==
  LET sum(f) == MapThenSumSet(LAMBDA x : f[x], DOMAIN f)
      cards == [s \in Seats |-> draft.pool[s] + sum(draft.hand[s])]
  IN IF draft.done THEN \A s \in Seats : draft.pool[s] = FullPool
     ELSE /\ draft.left = Cardinality(OnTable(draft))
          /\ sum(cards) = draft.round * Cardinality(Seats) * PackSize

(* While the draft is timed, whoever holds a pack has a timeout of that very
   pack to come, and no pack is left with a seat the server drives: nobody who
   walked away can hold the table up (assignFreshPack is called wherever a pack
   becomes current). *)
PackTimed ==
  status = "started" /\ ~draft.done =>
    \A s \in Seats : draft.hand[s] # <<>> =>
      /\ s \notin AutoDriven
      /\ draft.timed => [seat |-> s, seq |-> draft.seq[s]] \in draft.timers

(* A pairing that is open and bound to a match waits for one that is under way
   between its two seats, and a match that is under way is the one its open
   pairing waits for, unless it was joined when it was over already: nobody is
   kept from their next match by one that no longer counts
   (limitedEvents.ts:2952-2960), and no pairing waits for a match that is over. *)
BoundToItsMatch ==
  /\ \A r \in DOMAIN rounds : \A p \in rounds[r] : p.result = "open" /\ p.match # 0 =>
       LET m == matches[p.match]
       IN m.status \in Active /\ ~m.late /\ m.round = r /\ {m.a, m.b} = {p.a, p.b}
  /\ \A i \in DOMAIN matches : matches[i].status \in Active /\ ~matches[i].late =>
       \E p \in rounds[matches[i].round] : p.match = i /\ p.result = "open"

(* The standings and the match agree on who won, whichever of the seats started
   the match and whoever decided it: the players, a forfeit, a drop or the
   deadline. *)
WinnerAgrees ==
  \A r \in DOMAIN rounds : \A p \in rounds[r] : p.result # "open" /\ p.match # 0 =>
    LET m == matches[p.match]
    IN m.status = "finished" /\ ~m.late /\ m.winner # Nobody => Winner(p) = m.winner

(* The rounds are the ones the players were promised (EventLedger). *)
Ledger == INSTANCE EventLedger WITH Players <- Seats,
  ledger <- [r \in DOMAIN rounds |->
    { [a |-> p.a, b |-> p.b, result |-> p.result] : p \in rounds[r] }]
KeepsLedger == Ledger!Spec

(* A timed draft ends though nobody picks. *)
DraftEnds ==
  (status = "started" /\ draft.timed) ~> (draft.done \/ status = "finished")

(* With a deadline the event ends though nobody plays, and though a cascade
   failed, unless the scheduling of a deadline failed. *)
RoundsEnd ==
  status = "playing" ~> (status = "finished" \/ undated # {})

=============================================================================
