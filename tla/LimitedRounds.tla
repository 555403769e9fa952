--------------------------- MODULE LimitedRounds ----------------------------
(***************************************************************************)
(* The rounds of a limited event (convex/limited/rounds.ts, swiss.ts,      *)
(* pairingMatch.ts) as functions of the rounds opened so far: a sequence   *)
(* of sets of pairings.  A pairing names its seats in their order at the   *)
(* table (the code draws the order; every handler treats both sides        *)
(* alike), its result and the match it is bound to, 0 for none.  A result  *)
(* is what classifyPairingResult makes of the games won and the source.    *)
(***************************************************************************)
EXTENDS LimitedTable, Sequences, FiniteSets, FiniteSetsExt

CONSTANT MaxMatches  \* bound: the matches people start

Nobody == 0
Results == {"open", "a", "b", "draw", "loss"}  \* "loss": for both
Pairing == [a : Seats, b : Seats \cup {Nobody}, result : Results,
            match : 0..MaxMatches]

Sits(s, p) == s = p.a \/ s = p.b
Winner(p) == IF p.result = "a" THEN p.a ELSE IF p.result = "b" THEN p.b ELSE Nobody
Other(s, p) == IF s = p.a THEN p.b ELSE p.a
PairingOf(round, s) == CHOOSE p \in round : Sits(s, p)
WonBy(p, s) == [p EXCEPT !.result = IF s = p.a THEN "a" ELSE "b"]

(* isRoundComplete *)
Complete(round) == \A p \in round : p.result # "open"

(* roundsForSeatCount *)
TotalRounds ==
  LET n == Cardinality(Seats) IN IF n <= 2 THEN 1 ELSE IF n <= 4 THEN 2 ELSE 3
Over(rs) == Len(rs) >= TotalRounds /\ Complete(rs[Len(rs)])

(* computeScores, in half wins; collectHistory *)
Score(rs, s) ==
  2 * Cardinality({ i \in DOMAIN rs : \E p \in rs[i] : Winner(p) = s })
  + Cardinality({ i \in DOMAIN rs : \E p \in rs[i] : Sits(s, p) /\ p.result = "draw" })
Met(rs, s, t) ==
  s # t /\ \E i \in DOMAIN rs : \E p \in rs[i] : Sits(s, p) /\ Sits(t, p)
HadBye(rs, s) == \E i \in DOMAIN rs : \E p \in rs[i] : p.a = s /\ p.b = Nobody

(* pickByeSeat: the lowest scores, of those that had none if there are such. *)
ByeSeats(rs) ==
  LET fresh == { s \in Seats : ~HadBye(rs, s) }
      pool == IF fresh # {} THEN fresh ELSE Seats
  IN IF Cardinality(Seats) % 2 = 0 THEN {Nobody}
     ELSE { s \in pool : \A t \in pool : Score(rs, s) <= Score(rs, t) }

(***************************************************************************)
(* backtrackMatch: the ways to pair a pool off without a rematch, those of *)
(* the least difference in scores.  A couple is <<lower seat, higher>>.    *)
(***************************************************************************)
Matchings(rs, pool) ==
  LET couples == { c \in pool \X pool : c[1] < c[2] /\ ~Met(rs, c[1], c[2]) }
  IN { m \in SUBSET couples :
         /\ \A s \in pool : \E c \in m : s \in {c[1], c[2]}
         /\ \A c, d \in m : {c[1], c[2]} \cap {d[1], d[2]} # {} => c = d }
Displacement(rs, m) ==
  LET gap(c) == LET x == Score(rs, c[1]) - Score(rs, c[2])
                IN IF x < 0 THEN -x ELSE x
  IN MapThenSumSet(gap, m)
Closest(rs, pool) ==
  LET all == Matchings(rs, pool)
  IN { m \in all : \A k \in all : Displacement(rs, m) <= Displacement(rs, k) }

(***************************************************************************)
(* openRound: a bye is a win, a seat that dropped concedes, bots are       *)
(* played out on the spot, and what a person is to play stays open.        *)
(***************************************************************************)
Concession(p, dropped) ==
  IF p.a \in dropped /\ p.b \in dropped THEN "draw"
  ELSE IF p.a \in dropped THEN "b" ELSE "a"
Conceded(p, dropped) ==
  IF p.result = "open" /\ {p.a, p.b} \cap dropped # {}
  THEN [p EXCEPT !.result = Concession(p, dropped)] ELSE p
Fresh(c, dropped, bots) ==
  LET p == [a |-> c[1], b |-> c[2], result |-> "open", match |-> 0]
  IN IF {p.a, p.b} \cap dropped = {} /\ {p.a, p.b} \subseteq bots
     THEN { WonBy(p, s) : s \in {p.a, p.b} }  \* simulateBotMatch
     ELSE { Conceded(p, dropped) }
Bye(s) == [a |-> s, b |-> Nobody, result |-> "a", match |-> 0]
Paired(m, bye, dropped, bots) ==
  { IF bye = Nobody THEN { f[c] : c \in m } ELSE { f[c] : c \in m } \cup {Bye(bye)} :
      f \in { g \in [m -> UNION { Fresh(c, dropped, bots) : c \in m }] :
                \A c \in m : g[c] \in Fresh(c, dropped, bots) } }
Openings(rs, dropped, bots) ==
  UNION { UNION { Paired(m, bye, dropped, bots) : m \in Closest(rs, Seats \ {bye}) } :
          bye \in ByeSeats(rs) }

(***************************************************************************)
(* advanceRoundIfComplete: while the last round is decided and there are   *)
(* more to play, the next one opens.  There are at most three.             *)
(***************************************************************************)
Grown(rs, dropped, bots) ==
  IF rs = <<>> \/ (Len(rs) < TotalRounds /\ Complete(rs[Len(rs)]))
  THEN { Append(rs, round) : round \in Openings(rs, dropped, bots) } ELSE {rs}
Cascaded(rs, dropped, bots) ==
  UNION { Grown(q, dropped, bots) : q \in
          UNION { Grown(r, dropped, bots) : r \in Grown(rs, dropped, bots) } }

(* One pairing of one round is rewritten: mapPairing. *)
Rewritten(rs, r, p, q) == [rs EXCEPT ![r] = (@ \ {p}) \cup {q}]

(* concedeDroppedPairings *)
AllConceded(rs, dropped) ==
  [i \in DOMAIN rs |-> { Conceded(p, dropped) : p \in rs[i] }]
=============================================================================
