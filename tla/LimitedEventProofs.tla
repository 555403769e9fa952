-------------------------- MODULE LimitedEventProofs --------------------------
(***************************************************************************)
(* The rounds of a limited event are the ones its players were promised,   *)
(* its pairings and matches hold on to each other, and nobody at the table *)
(* is waited for in vain or loses a card, whatever its people do and       *)
(* whenever its timeouts and deadlines fire.                               *)
(***************************************************************************)
EXTENDS LimitedEvent, LimitedDraftProofs

(***************************************************************************)
(* What every way of opening rounds and of deciding pairings keeps.        *)
(***************************************************************************)

(* Everyone is seated, and seated once. *)
Seated(round) ==
  /\ \A s \in Seats : \E p \in round : Sits(s, p)
  /\ \A p, q \in round : \A s \in Seats : Sits(s, p) /\ Sits(s, q) => p = q
(* A round opens when the earlier ones are decided, and repeats no meeting. *)
InTurn(rs) == \A i \in DOMAIN rs : i < Len(rs) => Complete(rs[i])
NoRematch(rs) ==
  \A i, j \in DOMAIN rs : \A p \in rs[i], q \in rs[j] :
    p.b # Nobody /\ {p.a, p.b} = {q.a, q.b} => i = j
Good(rs) ==
  /\ rs \in Seq(SUBSET Pairing)
  /\ InTurn(rs) /\ NoRematch(rs)
  /\ \A i \in DOMAIN rs : Seated(rs[i])

(* A pairing keeps its seats and a result that it has. *)
Kept(p, q) ==
  q.a = p.a /\ q.b = p.b /\ (p.result # "open" => q.result = p.result)
Continues(rs, new) ==
  /\ Len(rs) <= Len(new)
  /\ \A i \in DOMAIN rs : i \in DOMAIN new /\ \A p \in rs[i] : \E q \in new[i] : Kept(p, q)

(* Rounds are added, whose pairings no match was started for. *)
Opens(rs, new) ==
  /\ Len(rs) <= Len(new)
  /\ \A i \in DOMAIN rs : i \in DOMAIN new /\ new[i] = rs[i]
  /\ \A i \in DOMAIN new : i \notin DOMAIN rs => \A p \in new[i] : p.match = 0

(***************************************************************************)
(* Opening rounds.                                                         *)
(***************************************************************************)

LEMMA NobodySits == Nobody \notin Seats
BY SeatAssumption DEF Nobody

(* A fresh pairing seats its couple. *)
LEMMA FreshPairs ==
  ASSUME NEW c \in Seats \X Seats, NEW left, NEW bots,
         NEW p \in Fresh(c, left, bots), MaxMatches \in Nat
  PROVE  p \in Pairing /\ p.a = c[1] /\ p.b = c[2] /\ p.match = 0
<1> DEFINE o == [a |-> c[1], b |-> c[2], result |-> "open", match |-> 0]
<1>1. o \in Pairing /\ o.a = c[1] /\ o.b = c[2] /\ o.match = 0
  BY DEF Pairing, Results
<1>2. \A s : /\ WonBy(o, s) \in Pairing /\ WonBy(o, s).match = 0
            /\ WonBy(o, s).a = c[1] /\ WonBy(o, s).b = c[2]
  BY <1>1 DEF Pairing, Results, WonBy
<1>3. /\ Conceded(o, left) \in Pairing /\ Conceded(o, left).match = 0
      /\ Conceded(o, left).a = c[1] /\ Conceded(o, left).b = c[2]
  BY <1>1 DEF Pairing, Results, Conceded, Concession
<1>4. p \in { WonBy(o, s) : s \in {o.a, o.b} } \/ p \in { Conceded(o, left) }
  BY Zenon DEF Fresh
<1> QED BY <1>2, <1>3, <1>4

LEMMA Byes ==
  ASSUME NEW rs, NEW bye \in ByeSeats(rs)
  PROVE  bye = Nobody \/ bye \in Seats
BY DEF ByeSeats

(* A round that opens seats everyone once, with nobody they have met. *)
LEMMA OpeningsSeat ==
  ASSUME NEW rs, NEW left, NEW bots, NEW round \in Openings(rs, left, bots),
         MaxMatches \in Nat
  PROVE  /\ round \subseteq Pairing
         /\ Seated(round)
         /\ \A p \in round : p.match = 0
         /\ \A p \in round : p.b # Nobody => ~Met(rs, p.a, p.b) /\ p.a # p.b
<1>1. PICK bye \in ByeSeats(rs) :
        round \in UNION { Paired(m, bye, left, bots) : m \in Closest(rs, Seats \ {bye}) }
  BY DEF Openings
<1> DEFINE pool == Seats \ {bye}
<1>2. PICK m \in Closest(rs, pool) : round \in Paired(m, bye, left, bots)
  BY <1>1
<1>3. PICK f : /\ \A c \in m : f[c] \in Fresh(c, left, bots)
               /\ round = IF bye = Nobody THEN { f[c] : c \in m }
                          ELSE { f[c] : c \in m } \cup {Bye(bye)}
  BY <1>2 DEF Paired
<1>4. m \in Matchings(rs, pool)
  BY <1>2 DEF Closest
<1>5. /\ \A c \in m : c \in pool \X pool /\ c[1] < c[2] /\ ~Met(rs, c[1], c[2])
      /\ \A s \in pool : \E c \in m : s \in {c[1], c[2]}
      /\ \A c, d \in m : {c[1], c[2]} \cap {d[1], d[2]} # {} => c = d
  BY <1>4 DEF Matchings
<1> HIDE DEF pool
<1>6. \A c \in m : /\ c \in Seats \X Seats /\ c[1] # c[2]
                   /\ c[1] # bye /\ c[2] # bye
  <2> TAKE c \in m
  <2>1. c \in pool \X pool /\ c[1] < c[2]
    BY <1>5
  <2> QED BY <2>1, SeatAssumption DEF pool
<1>7. \A c \in m : /\ f[c] \in Pairing /\ f[c].match = 0
                   /\ f[c].a = c[1] /\ f[c].b = c[2]
  BY <1>3, <1>6, FreshPairs
<1>8. bye # Nobody => /\ bye \in Seats
                      /\ Bye(bye) \in Pairing /\ Bye(bye).match = 0
                      /\ Bye(bye).a = bye /\ Bye(bye).b = Nobody
  BY Byes DEF Bye, Pairing, Results
<1>9. round \subseteq Pairing /\ \A p \in round : p.match = 0
  BY <1>3, <1>7, <1>8
<1>10. \A p \in round : \/ \E c \in m : p = f[c] /\ p.a = c[1] /\ p.b = c[2]
                        \/ bye # Nobody /\ p = Bye(bye) /\ p.a = bye /\ p.b = Nobody
  BY <1>3, <1>7, <1>8
<1>11. \A s \in Seats : \E p \in round : Sits(s, p)
  <2> SUFFICES ASSUME NEW s \in Seats PROVE \E p \in round : Sits(s, p)
    OBVIOUS
  <2>1. CASE s = bye
    BY <2>1, <1>3, <1>8, NobodySits DEF Sits
  <2>2. CASE s # bye
    <3>1. PICK c \in m : s \in {c[1], c[2]}
      BY <2>2, <1>5 DEF pool
    <3>2. f[c] \in round /\ Sits(s, f[c])
      BY <3>1, <1>3, <1>7 DEF Sits
    <3> QED BY <3>2
  <2> QED BY <2>1, <2>2
<1>12. \A p, q \in round : \A s \in Seats : Sits(s, p) /\ Sits(s, q) => p = q
  <2> SUFFICES ASSUME NEW p \in round, NEW q \in round, NEW s \in Seats,
                      Sits(s, p), Sits(s, q)
               PROVE  p = q
    OBVIOUS
  <2>1. ASSUME NEW c \in m, NEW d \in m, p = f[c], q = f[d]  PROVE p = q
    <3>1. s \in {c[1], c[2]} /\ s \in {d[1], d[2]}
      BY <2>1, <1>7 DEF Sits
    <3>2. c = d
      BY <3>1, <1>5
    <3> QED BY <3>2, <2>1
  <2>2. ASSUME NEW c \in m, p = f[c], q = Bye(bye), bye # Nobody  PROVE FALSE
    BY <2>2, <1>6, <1>7, <1>8, NobodySits DEF Sits
  <2>3. ASSUME NEW c \in m, q = f[c], p = Bye(bye), bye # Nobody  PROVE FALSE
    BY <2>3, <1>6, <1>7, <1>8, NobodySits DEF Sits
  <2> QED BY <1>10, <2>1, <2>2, <2>3
<1>13. \A p \in round : p.b # Nobody => ~Met(rs, p.a, p.b) /\ p.a # p.b
  BY <1>10, <1>5, <1>6
<1> QED BY <1>9, <1>11, <1>12, <1>13 DEF Seated

(* The rounds so far, and one more that seats everyone anew. *)
LEMMA GrownGood ==
  ASSUME NEW rs, NEW left, NEW bots, NEW q \in Grown(rs, left, bots),
         Good(rs), MaxMatches \in Nat
  PROVE  Good(q) /\ Opens(rs, q) /\ q # <<>>
<1>1. CASE rs # <<>> /\ q = rs
  BY <1>1 DEF Good, Opens
<1>2. ASSUME NEW round \in Openings(rs, left, bots), q = Append(rs, round),
             rs = <<>> \/ Complete(rs[Len(rs)])
      PROVE  Good(q) /\ Opens(rs, q) /\ q # <<>>
  <2>1. /\ round \subseteq Pairing
        /\ Seated(round)
        /\ \A p \in round : p.match = 0
        /\ \A p \in round : p.b # Nobody => ~Met(rs, p.a, p.b) /\ p.a # p.b
    BY <1>2, OpeningsSeat
  <2>2. rs \in Seq(SUBSET Pairing) /\ InTurn(rs) /\ NoRematch(rs)
        /\ \A i \in DOMAIN rs : Seated(rs[i])
    BY DEF Good
  <2> HIDE DEF Good
  <2>3. /\ q \in Seq(SUBSET Pairing) /\ Len(q) = Len(rs) + 1
        /\ DOMAIN q = 1..Len(q) /\ DOMAIN rs = 1..Len(rs) /\ Len(rs) \in Nat
        /\ \A i \in DOMAIN rs : q[i] = rs[i]
        /\ q[Len(q)] = round /\ q # <<>>
    BY <1>2, <2>1, <2>2
  <2>4. InTurn(q)
    <3> SUFFICES ASSUME NEW i \in DOMAIN q, i < Len(q) PROVE Complete(q[i])
      BY DEF InTurn
    <3>1. i \in DOMAIN rs /\ q[i] = rs[i]
      BY <2>3
    <3>2. CASE i < Len(rs)
      BY <3>1, <3>2, <2>2 DEF InTurn
    <3>3. CASE i = Len(rs)
      <4>1. rs # <<>>
        BY <3>1
      <4> QED BY <4>1, <3>1, <3>3, <1>2
    <3> QED BY <3>1, <3>2, <3>3, <2>3
  <2>5. NoRematch(q)
    <3> SUFFICES ASSUME NEW i \in DOMAIN q, NEW j \in DOMAIN q,
                        NEW x \in q[i], NEW y \in q[j],
                        x.b # Nobody, {x.a, x.b} = {y.a, y.b}
                 PROVE  i = j
      BY DEF NoRematch
    <3>1. \A k \in DOMAIN q : k \in DOMAIN rs \/ k = Len(q)
      BY <2>3
    <3>2. x \in Pairing /\ y \in Pairing
      BY <2>3
    <3>3. x.a \in Seats /\ y.a \in Seats /\ y.b # Nobody /\ x.b \in Seats /\ y.b \in Seats
      BY <3>2, NobodySits DEF Pairing
    <3>4. CASE i \in DOMAIN rs /\ j \in DOMAIN rs
      BY <3>4, <2>2, <2>3 DEF NoRematch
    <3>5. CASE i \in DOMAIN rs /\ j = Len(q)
      <4>1. y \in round /\ ~Met(rs, y.a, y.b) /\ y.a # y.b
        BY <3>5, <3>3, <2>1, <2>3
      <4>2. x \in rs[i] /\ Sits(y.a, x) /\ Sits(y.b, x)
        BY <3>5, <2>3 DEF Sits
      <4> QED BY <4>1, <4>2, <3>5 DEF Met
    <3>6. CASE j \in DOMAIN rs /\ i = Len(q)
      <4>1. x \in round /\ ~Met(rs, x.a, x.b) /\ x.a # x.b
        BY <3>6, <3>3, <2>1, <2>3
      <4>2. y \in rs[j] /\ Sits(x.a, y) /\ Sits(x.b, y)
        BY <3>6, <2>3 DEF Sits
      <4> QED BY <4>1, <4>2, <3>6 DEF Met
    <3> QED BY <3>1, <3>4, <3>5, <3>6
  <2>6. \A i \in DOMAIN q : Seated(q[i])
    BY <2>1, <2>2, <2>3
  <2>7. Opens(rs, q)
    BY <2>1, <2>3 DEF Opens
  <2> QED BY <2>3, <2>4, <2>5, <2>6, <2>7 DEF Good
<1> QED BY <1>1, <1>2 DEF Grown

LEMMA OpensContinues ==
  ASSUME NEW rs, NEW new, Opens(rs, new)
  PROVE  Continues(rs, new)
BY DEF Opens, Continues, Kept

LEMMA OpensOn ==
  ASSUME NEW rs, NEW new, NEW newer, Opens(rs, new), Opens(new, newer),
         Good(rs), Good(new), Good(newer)
  PROVE  Opens(rs, newer)
<1>1. Len(rs) \in Nat /\ Len(new) \in Nat /\ Len(newer) \in Nat
  BY DEF Good
<1> QED BY <1>1 DEF Opens

LEMMA ContinuesOn ==
  ASSUME NEW rs, NEW new, NEW newer, Continues(rs, new), Continues(new, newer),
         Good(rs), Good(new), Good(newer)
  PROVE  Continues(rs, newer)
<1>1. Len(rs) \in Nat /\ Len(new) \in Nat /\ Len(newer) \in Nat
  BY DEF Good
<1>2. Len(rs) <= Len(newer)
  BY <1>1 DEF Continues
<1>3. ASSUME NEW i \in DOMAIN rs, NEW p \in rs[i]
      PROVE  i \in DOMAIN newer /\ \E q \in newer[i] : Kept(p, q)
  <2>1. i \in DOMAIN new
    BY DEF Continues
  <2>2. PICK x \in new[i] : Kept(p, x)
    BY DEF Continues
  <2>3. PICK q \in newer[i] : Kept(x, q)
    BY <2>1 DEF Continues
  <2>4. Kept(p, q)
    BY <2>2, <2>3 DEF Kept
  <2> QED BY <2>1, <2>4 DEF Continues
<1>4. \A i \in DOMAIN rs : i \in DOMAIN newer
  BY DEF Continues
<1> QED BY <1>2, <1>3, <1>4 DEF Continues

(* However far the rounds advance in one call. *)
LEMMA CascadedGood ==
  ASSUME NEW rs, NEW left, NEW bots, NEW q \in Cascaded(rs, left, bots),
         Good(rs), MaxMatches \in Nat
  PROVE  Good(q) /\ Opens(rs, q) /\ q # <<>>
<1>1. PICK x \in Grown(rs, left, bots) :
        \E y \in Grown(x, left, bots) : q \in Grown(y, left, bots)
  BY DEF Cascaded
<1>2. PICK y \in Grown(x, left, bots) : q \in Grown(y, left, bots)
  BY <1>1
<1>3. Good(x) /\ Opens(rs, x)
  BY GrownGood
<1>4. Good(y) /\ Opens(x, y)
  BY <1>3, GrownGood
<1>5. Good(q) /\ Opens(y, q) /\ q # <<>>
  BY <1>2, <1>4, GrownGood
<1>6. Opens(rs, y)
  BY <1>3, <1>4, OpensOn
<1> QED BY <1>4, <1>5, <1>6, OpensOn

(***************************************************************************)
(* Deciding pairings: every pairing of rs has its successor f[i][p].       *)
(***************************************************************************)
Follows(rs, new, f) ==
  /\ new \in Seq(SUBSET Pairing) /\ Len(new) = Len(rs)
  /\ \A i \in DOMAIN rs : new[i] = { f[i][p] : p \in rs[i] }
  /\ \A i \in DOMAIN rs : \A p \in rs[i] : Kept(p, f[i][p])

LEMMA FollowsGood ==
  ASSUME NEW rs, NEW new, NEW f, Follows(rs, new, f), Good(rs)
  PROVE  Good(new) /\ Continues(rs, new)
<1>1. rs \in Seq(SUBSET Pairing) /\ InTurn(rs) /\ NoRematch(rs)
      /\ \A i \in DOMAIN rs : Seated(rs[i])
  BY DEF Good
<1>2. /\ new \in Seq(SUBSET Pairing) /\ Len(new) = Len(rs) /\ Len(rs) \in Nat
      /\ DOMAIN new = DOMAIN rs
  BY <1>1 DEF Follows
<1>3. \A i \in DOMAIN rs : \A q \in new[i] : \E p \in rs[i] : q = f[i][p] /\ Kept(p, q)
  BY DEF Follows
<1>4. \A i \in DOMAIN rs : \A p \in rs[i] : f[i][p] \in new[i] /\ Kept(p, f[i][p])
  BY DEF Follows
<1>5. InTurn(new)
  <2> SUFFICES ASSUME NEW i \in DOMAIN rs, i < Len(rs), NEW q \in new[i]
               PROVE  q.result # "open"
    BY <1>2 DEF InTurn, Complete
  <2>1. PICK p \in rs[i] : Kept(p, q)
    BY <1>3
  <2>2. p.result # "open"
    BY <1>1 DEF InTurn, Complete
  <2> QED BY <2>1, <2>2 DEF Kept
<1>6. NoRematch(new)
  <2> SUFFICES ASSUME NEW i \in DOMAIN rs, NEW j \in DOMAIN rs,
                      NEW x \in new[i], NEW y \in new[j],
                      x.b # Nobody, {x.a, x.b} = {y.a, y.b}
               PROVE  i = j
    BY <1>2 DEF NoRematch
  <2>1. PICK p \in rs[i] : Kept(p, x)
    BY <1>3
  <2>2. PICK q \in rs[j] : Kept(q, y)
    BY <1>3
  <2>3. p.b # Nobody /\ {p.a, p.b} = {q.a, q.b}
    BY <2>1, <2>2 DEF Kept
  <2> QED BY <2>3, <1>1 DEF NoRematch
<1>7. ASSUME NEW i \in DOMAIN rs PROVE Seated(new[i])
  <2>1. \A s \in Seats : \E q \in new[i] : Sits(s, q)
    <3> TAKE s \in Seats
    <3>1. PICK p \in rs[i] : Sits(s, p)
      BY <1>1 DEF Seated
    <3>2. f[i][p] \in new[i] /\ Sits(s, f[i][p])
      BY <3>1, <1>4 DEF Kept, Sits
    <3> QED BY <3>2
  <2>2. ASSUME NEW x \in new[i], NEW y \in new[i], NEW s \in Seats,
               Sits(s, x), Sits(s, y)
        PROVE  x = y
    <3>1. PICK p \in rs[i] : x = f[i][p] /\ Kept(p, x)
      BY <1>3
    <3>2. PICK q \in rs[i] : y = f[i][q] /\ Kept(q, y)
      BY <1>3
    <3>3. Sits(s, p) /\ Sits(s, q)
      BY <3>1, <3>2, <2>2 DEF Kept, Sits
    <3>4. p = q
      BY <3>3, <1>1 DEF Seated
    <3> QED BY <3>1, <3>2, <3>4
  <2> QED BY <2>1, <2>2 DEF Seated
<1>8. Continues(rs, new)
  BY <1>2, <1>4 DEF Continues
<1> QED BY <1>1, <1>2, <1>5, <1>6, <1>7, <1>8 DEF Good

(* The pairings of one round are rewritten: seats stay, and the results there are. *)
OnRound(rs, r, g) ==
  [i \in DOMAIN rs |-> [x \in rs[i] |-> IF i = r THEN g[x] ELSE x]]

LEMMA RoundFollows ==
  ASSUME NEW rs, NEW r \in DOMAIN rs, NEW g, Good(rs),
         \A p \in rs[r] : g[p] \in Pairing /\ Kept(p, g[p])
  PROVE  Follows(rs, [rs EXCEPT ![r] = { g[p] : p \in rs[r] }], OnRound(rs, r, g))
<1> DEFINE new == [rs EXCEPT ![r] = { g[p] : p \in rs[r] }]
           f == OnRound(rs, r, g)
<1>1. rs \in Seq(SUBSET Pairing)
  BY DEF Good
<1>2. new \in Seq(SUBSET Pairing) /\ Len(new) = Len(rs)
  BY <1>1
<1>3. \A i \in DOMAIN rs : new[i] = { f[i][x] : x \in rs[i] }
  BY <1>1 DEF OnRound
<1>4. \A i \in DOMAIN rs : \A x \in rs[i] : Kept(x, f[i][x])
  BY DEF Kept, OnRound
<1> QED BY <1>2, <1>3, <1>4 DEF Follows

(* One pairing is rewritten. *)
Swap(rs, r, p, q) == OnRound(rs, r, [x \in rs[r] |-> IF x = p THEN q ELSE x])

LEMMA RewrittenFollows ==
  ASSUME NEW rs, NEW r \in DOMAIN rs, NEW p \in rs[r], NEW q \in Pairing, Kept(p, q),
         Good(rs)
  PROVE  Follows(rs, Rewritten(rs, r, p, q), Swap(rs, r, p, q))
<1> DEFINE g == [x \in rs[r] |-> IF x = p THEN q ELSE x]
<1>1. rs[r] \subseteq Pairing
  BY DEF Good
<1>2. \A x \in rs[r] : g[x] \in Pairing /\ Kept(x, g[x])
  BY <1>1 DEF Kept
<1>3. Rewritten(rs, r, p, q) = [rs EXCEPT ![r] = { g[x] : x \in rs[r] }]
  <2>1. (rs[r] \ {p}) \cup {q} = { g[x] : x \in rs[r] }
    OBVIOUS
  <2> QED BY <2>1 DEF Rewritten, Good
<1>4. Swap(rs, r, p, q) = OnRound(rs, r, g)
  BY DEF Swap
<1> HIDE DEF g
<1>5. Follows(rs, [rs EXCEPT ![r] = { g[x] : x \in rs[r] }], OnRound(rs, r, g))
  BY <1>2, RoundFollows
<1> QED BY <1>3, <1>4, <1>5

(* Every pairing of some rounds is rewritten by a function that decides it. *)
LEMMA ConcededKept ==
  ASSUME NEW p \in Pairing, NEW left
  PROVE  Conceded(p, left) \in Pairing /\ Kept(p, Conceded(p, left))
BY DEF Conceded, Concession, Pairing, Results, Kept

ConcededOn(rs, left) == [i \in DOMAIN rs |-> [p \in rs[i] |-> Conceded(p, left)]]

LEMMA AllConcededFollows ==
  ASSUME NEW rs, NEW left, Good(rs)
  PROVE  Follows(rs, AllConceded(rs, left), ConcededOn(rs, left))
<1> DEFINE new == AllConceded(rs, left)
           f == ConcededOn(rs, left)
<1>1. rs \in Seq(SUBSET Pairing)
  BY DEF Good
<1>2. \A i \in DOMAIN rs : \A p \in rs[i] : p \in Pairing
  BY <1>1
<1>3. \A i \in DOMAIN rs : new[i] = { f[i][p] : p \in rs[i] }
  BY DEF AllConceded, ConcededOn
<1>4. \A i \in DOMAIN rs : \A p \in rs[i] : f[i][p] \in Pairing /\ Kept(p, f[i][p])
  BY <1>2, ConcededKept DEF ConcededOn
<1> HIDE DEF f
<1>5. new \in Seq(SUBSET Pairing) /\ Len(new) = Len(rs)
  <2>1. \A i \in DOMAIN rs : new[i] \subseteq Pairing
    BY <1>3, <1>4
  <2>2. new = [i \in DOMAIN rs |-> new[i]]
    BY DEF AllConceded
  <2> HIDE DEF new
  <2> QED BY <1>1, <2>1, <2>2
<1>6. Follows(rs, new, f)
  BY <1>3, <1>4, <1>5 DEF Follows
<1> QED BY <1>6 DEF f

(***************************************************************************)
(* The event.                                                              *)
(***************************************************************************)

Live(m) == m.status \notin {"unborn", "gone"}

(* No match is bound to two pairings. *)
Single(rs) ==
  \A i, j \in DOMAIN rs : \A p \in rs[i], q \in rs[j] :
    p.match # 0 /\ p.match = q.match => i = j /\ p = q
(* What a pairing can rely on of its match, *)
Tied(rs, ms) ==
  \A r \in DOMAIN rs : \A p \in rs[r] : p.match # 0 =>
    /\ ms[p.match].status # "unborn"
    /\ p.result = "open" =>
         /\ ms[p.match].status \in Active /\ ~ms[p.match].late
         /\ ms[p.match].round = r
         /\ {ms[p.match].a, ms[p.match].b} = {p.a, p.b}
    /\ p.result # "open" /\ ms[p.match].status = "finished" /\ ~ms[p.match].late
       /\ ms[p.match].winner # Nobody => Winner(p) = ms[p.match].winner
(* and a match of its pairing. *)
Owned(rs, ms, i) ==
  /\ ms[i].round \in DOMAIN rs
  /\ \E p \in rs[ms[i].round] :
       /\ p.match = i /\ {p.a, p.b} = {ms[i].a, ms[i].b}
       /\ ms[i].status \in Active /\ ~ms[i].late => p.result = "open"
Owns(rs, ms) == \A i \in DOMAIN ms : Live(ms[i]) => Owned(rs, ms, i)
Bonds(rs, ms) == Single(rs) /\ Tied(rs, ms) /\ Owns(rs, ms)

Sane(m) ==
  /\ m.game \in {"waiting", "pregame"} => Live(m)
  /\ Live(m) => m.a \in Seats
  /\ m.late => m.joined
  /\ m.wins.a < GamesToWin /\ m.wins.b < GamesToWin
Matched ==
  /\ matches \in [1..MaxMatches -> Match]
  /\ \A i \in DOMAIN matches : Sane(matches[i])

Phase ==
  /\ status \in {"open", "started", "playing", "finished", "gone"}
  /\ status \in {"open", "started", "gone"} => rounds = <<>>
  /\ status = "playing" => rounds # <<>>

Dated == deadlines \subseteq DOMAIN rounds

IInv == Good(rounds) /\ Bonds(rounds, matches) /\ Matched /\ Phase /\ Dated

(* What every step is shown to do. *)
Proceeds == IInv' /\ Continues(rounds, rounds')

(***************************************************************************)
(* How bonds survive.                                                      *)
(***************************************************************************)

LEMMA LiveInRounds ==
  ASSUME IInv, NEW i \in DOMAIN matches, Live(matches[i])
  PROVE  rounds # <<>> /\ status \in {"playing", "finished"}
<1>1. matches[i].round \in DOMAIN rounds
  BY DEF IInv, Bonds, Owns, Owned
<1>2. rounds # <<>>
  BY <1>1
<1> QED BY <1>2 DEF IInv, Phase

LEMMA OpensBonds ==
  ASSUME NEW rs, NEW new, NEW ms, Opens(rs, new), Bonds(rs, ms)
  PROVE  Bonds(new, ms)
<1>1. Single(new)
  <2> SUFFICES ASSUME NEW i \in DOMAIN new, NEW j \in DOMAIN new,
                      NEW p \in new[i], NEW q \in new[j],
                      p.match # 0, p.match = q.match
               PROVE  i = j /\ p = q
    BY DEF Single
  <2>1. i \in DOMAIN rs /\ j \in DOMAIN rs /\ new[i] = rs[i] /\ new[j] = rs[j]
    BY DEF Opens
  <2> QED BY <2>1 DEF Bonds, Single
<1>2. Tied(new, ms)
  <2> SUFFICES ASSUME NEW r \in DOMAIN new, NEW p \in new[r], p.match # 0
               PROVE  r \in DOMAIN rs /\ p \in rs[r]
    BY DEF Tied, Bonds
  <2> QED BY DEF Opens
<1>3. Owns(new, ms)
  BY DEF Opens, Bonds, Owns, Owned
<1> QED BY <1>1, <1>2, <1>3 DEF Bonds

(* A match goes on, or it is entered again when it is over and counts no more. *)
Stays(m, x) ==
  /\ x.round = m.round /\ x.a = m.a /\ x.b = m.b
  /\ \/ m.status \in Active /\ x.status \in Active /\ x.late = m.late
     \/ /\ m.status = "finished" /\ x.status = "finished"
        /\ x.late = m.late /\ x.winner = m.winner
     \/ m.status = "finished" /\ x.late /\ x.status \in Active
     \/ m.late /\ x.late /\ Live(m) /\ Live(x)

(* A pairing is bound to a match there is. *)
LEMMA MatchThere ==
  ASSUME NEW rs, Good(rs), NEW r \in DOMAIN rs, NEW p \in rs[r], p.match # 0
  PROVE  p.match \in 1..MaxMatches
<1>1. p \in Pairing
  BY DEF Good
<1> QED BY <1>1, BoundAssumption DEF Pairing

LEMMA StaysBonds ==
  ASSUME NEW rs, NEW ms, Good(rs), Bonds(rs, ms), DOMAIN ms = 1..MaxMatches,
         NEW i \in DOMAIN ms, NEW x, Stays(ms[i], x)
  PROVE  Bonds(rs, [ms EXCEPT ![i] = x])
<1> DEFINE new == [ms EXCEPT ![i] = x]
<1>1. new[i] = x /\ DOMAIN new = DOMAIN ms /\ \A j \in DOMAIN ms : j # i => new[j] = ms[j]
  OBVIOUS
<1>2. Single(rs) /\ Tied(rs, ms) /\ Owns(rs, ms)
  BY DEF Bonds
<1> HIDE DEF new
<1>3. Tied(rs, new)
  <2> SUFFICES ASSUME NEW r \in DOMAIN rs, NEW p \in rs[r], p.match # 0
               PROVE  /\ new[p.match].status # "unborn"
                      /\ p.result = "open" =>
                           /\ new[p.match].status \in Active /\ ~new[p.match].late
                           /\ new[p.match].round = r
                           /\ {new[p.match].a, new[p.match].b} = {p.a, p.b}
                      /\ p.result # "open" /\ new[p.match].status = "finished"
                         /\ ~new[p.match].late /\ new[p.match].winner # Nobody =>
                           Winner(p) = new[p.match].winner
    BY DEF Tied
  <2>1. p.match \in DOMAIN ms
    BY MatchThere
  <2>2. CASE p.match # i
    BY <2>1, <2>2, <1>1, <1>2 DEF Tied
  <2>3. CASE p.match = i
    BY <2>3, <1>1, <1>2 DEF Tied, Stays, Active, Live
  <2> QED BY <2>2, <2>3
<1>4. Owns(rs, new)
  <2> SUFFICES ASSUME NEW j \in DOMAIN ms, Live(new[j]) PROVE Owned(rs, new, j)
    BY <1>1 DEF Owns
  <2>1. CASE j # i
    <3>1. new[j] = ms[j]
      BY <2>1, <1>1
    <3>2. Live(ms[j])
      BY <3>1
    <3>3. Owned(rs, ms, j)
      BY <3>2, <1>2 DEF Owns
    <3> QED BY <3>1, <3>3 DEF Owned
  <2>2. CASE j = i
    <3>1. Live(ms[i])
      BY DEF Stays, Live, Active
    <3>2. PICK p \in rs[ms[i].round] :
            /\ p.match = i /\ {p.a, p.b} = {ms[i].a, ms[i].b}
            /\ ms[i].status \in Active /\ ~ms[i].late => p.result = "open"
      BY <3>1, <1>2 DEF Owns, Owned
    <3>3. x.status \in Active /\ ~x.late => p.result = "open"
      BY <3>2 DEF Stays, Active
    <3>4. ms[i].round \in DOMAIN rs
      BY <3>1, <1>2 DEF Owns, Owned
    <3> QED BY <2>2, <3>2, <3>3, <3>4, <1>1 DEF Owned, Stays
  <2> QED BY <2>1, <2>2
<1> QED BY <1>2, <1>3, <1>4 DEF Bonds, new

(***************************************************************************)
(* Deciding pairings: f gives every pairing its successor, the matches of  *)
(* the ones that were open and are decided end with the pairing's winner   *)
(* or with none, and the others stay.                                      *)
(***************************************************************************)
Decides(rs, f) ==
  \A r \in DOMAIN rs : \A p \in rs[r] :
    /\ f[r][p].match = p.match
    /\ p.result # "open" => f[r][p] = p
EndsWith(m, x, winner) ==
  /\ x.status = "finished" /\ x.winner \in {winner, Nobody}
  /\ x.round = m.round /\ x.a = m.a /\ x.b = m.b /\ x.late = m.late

Settles(rs, f, ms, ns) ==
  /\ \A r \in DOMAIN rs : \A p \in rs[r] :
       p.match # 0 /\ p.result = "open" /\ f[r][p].result # "open" =>
         EndsWith(ms[p.match], ns[p.match], Winner(f[r][p]))
  /\ \A i \in DOMAIN ms : \/ ns[i] = ms[i]
                          \/ \E r \in DOMAIN rs : \E p \in rs[r] :
                               p.match = i /\ p.result = "open" /\ f[r][p].result # "open"

LEMMA DecidesBonds ==
  ASSUME NEW rs, NEW new, NEW f, NEW ms, NEW ns,
         Good(rs), Bonds(rs, ms), Follows(rs, new, f), Decides(rs, f),
         DOMAIN ms = 1..MaxMatches, DOMAIN ns = DOMAIN ms,
         Settles(rs, f, ms, ns)
  PROVE  Bonds(new, ns)
<1>0. /\ \A r \in DOMAIN rs : \A p \in rs[r] :
           p.match # 0 /\ p.result = "open" /\ f[r][p].result # "open" =>
             EndsWith(ms[p.match], ns[p.match], Winner(f[r][p]))
      /\ \A i \in DOMAIN ms : \/ ns[i] = ms[i]
                              \/ \E r \in DOMAIN rs : \E p \in rs[r] :
                                   p.match = i /\ p.result = "open" /\ f[r][p].result # "open"
  BY DEF Settles
<1>1. Single(rs) /\ Tied(rs, ms) /\ Owns(rs, ms)
  BY DEF Bonds
<1>2. DOMAIN new = DOMAIN rs /\ Good(new)
  <2>1. rs \in Seq(SUBSET Pairing) /\ new \in Seq(SUBSET Pairing) /\ Len(new) = Len(rs)
    BY DEF Good, Follows
  <2> QED BY <2>1, FollowsGood
<1>3. \A r \in DOMAIN rs : \A q \in new[r] : \E p \in rs[r] :
        q = f[r][p] /\ Kept(p, q) /\ q.match = p.match /\ (p.result # "open" => q = p)
  BY DEF Follows, Decides
<1>4. \A r \in DOMAIN rs : \A p \in rs[r] : f[r][p] \in new[r]
  BY DEF Follows
<1>5. \A r \in DOMAIN rs : \A p \in rs[r] :
        p.match # 0 /\ (p.result # "open" \/ f[r][p].result = "open") =>
          ns[p.match] = ms[p.match]
  <2> SUFFICES ASSUME NEW r \in DOMAIN rs, NEW p \in rs[r], p.match # 0,
                      p.result # "open" \/ f[r][p].result = "open"
               PROVE  ns[p.match] = ms[p.match]
    OBVIOUS
  <2>1. p.match \in DOMAIN ms
    BY MatchThere
  <2>2. \A k \in DOMAIN rs : \A q \in rs[k] : q.match = p.match => k = r /\ q = p
    BY <1>1 DEF Single
  <2> QED BY <1>0, <2>1, <2>2
<1>6. Single(new)
  <2> SUFFICES ASSUME NEW i \in DOMAIN rs, NEW j \in DOMAIN rs,
                      NEW x \in new[i], NEW y \in new[j],
                      x.match # 0, x.match = y.match
               PROVE  i = j /\ x = y
    BY <1>2 DEF Single
  <2>1. PICK p \in rs[i] : x = f[i][p] /\ x.match = p.match
    BY <1>3
  <2>2. PICK q \in rs[j] : y = f[j][q] /\ y.match = q.match
    BY <1>3
  <2>3. i = j /\ p = q
    BY <2>1, <2>2, <1>1 DEF Single
  <2> QED BY <2>1, <2>2, <2>3
<1>7. Tied(new, ns)
  <2> SUFFICES ASSUME NEW r \in DOMAIN rs, NEW q \in new[r], q.match # 0
               PROVE  /\ ns[q.match].status # "unborn"
                      /\ q.result = "open" =>
                           /\ ns[q.match].status \in Active /\ ~ns[q.match].late
                           /\ ns[q.match].round = r
                           /\ {ns[q.match].a, ns[q.match].b} = {q.a, q.b}
                      /\ q.result # "open" /\ ns[q.match].status = "finished"
                         /\ ~ns[q.match].late /\ ns[q.match].winner # Nobody =>
                           Winner(q) = ns[q.match].winner
    BY <1>2 DEF Tied
  <2>1. PICK p \in rs[r] :
          q = f[r][p] /\ Kept(p, q) /\ q.match = p.match /\ (p.result # "open" => q = p)
    BY <1>3
  <2>2. CASE p.result = "open" /\ q.result # "open"
    <3>1. EndsWith(ms[q.match], ns[q.match], Winner(q))
      BY <1>0, <2>1, <2>2
    <3> QED BY <3>1, <2>2 DEF EndsWith
  <2>3. CASE p.result # "open" \/ q.result = "open"
    <3>1. ns[q.match] = ms[q.match]
      BY <2>1, <2>3, <1>5
    <3>2. CASE p.result # "open"
      BY <3>1, <3>2, <2>1, <1>1 DEF Tied
    <3>3. CASE p.result = "open"
      <4>1. q.result = "open" /\ q.a = p.a /\ q.b = p.b
        BY <3>3, <2>1, <2>3 DEF Kept
      <4>2. /\ ms[p.match].status \in Active /\ ~ms[p.match].late
            /\ ms[p.match].status # "unborn"
            /\ ms[p.match].round = r
            /\ {ms[p.match].a, ms[p.match].b} = {p.a, p.b}
        BY <3>3, <2>1, <1>1 DEF Tied
      <4>3. ns[q.match] = ms[p.match]
        BY <3>1, <2>1
      <4> QED BY <4>1, <4>2, <4>3
    <3> QED BY <3>2, <3>3
  <2> QED BY <2>2, <2>3
<1>8. Owns(new, ns)
  <2> SUFFICES ASSUME NEW i \in DOMAIN ms, Live(ns[i]) PROVE Owned(new, ns, i)
    BY DEF Owns
  <2>1. CASE ns[i] = ms[i]
    <3>1. ms[i].round \in DOMAIN rs
      BY <2>1, <1>1 DEF Owns, Owned
    <3>2. PICK p \in rs[ms[i].round] :
            /\ p.match = i /\ {p.a, p.b} = {ms[i].a, ms[i].b}
            /\ ms[i].status \in Active /\ ~ms[i].late => p.result = "open"
      BY <2>1, <1>1 DEF Owns, Owned
    <3> DEFINE q == f[ms[i].round][p]
    <3>3. q \in new[ms[i].round] /\ q.a = p.a /\ q.b = p.b /\ q.match = i
      BY <3>1, <3>2, <1>4 DEF Follows, Kept, Decides
    <3>4. ms[i].status \in Active /\ ~ms[i].late => q.result = "open"
      <4> SUFFICES ASSUME p.result = "open", q.result # "open", ms[i].status \in Active
                   PROVE  FALSE
        BY <3>2
      <4>1. EndsWith(ms[i], ns[i], Winner(q))
        BY <1>0, <3>1, <3>2, MatchThere, BoundAssumption
      <4> QED BY <4>1, <2>1 DEF EndsWith, Active
    <3> HIDE DEF q
    <3> QED BY <3>1, <3>2, <3>3, <3>4, <2>1, <1>2 DEF Owned
  <2>2. ASSUME NEW r \in DOMAIN rs, NEW p \in rs[r],
               p.match = i, p.result = "open", f[r][p].result # "open"
        PROVE  Owned(new, ns, i)
    <3>1. i # 0
      BY BoundAssumption
    <3>2. ms[i].round = r /\ {ms[i].a, ms[i].b} = {p.a, p.b}
      BY <2>2, <3>1, <1>1 DEF Tied
    <3>3. EndsWith(ms[i], ns[i], Winner(f[r][p]))
      BY <1>0, <2>2, <3>1
    <3>4. /\ f[r][p] \in new[r] /\ f[r][p].match = i
          /\ f[r][p].a = p.a /\ f[r][p].b = p.b
      BY <2>2, <1>4 DEF Follows, Kept, Decides
    <3> QED BY <3>2, <3>3, <3>4, <1>2 DEF Owned, EndsWith, Active
  <2> QED BY <1>0, <2>1, <2>2
<1> QED BY <1>6, <1>7, <1>8 DEF Bonds

(***************************************************************************)
(* The ways a step goes on.                                                *)
(***************************************************************************)

LEMMA Untouched ==
  ASSUME IInv, UNCHANGED <<rounds, matches>>, Phase', deadlines' \subseteq deadlines
  PROVE  Proceeds
<1>1. Continues(rounds, rounds')
  BY DEF Continues, Kept, IInv, Good
<1>2. Good(rounds') /\ Bonds(rounds', matches')
  BY DEF IInv
<1>3. Good(rounds)' /\ Bonds(rounds, matches)'
  BY <1>2
<1>4. Matched'
  BY DEF IInv, Matched
<1>5. Dated'
  BY DEF IInv, Dated
<1> QED BY <1>1, <1>3, <1>4, <1>5 DEF Proceeds, IInv

(* The rounds advance from rs, or that fails. *)
Outcome(rs) ==
  /\ \/ rounds' = rs /\ status' = status
     \/ /\ status' \in {status, "finished"}
        /\ \E d, b : rounds' \in Cascaded(rs, d, b)
  /\ deadlines' \subseteq deadlines \cup {Len(rounds')}

LEMMA DatedStill ==
  ASSUME IInv, Good(rounds'), Continues(rounds, rounds'), rounds' # <<>>,
         deadlines' \subseteq deadlines \cup {Len(rounds')}
  PROVE  Dated'
<1>1. Len(rounds') \in DOMAIN rounds'
  BY DEF Good
<1>2. DOMAIN rounds \subseteq DOMAIN rounds'
  BY DEF Continues
<1> QED BY <1>1, <1>2 DEF IInv, Dated

LEMMA Advances ==
  ASSUME IInv, NEW rs, Good(rs), Continues(rounds, rs), rs # <<>>,
         Bonds(rs, matches'), Matched',
         status \in {"playing", "finished"}, Outcome(rs)
  PROVE  Proceeds
<1>1. CASE rounds' = rs /\ status' = status
  <2>1. Good(rounds)' /\ Bonds(rounds, matches)'
    BY <1>1
  <2>2. Phase'
    BY <1>1 DEF IInv, Phase
  <2>3. Dated'
    BY <1>1, <2>1, DatedStill DEF Outcome
  <2> QED BY <1>1, <2>1, <2>2, <2>3 DEF Proceeds, IInv
<1>2. ASSUME NEW d, NEW b, rounds' \in Cascaded(rs, d, b), status' \in {status, "finished"}
      PROVE  Proceeds
  <2>1. Good(rounds') /\ Opens(rs, rounds') /\ rounds' # <<>>
    BY <1>2, CascadedGood, BoundAssumption
  <2>2. Bonds(rounds', matches')
    BY <2>1, OpensBonds
  <2>3. Continues(rs, rounds')
    BY <2>1, OpensContinues
  <2>4. Continues(rounds, rounds')
    BY <2>1, <2>3, ContinuesOn DEF IInv
  <2>5. Phase'
    BY <1>2, <2>1 DEF Phase
  <2>6. Good(rounds)' /\ Bonds(rounds, matches)'
    BY <2>1, <2>2
  <2>7. Dated'
    BY <2>1, <2>4, DatedStill DEF Outcome
  <2> QED BY <2>4, <2>5, <2>6, <2>7 DEF Proceeds, IInv
<1> QED BY <1>1, <1>2 DEF Outcome

(* The play phase opens, or it does not. *)
LEMMA PlayOpens ==
  ASSUME IInv, rounds = <<>>, UNCHANGED matches, NEW d, NEW b,
         rounds' \in Cascaded(<<>>, d, b), status' \in {"playing", "finished"},
         deadlines' \subseteq {Len(rounds')}
  PROVE  Proceeds
<1>1. Good(rounds') /\ Opens(rounds, rounds') /\ rounds' # <<>>
  BY CascadedGood, BoundAssumption DEF IInv
<1>2. Bonds(rounds', matches)
  BY <1>1, OpensBonds DEF IInv
<1>3. Bonds(rounds, matches)'
  BY <1>2
<1>4. Matched'
  BY DEF IInv, Matched, Sane, Live
<1>5. Phase'
  BY <1>1 DEF Phase
<1>6. Continues(rounds, rounds')
  BY <1>1, OpensContinues
<1>7. Dated'
  BY <1>1, <1>6, DatedStill
<1> QED BY <1>1, <1>3, <1>4, <1>5, <1>6, <1>7 DEF Proceeds, IInv

LEMMA PlayPhase ==
  ASSUME IInv, NEW phase, NEW submitted, OpenPlayPhaseIfReady(phase, submitted),
         phase = status \/ (phase = "started" /\ status = "open")
  PROVE  Proceeds
<1>0. phase \in {"open", "started", "playing", "finished", "gone"}
  BY DEF IInv, Phase
<1>1. CASE phase = "started" /\ Ready(draft', submitted, AutoDriven')
  <2>1. rounds = <<>>
    BY <1>1 DEF IInv, Phase
  <2>2. /\ rounds' \in Cascaded(<<>>, dropped', Bots')
        /\ status' \in {"playing", "finished"} /\ UNCHANGED matches
        /\ deadlines' \subseteq {Len(rounds')}
    BY <1>1 DEF OpenPlayPhaseIfReady, Due
  <2> QED BY <2>1, <2>2, PlayOpens
<1>2. CASE ~(phase = "started" /\ Ready(draft', submitted, AutoDriven'))
  <2>1. status' = phase /\ UNCHANGED <<rounds, matches, deadlines>>
    BY <1>2 DEF OpenPlayPhaseIfReady, play
  <2>2. Phase'
    BY <2>1, <1>0 DEF IInv, Phase
  <2> QED BY <2>1, <2>2, Untouched
<1> QED BY <1>1, <1>2

LEMMA MatchMoves ==
  ASSUME IInv, NEW i \in DOMAIN matches, NEW x \in Match, Sane(x),
         Stays(matches[i], x), matches' = [matches EXCEPT ![i] = x],
         UNCHANGED <<rounds, status, deadlines>>
  PROVE  Proceeds
<1>1. DOMAIN matches = 1..MaxMatches
  BY DEF IInv, Matched
<1>2. Bonds(rounds, matches')
  BY <1>1, StaysBonds DEF IInv
<1>3. Matched'
  BY DEF IInv, Matched
<1>4. Good(rounds)' /\ Bonds(rounds, matches)'
  BY <1>2 DEF IInv
<1>5. Phase'
  BY DEF IInv, Phase
<1>6. Continues(rounds, rounds')
  BY DEF Continues, Kept, IInv, Good
<1>7. Dated'
  BY DEF IInv, Dated
<1> QED BY <1>3, <1>4, <1>5, <1>6, <1>7 DEF Proceeds, IInv

(***************************************************************************)
(* Matches.                                                                *)
(***************************************************************************)

LEMMA Games == GamesToWin \in {1, 2} /\ (GamesToWin = 1 => BestOf = 1)
BY BoundAssumption DEF GamesToWin

(* A match of a kind is one still when fields of it are set. *)
LEMMA FinishedMatch ==
  ASSUME NEW m \in Match, Sane(m), Live(m), NEW winner \in Seats \cup {Nobody}
  PROVE  /\ Finished(m, winner) \in Match /\ Sane(Finished(m, winner))
         /\ EndsWith(m, Finished(m, winner), winner)
<1> DEFINE x == Finished(m, winner)
<1>1. x \in Match
  <2> DEFINE g == IF m.game = "waiting" THEN m.game ELSE "over"
             w == [a |-> 0, b |-> 0]
  <2>1. g \in {"none", "waiting", "pregame", "playing", "over"}
    OBVIOUS
  <2>2. w \in [a : 0..1, b : 0..1] /\ 1 \in 1..BestOf
    BY BoundAssumption
  <2>3. x = [m EXCEPT !.status = "finished", !.winner = winner, !.game = g,
                      !.wins = w, !.number = 1]
    BY DEF Finished
  <2> HIDE DEF g, w, x
  <2> QED BY <2>1, <2>2, <2>3 DEF Match
<1>2. /\ x.status = "finished" /\ x.winner = winner
      /\ x.round = m.round /\ x.a = m.a /\ x.b = m.b /\ x.late = m.late
      /\ x.joined = m.joined /\ x.wins = [a |-> 0, b |-> 0]
  BY DEF Finished, Match
<1>3. Sane(x)
  BY <1>2, Games DEF Sane, Live
<1> QED BY <1>1, <1>2, <1>3 DEF EndsWith

LEMMA ActiveLive ==
  ASSUME IInv, NEW i \in DOMAIN matches, matches[i].status \in Active
  PROVE  /\ Live(matches[i]) /\ matches[i] \in Match /\ Sane(matches[i])
         /\ rounds # <<>> /\ status \in {"playing", "finished"}
<1>1. Live(matches[i])
  BY DEF Active, Live
<1> QED BY <1>1, LiveInRounds DEF IInv, Matched

LEMMA JoinGameKeeps ==
  ASSUME IInv, NEW i \in DOMAIN matches, JoinGame(i)
  PROVE  Proceeds
<1> DEFINE m == matches[i]
           x == [m EXCEPT !.joined = TRUE, !.late = m.status = "finished",
                          !.status = "pregame", !.game = "pregame"]
<1>1. m \in Match /\ Sane(m) /\ m.game = "waiting" /\ ~m.joined
  BY DEF IInv, Matched, JoinGame
<1>2. /\ x \in Match
      /\ x.joined /\ x.status = "pregame" /\ x.game = "pregame"
      /\ (x.late <=> m.status = "finished")
      /\ x.round = m.round /\ x.a = m.a /\ x.b = m.b /\ x.wins = m.wins
  BY <1>1 DEF Match
<1>3. matches' = [matches EXCEPT ![i] = x] /\ UNCHANGED <<rounds, status, deadlines>>
  BY DEF JoinGame
<1>4. m.late \in BOOLEAN /\ x.late \in BOOLEAN /\ m.status \in Active \cup {"finished"}
  BY <1>1, <1>2 DEF Match, Sane, Live, Active
<1> HIDE DEF x
<1>5. Sane(x)
  BY <1>1, <1>2 DEF Sane, Live
<1>6. Stays(m, x)
  BY <1>1, <1>2, <1>4 DEF Stays, Active, Sane
<1> QED BY <1>2, <1>3, <1>5, <1>6, MatchMoves

LEMMA ChooseFirstPlayerKeeps ==
  ASSUME IInv, NEW i \in DOMAIN matches, ChooseFirstPlayer(i)
  PROVE  Proceeds
<1> DEFINE m == matches[i]
           x == [m EXCEPT !.status = "playing", !.game = "playing"]
<1>1. m \in Match /\ Sane(m) /\ m.status = "pregame"
  BY DEF IInv, Matched, ChooseFirstPlayer
<1>2. /\ x \in Match /\ x.status = "playing" /\ x.game = "playing"
      /\ x.late = m.late /\ x.joined = m.joined
      /\ x.round = m.round /\ x.a = m.a /\ x.b = m.b /\ x.wins = m.wins
  BY <1>1 DEF Match
<1>3. matches' = [matches EXCEPT ![i] = x] /\ UNCHANGED <<rounds, status, deadlines>>
  BY <1>1 DEF ChooseFirstPlayer, IInv, Matched
<1> HIDE DEF x
<1>5. Sane(x)
  BY <1>1, <1>2 DEF Sane, Live
<1>6. Stays(m, x)
  BY <1>1, <1>2 DEF Stays, Active
<1> QED BY <1>2, <1>3, <1>5, <1>6, MatchMoves

LEMMA NextGameKeeps ==
  ASSUME IInv, NEW i \in DOMAIN matches, NextGame(i)
  PROVE  Proceeds
<1> DEFINE m == matches[i]
           n == IF m.number < BestOf THEN m.number + 1 ELSE m.number
           x == [m EXCEPT !.status = "playing", !.game = "playing", !.number = n]
<1>1. m \in Match /\ Sane(m) /\ m.status = "sideboarding"
  BY DEF IInv, Matched, NextGame
<1>0. n \in 1..BestOf
  <2>1. m.number \in 1..BestOf
    BY <1>1 DEF Match
  <2> QED BY <2>1, BoundAssumption
<1> HIDE DEF n
<1>2. /\ x \in Match /\ x.status = "playing" /\ x.game = "playing"
      /\ x.late = m.late /\ x.joined = m.joined
      /\ x.round = m.round /\ x.a = m.a /\ x.b = m.b /\ x.wins = m.wins
  BY <1>0, <1>1 DEF Match
<1>3. matches' = [matches EXCEPT ![i] = x] /\ UNCHANGED <<rounds, status, deadlines>>
  BY <1>1 DEF NextGame, IInv, Matched, n
<1> HIDE DEF x
<1>5. Sane(x)
  BY <1>1, <1>2 DEF Sane, Live
<1>6. Stays(m, x)
  BY <1>1, <1>2 DEF Stays, Active
<1> QED BY <1>2, <1>3, <1>5, <1>6, MatchMoves

LEMMA PlayedWell ==
  ASSUME NEW p \in Pairing, NEW m, {p.a, p.b} = {m.a, m.b},
         NEW x \in Int, NEW y \in Int, p.result = "open"
  PROVE  /\ Played(p, m, x, y) \in Pairing /\ Kept(p, Played(p, m, x, y))
         /\ Played(p, m, x, y).match = p.match
         /\ Played(p, m, x, y).result # "open"
         /\ x > y => Winner(Played(p, m, x, y)) = m.a
         /\ y > x => Winner(Played(p, m, x, y)) = m.b
<1> DEFINE won(s) == WonBy(p, s)
<1>1. \A s : /\ won(s) \in Pairing /\ won(s).a = p.a /\ won(s).b = p.b
             /\ won(s).match = p.match /\ won(s).result \in {"a", "b"}
             /\ won(s).result = IF s = p.a THEN "a" ELSE "b"
  BY DEF WonBy, Pairing, Results
<1>2. \A s \in {p.a, p.b} : Winner(won(s)) = s
  BY <1>1 DEF Winner
<1> HIDE DEF won
<1>3. CASE x = y
  <2>1. Played(p, m, x, y) = [p EXCEPT !.result = "draw"]
    BY <1>3 DEF Played
  <2> QED BY <1>3, <2>1 DEF Pairing, Results, Kept
<1>4. CASE x # y
  <2>1. Played(p, m, x, y) = won(IF x > y THEN m.a ELSE m.b)
    BY <1>4 DEF Played, won
  <2>2. (IF x > y THEN m.a ELSE m.b) \in {p.a, p.b}
    OBVIOUS
  <2> QED BY <1>1, <1>2, <1>4, <2>1, <2>2 DEF Kept
<1> QED BY <1>3, <1>4

(* A match that is over is recorded in the pairing that waits for it. *)
LEMMA RecordKeeps ==
  ASSUME IInv, NEW i \in DOMAIN matches, NEW x \in Match, Sane(x),
         NEW u \in Int, NEW v \in Int, NEW w,
         EndsWith(matches[i], x, w), matches[i].status \in Active,
         x.winner # Nobody => \/ u > v /\ w = matches[i].a
                              \/ v > u /\ w = matches[i].b,
         matches' = [matches EXCEPT ![i] = x], Record(i, u, v)
  PROVE  Proceeds
<1> DEFINE m == matches[i]
<1>1. /\ Good(rounds) /\ Single(rounds) /\ Tied(rounds, matches) /\ Owns(rounds, matches)
      /\ matches \in [1..MaxMatches -> Match] /\ DOMAIN matches = 1..MaxMatches
  BY DEF IInv, Matched, Bonds
<1>2. Live(m) /\ rounds # <<>> /\ status \in {"playing", "finished"}
  BY ActiveLive
<1>3. Matched'
  BY DEF IInv, Matched
<1>4. m.round \in DOMAIN rounds
  BY <1>1, <1>2 DEF Owns, Owned
<1>5. CASE Bound(i) = {}
  <2>1. m.late
    <3> SUFFICES ASSUME ~m.late PROVE FALSE
      OBVIOUS
    <3>1. PICK p \in rounds[m.round] :
            p.match = i /\ {p.a, p.b} = {m.a, m.b} /\ p.result = "open"
      BY <1>1, <1>2 DEF Owns, Owned
    <3> QED BY <3>1, <1>5 DEF Bound
  <2>2. Stays(m, x)
    BY <1>2, <2>1 DEF Stays, EndsWith, Live
  <2>3. UNCHANGED <<rounds, status, deadlines>>
    BY <1>5 DEF Record
  <2> QED BY <2>2, <2>3, MatchMoves
<1>6. CASE Bound(i) # {}
  <2> DEFINE p == CHOOSE q \in Bound(i) : TRUE
             q == Played(p, m, u, v)
             rs == Rewritten(rounds, m.round, p, q)
             f == Swap(rounds, m.round, p, q)
  <2>1. p \in Bound(i)
    BY <1>6
  <2>2. /\ p \in rounds[m.round] /\ {p.a, p.b} = {m.a, m.b}
        /\ p.match = i /\ p.result = "open"
    BY <2>1 DEF Bound
  <2>3. p \in Pairing
    BY <1>1, <1>4, <2>2 DEF Good
  <2>r. Outcome(rs)
    BY <1>6 DEF Record, Advance, Unadvanced, Unscheduled, Outcome, Due
  <2> HIDE DEF p
  <2>4. /\ q \in Pairing /\ Kept(p, q) /\ q.match = p.match /\ q.result # "open"
        /\ u > v => Winner(q) = m.a
        /\ v > u => Winner(q) = m.b
    BY <2>2, <2>3, PlayedWell
  <2> HIDE DEF q
  <2>5. Follows(rounds, rs, f)
    BY <1>1, <1>4, <2>2, <2>4, RewrittenFollows
  <2>6. Good(rs) /\ Continues(rounds, rs)
    BY <1>1, <2>5, FollowsGood
  <2> HIDE DEF rs
  <2>7. \A r \in DOMAIN rounds : \A z \in rounds[r] :
          f[r][z] = IF r = m.round /\ z = p THEN q ELSE z
    BY DEF Swap, OnRound
  <2> HIDE DEF f
  <2>8. Decides(rounds, f)
    BY <2>2, <2>4, <2>7 DEF Decides
  <2>9. \A r \in DOMAIN rounds : \A z \in rounds[r] :
          z.match # 0 /\ z.result = "open" /\ f[r][z].result # "open" =>
            EndsWith(matches[z.match], matches'[z.match], Winner(f[r][z]))
    <3> SUFFICES ASSUME NEW r \in DOMAIN rounds, NEW z \in rounds[r],
                        z.result = "open", f[r][z].result # "open"
                 PROVE  EndsWith(matches[z.match], matches'[z.match], Winner(f[r][z]))
      OBVIOUS
    <3>1. r = m.round /\ z = p /\ f[r][z] = q
      BY <2>7
    <3>2. matches'[i] = x
      BY <1>1
    <3>3. EndsWith(m, x, Winner(q))
      BY <2>4 DEF EndsWith
    <3> QED BY <3>1, <3>2, <3>3, <2>2
  <2>10. \A j \in DOMAIN matches : \/ matches'[j] = matches[j]
                                   \/ \E r \in DOMAIN rounds : \E z \in rounds[r] :
                                        z.match = j /\ z.result = "open" /\ f[r][z].result # "open"
    <3> TAKE j \in DOMAIN matches
    <3>1. CASE j # i
      BY <3>1, <1>1
    <3>2. CASE j = i
      BY <3>2, <1>4, <2>2, <2>4, <2>7
    <3> QED BY <3>1, <3>2
  <2>11. Bonds(rs, matches')
    <3>1. DOMAIN matches' = DOMAIN matches /\ Bonds(rounds, matches)
      BY DEF IInv
    <3>2. Settles(rounds, f, matches, matches')
      BY <2>9, <2>10 DEF Settles
    <3> QED BY <3>1, <3>2, <1>1, <2>5, <2>8, DecidesBonds
  <2>12. rs # <<>>
    <3>1. Len(rs) # 0
      BY <1>1, <1>2, <2>5 DEF Follows, Good
    <3> QED BY <3>1, <2>6 DEF Good
  <2> QED BY <1>2, <1>3, <2>r, <2>6, <2>11, <2>12, Advances
<1> QED BY <1>5, <1>6

LEMMA WinGameKeeps ==
  ASSUME IInv, NEW i \in DOMAIN matches, NEW s \in Seats, WinGame(i, s)
  PROVE  Proceeds
<1> DEFINE m == matches[i]
           x == m.wins.a + (IF s = m.a THEN 1 ELSE 0)
           y == m.wins.b + (IF s = m.a THEN 0 ELSE 1)
<1>1. m.status = "playing" /\ s \in {m.a, m.b}
  BY DEF WinGame
<1>2. m \in Match /\ Sane(m) /\ Live(m) /\ m.status \in Active
  BY <1>1, ActiveLive DEF Active
<1>3. /\ m.wins \in [a : 0..1, b : 0..1] /\ m.wins.a \in 0..1 /\ m.wins.b \in 0..1
      /\ m.wins.a < GamesToWin /\ m.wins.b < GamesToWin
  BY <1>2 DEF Match, Sane
<1>4. x \in Int /\ y \in Int
  BY <1>3
<1>5. CASE x = GamesToWin \/ y = GamesToWin
  <2>1. matches' = [matches EXCEPT ![i] = Finished(m, s)] /\ Record(i, x, y)
    BY <1>5 DEF WinGame
  <2>2. (x > y /\ s = m.a) \/ (y > x /\ s = m.b)
    BY <1>1, <1>3, <1>5, Games
  <2>3. /\ Finished(m, s) \in Match /\ Sane(Finished(m, s))
        /\ EndsWith(m, Finished(m, s), s)
    BY <1>2, FinishedMatch
  <2> QED BY <1>2, <1>4, <2>1, <2>2, <2>3, RecordKeeps
<1>6. CASE ~(x = GamesToWin \/ y = GamesToWin)
  <2> DEFINE w == [a |-> x, b |-> y]
             n == [m EXCEPT !.status = "sideboarding", !.game = "over", !.wins = w]
  <2>1. matches' = [matches EXCEPT ![i] = n] /\ UNCHANGED <<rounds, status, deadlines>>
    BY <1>6 DEF WinGame
  <2>2. x \in 0..1 /\ y \in 0..1 /\ x < GamesToWin /\ y < GamesToWin
    BY <1>3, <1>6, Games
  <2>3. w \in [a : 0..1, b : 0..1] /\ w.a < GamesToWin /\ w.b < GamesToWin
    BY <2>2
  <2> HIDE DEF w
  <2>4. /\ n \in Match /\ n.status = "sideboarding" /\ n.game = "over"
        /\ n.late = m.late /\ n.joined = m.joined /\ n.wins = w
        /\ n.round = m.round /\ n.a = m.a /\ n.b = m.b
    BY <1>2, <2>3 DEF Match
  <2> HIDE DEF n
  <2>5. Sane(n) /\ Stays(m, n)
    BY <1>2, <2>3, <2>4 DEF Sane, Stays, Active, Live
  <2> QED BY <2>1, <2>4, <2>5, MatchMoves
<1> QED BY <1>5, <1>6

LEMMA DrawGameKeeps ==
  ASSUME IInv, NEW i \in DOMAIN matches, DrawGame(i)
  PROVE  Proceeds
<1> DEFINE m == matches[i]
<1>1. m.status = "playing"
  BY DEF DrawGame
<1>2. m \in Match /\ Sane(m) /\ Live(m) /\ m.status \in Active
  BY <1>1, ActiveLive DEF Active
<1>3. CASE m.number = BestOf
  <2>1. /\ matches' = [matches EXCEPT ![i] = Finished(m, Nobody)]
        /\ Record(i, m.wins.a, m.wins.b)
    BY <1>3 DEF DrawGame
  <2>2. /\ Finished(m, Nobody) \in Match /\ Sane(Finished(m, Nobody))
        /\ EndsWith(m, Finished(m, Nobody), Nobody)
    BY <1>2, FinishedMatch
  <2>3. Finished(m, Nobody).winner = Nobody
    BY <2>2 DEF EndsWith
  <2>4. m.wins.a \in Int /\ m.wins.b \in Int
    BY <1>2 DEF Match
  <2> QED BY <1>2, <2>1, <2>2, <2>3, <2>4, RecordKeeps
<1>4. CASE m.number # BestOf
  <2> DEFINE n == [m EXCEPT !.status = "sideboarding", !.game = "over"]
  <2>1. matches' = [matches EXCEPT ![i] = n] /\ UNCHANGED <<rounds, status, deadlines>>
    BY <1>2, <1>4 DEF DrawGame, IInv, Matched
  <2>2. /\ n \in Match /\ n.status = "sideboarding" /\ n.game = "over"
        /\ n.late = m.late /\ n.joined = m.joined /\ n.wins = m.wins
        /\ n.round = m.round /\ n.a = m.a /\ n.b = m.b
    BY <1>2 DEF Match
  <2> HIDE DEF n
  <2>3. Sane(n) /\ Stays(m, n)
    BY <1>2, <2>2 DEF Sane, Stays, Active, Live
  <2> QED BY <2>1, <2>2, <2>3, MatchMoves
<1> QED BY <1>3, <1>4

LEMMA ForfeitMatchKeeps ==
  ASSUME IInv, NEW i \in DOMAIN matches, NEW s \in Seats, ForfeitMatch(i, s)
  PROVE  Proceeds
<1> DEFINE m == matches[i]
           winner == IF s = m.a THEN m.b ELSE m.a
<1>1. m.status \in Active
  BY DEF ForfeitMatch
<1>2. m \in Match /\ Sane(m) /\ Live(m)
  BY <1>1, ActiveLive
<1>3. winner \in Seats \cup {Nobody} /\ (winner = m.a \/ winner = m.b)
  BY <1>2 DEF Match
<1>4. /\ m.wins.a \in Int /\ m.wins.b \in Int /\ GamesToWin \in Int
      /\ GamesToWin > m.wins.a /\ GamesToWin > m.wins.b
  BY <1>2, Games DEF Match, Sane
<1>5. /\ matches' = [matches EXCEPT ![i] = Finished(m, winner)]
      /\ IF winner = m.a THEN Record(i, GamesToWin, m.wins.b)
         ELSE Record(i, m.wins.a, GamesToWin)
  BY DEF ForfeitMatch
<1> HIDE DEF winner
<1>6. /\ Finished(m, winner) \in Match /\ Sane(Finished(m, winner))
      /\ EndsWith(m, Finished(m, winner), winner)
  BY <1>2, <1>3, FinishedMatch
<1>7. CASE winner = m.a
  BY <1>1, <1>4, <1>5, <1>6, <1>7, RecordKeeps
<1>8. CASE winner # m.a
  BY <1>1, <1>3, <1>4, <1>5, <1>6, <1>8, RecordKeeps
<1> QED BY <1>7, <1>8

(***************************************************************************)
(* Pairings that are decided without their match.                          *)
(***************************************************************************)

LEMMA EndMatchesSettles ==
  ASSUME IInv, NEW f, NEW E, Decides(rounds, f), EndMatches(E),
         \A r \in DOMAIN rounds : \A p \in rounds[r] : Ends(p, f[r][p]) \subseteq E,
         \A e \in E : \E r \in DOMAIN rounds : \E p \in rounds[r] : e \in Ends(p, f[r][p]),
         \A r \in DOMAIN rounds : \A p \in rounds[r] :
           Winner(f[r][p]) \in Seats \cup {Nobody}
  PROVE  /\ Settles(rounds, f, matches, matches')
         /\ Matched' /\ DOMAIN matches' = DOMAIN matches
<1>1. /\ Good(rounds) /\ Single(rounds) /\ Tied(rounds, matches)
      /\ matches \in [1..MaxMatches -> Match] /\ DOMAIN matches = 1..MaxMatches
      /\ \A i \in DOMAIN matches : Sane(matches[i])
  BY DEF IInv, Bonds, Matched
<1>2. matches' = [i \in DOMAIN matches |->
        IF \E e \in E : e.i = i
        THEN Finished(matches[i], (CHOOSE e \in E : e.i = i).winner) ELSE matches[i]]
  BY DEF EndMatches
<1>3. \A r \in DOMAIN rounds : \A p \in rounds[r] : \A e \in Ends(p, f[r][p]) :
        /\ p.match # 0 /\ p.result = "open" /\ f[r][p].result # "open"
        /\ e.i = p.match /\ p.match \in DOMAIN matches
        /\ e.winner \in {Winner(f[r][p]), Nobody}
        /\ matches[p.match].status \in Active
  <2> SUFFICES ASSUME NEW r \in DOMAIN rounds, NEW p \in rounds[r], NEW e \in Ends(p, f[r][p])
               PROVE  /\ p.match # 0 /\ p.result = "open" /\ f[r][p].result # "open"
                      /\ e.i = p.match /\ p.match \in DOMAIN matches
                      /\ e.winner \in {Winner(f[r][p]), Nobody}
                      /\ matches[p.match].status \in Active
    OBVIOUS
  <2>1. f[r][p].match = p.match
    BY DEF Decides
  <2>2. /\ p.match # 0 /\ p.result = "open" /\ f[r][p].result # "open"
        /\ matches[p.match].status \in Active
        /\ e.i = p.match /\ e.winner \in {Winner(f[r][p]), Nobody}
    BY <2>1 DEF Ends
  <2> QED BY <1>1, <2>2, MatchThere
<1>4. \A r \in DOMAIN rounds : \A p \in rounds[r] :
        p.match # 0 /\ p.result = "open" /\ f[r][p].result # "open" =>
          \E e \in Ends(p, f[r][p]) : e.i = p.match
  <2> SUFFICES ASSUME NEW r \in DOMAIN rounds, NEW p \in rounds[r],
                      p.match # 0, p.result = "open", f[r][p].result # "open"
               PROVE  \E e \in Ends(p, f[r][p]) : e.i = p.match
    OBVIOUS
  <2>1. f[r][p].match = p.match
    BY DEF Decides
  <2>2. matches[p.match].status \in Active
    BY <1>1 DEF Tied
  <2> QED BY <2>1, <2>2 DEF Ends
<1>5. ASSUME NEW i \in DOMAIN matches, NEW e \in E, e.i = i
      PROVE  \E r \in DOMAIN rounds : \E p \in rounds[r] :
               /\ p.match = i /\ p.result = "open" /\ f[r][p].result # "open"
               /\ e.winner \in {Winner(f[r][p]), Nobody}
               /\ matches[i].status \in Active
  BY <1>3, <1>5
<1>6. ASSUME NEW i \in DOMAIN matches, \E e \in E : e.i = i
      PROVE  \E r \in DOMAIN rounds : \E p \in rounds[r] :
               /\ p.match = i /\ p.result = "open" /\ f[r][p].result # "open"
               /\ EndsWith(matches[i], matches'[i], Winner(f[r][p]))
               /\ matches'[i] \in Match /\ Sane(matches'[i])
  <2> DEFINE e == CHOOSE x \in E : x.i = i
  <2>1. e \in E /\ e.i = i
    BY <1>6
  <2>2. matches'[i] = Finished(matches[i], e.winner)
    BY <1>2, <1>6
  <2> HIDE DEF e
  <2>r. PICK r \in DOMAIN rounds : \E p \in rounds[r] :
               /\ p.match = i /\ p.result = "open" /\ f[r][p].result # "open"
               /\ e.winner \in {Winner(f[r][p]), Nobody}
               /\ matches[i].status \in Active
    BY <1>5, <2>1
  <2>3. PICK p \in rounds[r] :
               /\ p.match = i /\ p.result = "open" /\ f[r][p].result # "open"
               /\ e.winner \in {Winner(f[r][p]), Nobody}
               /\ matches[i].status \in Active
    BY <2>r
  <2>4. e.winner \in Seats \cup {Nobody}
    BY <2>3
  <2>5. matches[i] \in Match /\ Sane(matches[i]) /\ Live(matches[i])
    BY <1>1, <2>3 DEF Live, Active
  <2>6. /\ Finished(matches[i], e.winner) \in Match /\ Sane(Finished(matches[i], e.winner))
        /\ EndsWith(matches[i], Finished(matches[i], e.winner), e.winner)
    BY <2>4, <2>5, FinishedMatch
  <2>7. EndsWith(matches[i], matches'[i], Winner(f[r][p]))
    BY <2>2, <2>3, <2>6 DEF EndsWith
  <2> QED BY <2>2, <2>3, <2>6, <2>7
<1>7. \A i \in DOMAIN matches : ~(\E e \in E : e.i = i) => matches'[i] = matches[i]
  BY <1>2
<1>8. Matched' /\ DOMAIN matches' = DOMAIN matches
  <2>1. \A i \in DOMAIN matches : matches'[i] \in Match /\ Sane(matches'[i])
    BY <1>1, <1>6, <1>7
  <2>2. DOMAIN matches' = DOMAIN matches /\ matches' \in [1..MaxMatches -> Match]
    BY <1>1, <1>2, <2>1
  <2> QED BY <2>1, <2>2 DEF Matched
<1>9. ASSUME NEW r \in DOMAIN rounds, NEW p \in rounds[r],
             p.match # 0, p.result = "open", f[r][p].result # "open"
      PROVE  EndsWith(matches[p.match], matches'[p.match], Winner(f[r][p]))
  <2>1. p.match \in DOMAIN matches
    BY <1>1, <1>9, MatchThere
  <2>2. \E e \in E : e.i = p.match
    BY <1>4, <1>9
  <2>r. PICK k \in DOMAIN rounds : \E q \in rounds[k] :
          /\ q.match = p.match
          /\ EndsWith(matches[p.match], matches'[p.match], Winner(f[k][q]))
    BY <2>1, <2>2, <1>6
  <2>3. PICK q \in rounds[k] :
          /\ q.match = p.match
          /\ EndsWith(matches[p.match], matches'[p.match], Winner(f[k][q]))
    BY <2>r
  <2>4. k = r /\ q = p
    BY <2>3, <1>1, <1>9 DEF Single
  <2> QED BY <2>3, <2>4
<1>10. \A i \in DOMAIN matches :
         \/ matches'[i] = matches[i]
         \/ \E r \in DOMAIN rounds : \E p \in rounds[r] :
              p.match = i /\ p.result = "open" /\ f[r][p].result # "open"
  BY <1>6, <1>7
<1> QED BY <1>8, <1>9, <1>10 DEF Settles

LEMMA WinnerSeat ==
  ASSUME NEW p \in Pairing
  PROVE  Winner(p) \in Seats \cup {Nobody}
BY DEF Winner, Pairing

LEMMA Resolved ==
  ASSUME IInv, status = "playing", NEW rs, NEW f, NEW E,
         Follows(rounds, rs, f), Decides(rounds, f), EndMatches(E),
         \A r \in DOMAIN rounds : \A p \in rounds[r] : Ends(p, f[r][p]) \subseteq E,
         \A e \in E : \E r \in DOMAIN rounds : \E p \in rounds[r] : e \in Ends(p, f[r][p]),
         Outcome(rs)
  PROVE  Proceeds
<1>1. Good(rounds) /\ rounds # <<>> /\ Bonds(rounds, matches) /\ DOMAIN matches = 1..MaxMatches
  BY DEF IInv, Phase, Matched
<1>2. Good(rs) /\ Continues(rounds, rs)
  BY <1>1, FollowsGood
<1>3. rs # <<>>
  <2>1. Len(rs) # 0
    BY <1>1 DEF Follows, Good
  <2> QED BY <2>1, <1>2 DEF Good
<1>4. \A r \in DOMAIN rounds : \A p \in rounds[r] : Winner(f[r][p]) \in Seats \cup {Nobody}
  <2> TAKE r \in DOMAIN rounds
  <2> TAKE p \in rounds[r]
  <2>1. f[r][p] \in rs[r] /\ r \in DOMAIN rs
    BY <1>1 DEF Follows, Good
  <2>2. f[r][p] \in Pairing
    BY <2>1, <1>2 DEF Good
  <2> QED BY <2>2, WinnerSeat
<1>5. /\ Settles(rounds, f, matches, matches')
      /\ Matched' /\ DOMAIN matches' = DOMAIN matches
  BY <1>4, EndMatchesSettles
<1>6. Bonds(rs, matches')
  BY <1>1, <1>5, DecidesBonds
<1> QED BY <1>2, <1>3, <1>5, <1>6, Advances

LEMMA DropInPlayKeeps ==
  ASSUME IInv, NEW s \in Seats, DropInPlay(s)
  PROVE  Proceeds
<1> DEFINE rs == AllConceded(rounds, dropped')
           f == ConcededOn(rounds, dropped')
           E == UNION { UNION { Ends(p, Conceded(p, dropped')) : p \in rounds[r] } :
                        r \in DOMAIN rounds }
<1>1. status = "playing" /\ EndMatches(E)
  BY DEF DropInPlay
<1>2. Outcome(rs)
  BY DEF DropInPlay, Advance, Unadvanced, Outcome, Due
<1>3. Follows(rounds, rs, f)
  BY AllConcededFollows DEF IInv
<1>4. \A r \in DOMAIN rounds : \A p \in rounds[r] : f[r][p] = Conceded(p, dropped')
  BY DEF ConcededOn
<1> HIDE DEF f
<1>5. Decides(rounds, f)
  <2>1. \A r \in DOMAIN rounds : \A p \in rounds[r] : p \in Pairing
    BY DEF IInv, Good
  <2>2. \A p \in Pairing : /\ Conceded(p, dropped').match = p.match
                           /\ p.result # "open" => Conceded(p, dropped') = p
    BY DEF Conceded, Concession, Pairing
  <2> QED BY <1>4, <2>1, <2>2 DEF Decides
<1>6. \A r \in DOMAIN rounds : \A p \in rounds[r] : Ends(p, f[r][p]) \subseteq E
  BY <1>4
<1>7. \A e \in E : \E r \in DOMAIN rounds : \E p \in rounds[r] : e \in Ends(p, f[r][p])
  BY <1>4
<1> HIDE DEF E, rs
<1> QED BY <1>1, <1>2, <1>3, <1>5, <1>6, <1>7, Resolved

LEMMA ExpiredKept ==
  ASSUME NEW p \in Pairing
  PROVE  /\ Expired(p) \in Pairing /\ Kept(p, Expired(p))
         /\ Expired(p).match = p.match /\ (p.result # "open" => Expired(p) = p)
BY DEF Expired, WonBy, Pairing, Results, Kept

LEMMA ExpireRoundDeadlineKeeps ==
  ASSUME IInv, NEW r \in deadlines, ExpireRoundDeadline(r)
  PROVE  Proceeds
<1>1. r \in DOMAIN rounds
  BY DEF IInv, Dated
<1>2. CASE status # "playing" \/ Complete(rounds[r])
  <2>1. UNCHANGED <<rounds, matches, status>> /\ deadlines' \subseteq deadlines
    BY <1>2 DEF ExpireRoundDeadline
  <2>2. Phase'
    BY <2>1 DEF IInv, Phase
  <2> QED BY <2>1, <2>2, Untouched
<1>3. CASE status = "playing" /\ ~Complete(rounds[r])
  <2> DEFINE g == [p \in rounds[r] |-> Expired(p)]
             rs == [rounds EXCEPT ![r] = { g[p] : p \in rounds[r] }]
             f == OnRound(rounds, r, g)
             E == UNION { Ends(p, Expired(p)) : p \in rounds[r] }
  <2>1. rs = [rounds EXCEPT ![r] = { Expired(p) : p \in @ }]
    BY <1>1
  <2>a. /\ EndMatches(E)
        /\ \/ Advance([rounds EXCEPT ![r] = { Expired(p) : p \in @ }], deadlines \ {r})
           \/ Unadvanced([rounds EXCEPT ![r] = { Expired(p) : p \in @ }], deadlines \ {r})
           \/ Unscheduled([rounds EXCEPT ![r] = { Expired(p) : p \in @ }], deadlines \ {r})
    BY <1>3 DEF ExpireRoundDeadline
  <2>b. \/ Advance(rs, deadlines \ {r}) \/ Unadvanced(rs, deadlines \ {r})
        \/ Unscheduled(rs, deadlines \ {r})
    BY <2>1, <2>a
  <2> HIDE DEF rs
  <2>2. Outcome(rs) /\ EndMatches(E)
    BY <2>a, <2>b DEF Advance, Unadvanced, Unscheduled, Outcome, Due
  <2>3. \A k \in DOMAIN rounds : \A p \in rounds[k] : p \in Pairing
    BY DEF IInv, Good
  <2>4. Follows(rounds, rs, f)
    <3>1. \A p \in rounds[r] : g[p] \in Pairing /\ Kept(p, g[p])
      BY <1>1, <2>3, ExpiredKept
    <3> HIDE DEF g
    <3> QED BY <1>1, <3>1, RoundFollows DEF IInv, rs
  <2>5. \A k \in DOMAIN rounds : \A p \in rounds[k] : f[k][p] = IF k = r THEN Expired(p) ELSE p
    BY DEF OnRound
  <2> HIDE DEF f
  <2>6. Decides(rounds, f)
    BY <2>3, <2>5, ExpiredKept DEF Decides
  <2>7. \A k \in DOMAIN rounds : \A p \in rounds[k] : Ends(p, f[k][p]) \subseteq E
    BY <2>5 DEF Ends
  <2>8. \A e \in E : \E k \in DOMAIN rounds : \E p \in rounds[k] : e \in Ends(p, f[k][p])
    BY <1>1, <2>5
  <2> HIDE DEF E
  <2> QED BY <1>3, <2>2, <2>4, <2>6, <2>7, <2>8, Resolved
<1> QED BY <1>2, <1>3

LEMMA NudgeEventRoundsKeeps ==
  ASSUME IInv, NudgeEventRounds
  PROVE  Proceeds
<1>1. status = "playing" /\ UNCHANGED matches /\ Outcome(rounds)
  BY DEF NudgeEventRounds, Advance, Outcome, Due
<1>2. Good(rounds) /\ rounds # <<>> /\ Bonds(rounds, matches')
  BY <1>1 DEF IInv, Phase
<1>3. Matched'
  BY <1>1 DEF IInv, Matched
<1>4. Continues(rounds, rounds)
  BY <1>2 DEF Continues, Kept, Good
<1> QED BY <1>1, <1>2, <1>3, <1>4, Advances

(***************************************************************************)
(* A match starts, and is abandoned.                                       *)
(***************************************************************************)

LEMMA UnbornMatch == Unborn \in Match
<1> DEFINE w == [a |-> 0, b |-> 0]
<1>1. w \in [a : 0..1, b : 0..1] /\ 1 \in 1..BestOf
  BY BoundAssumption
<1>2. Unborn = [status |-> "unborn", game |-> "none", round |-> 0, a |-> Nobody,
               b |-> Nobody, joined |-> FALSE, late |-> FALSE, wins |-> w,
               number |-> 1, winner |-> Nobody]
  BY DEF Unborn
<1> HIDE DEF w
<1> QED BY <1>1, <1>2 DEF Match

LEMMA StartPairingMatchKeeps ==
  ASSUME IInv, NEW s \in Seats, StartPairingMatch(s)
  PROVE  Proceeds
<1> DEFINE L == Len(rounds)
           p == PairingOf(Last, s)
           opponent == Other(s, p)
           i == CHOOSE m \in DOMAIN matches : matches[m].status = "unborn"
           solo == opponent \in Bots
           st == IF solo THEN "pregame" ELSE "waiting"
           x == [Unborn EXCEPT !.round = L, !.a = s, !.b = opponent,
                               !.joined = solo, !.status = st, !.game = st]
           q == [p EXCEPT !.match = i]
           rs == Rewritten(rounds, L, p, q)
<1>1. /\ Good(rounds) /\ Single(rounds) /\ Tied(rounds, matches) /\ Owns(rounds, matches)
      /\ matches \in [1..MaxMatches -> Match] /\ DOMAIN matches = 1..MaxMatches
      /\ \A j \in DOMAIN matches : Sane(matches[j])
  BY DEF IInv, Bonds, Matched
<1>2. /\ status = "playing" /\ p.b # Nobody /\ p.result = "open"
      /\ p.match # 0 => matches[p.match].status = "gone"
      /\ \E m \in DOMAIN matches : matches[m].status = "unborn"
      /\ matches' = [matches EXCEPT ![i] = x] /\ rounds' = rs
      /\ UNCHANGED <<status, deadlines>>
  BY DEF StartPairingMatch
<1>3. rounds # <<>> /\ L \in DOMAIN rounds /\ Last = rounds[L]
  <2>1. rounds # <<>>
    BY <1>2 DEF IInv, Phase
  <2> QED BY <1>1, <2>1 DEF Good, Last
<1>4. p \in rounds[L] /\ Sits(s, p)
  <2>1. \E y \in rounds[L] : Sits(s, y)
    BY <1>1, <1>3 DEF Good, Seated
  <2> QED BY <1>3, <2>1 DEF PairingOf
<1>5. p \in Pairing
  BY <1>1, <1>3, <1>4 DEF Good
<1>6. i \in DOMAIN matches /\ matches[i].status = "unborn"
  BY <1>2
<1>7. opponent \in Seats /\ {p.a, p.b} = {s, opponent}
  BY <1>2, <1>4, <1>5 DEF Other, Sits, Pairing
<1>8. p.match = 0
  <2> SUFFICES ASSUME p.match # 0 PROVE FALSE
    OBVIOUS
  <2>1. matches[p.match].status \in Active
    BY <1>1, <1>2, <1>3, <1>4 DEF Tied
  <2> QED BY <1>2, <2>1 DEF Active
<1> HIDE DEF p, i, opponent
<1>9. L \in Nat
  BY <1>1 DEF Good
<1>10. /\ x.round = L /\ x.a = s /\ x.b = opponent /\ x.status \in Active
       /\ x.late = FALSE /\ x.wins = [a |-> 0, b |-> 0]
       /\ x.status \in {"waiting", "pregame"} /\ x.game \in {"waiting", "pregame"}
       /\ x.joined \in BOOLEAN
       /\ x.number = 1 /\ x.winner = Nobody
  BY DEF Unborn, Active
<1>a. st \in {"waiting", "pregame"} /\ solo \in BOOLEAN
  OBVIOUS
<1> HIDE DEF st, solo
<1>11. x \in Match /\ Sane(x)
  <2>3. x \in Match
    <3> HIDE DEF L
    <3> QED BY <1>7, <1>9, <1>a, UnbornMatch DEF Match
  <2>4. x.wins.a = 0 /\ x.wins.b = 0
    BY <1>10
  <2> HIDE DEF x
  <2>5. Sane(x)
    BY <1>10, <2>4, Games DEF Sane, Live
  <2> QED BY <2>3, <2>5
<1> HIDE DEF x
<1>12. q \in Pairing /\ Kept(p, q) /\ q.match = i /\ q.a = p.a /\ q.b = p.b /\ q.result = "open"
  BY <1>1, <1>2, <1>5, <1>6 DEF Pairing, Kept
<1> HIDE DEF q
<1>13. Good(rs) /\ Continues(rounds, rs)
  BY <1>1, <1>3, <1>4, <1>12, RewrittenFollows, FollowsGood
<1>14. /\ DOMAIN rs = DOMAIN rounds
       /\ \A r \in DOMAIN rounds : r # L => rs[r] = rounds[r]
       /\ rs[L] = (rounds[L] \ {p}) \cup {q}
  BY <1>1, <1>3 DEF Rewritten, Good
<1> HIDE DEF rs
<1>15. \A r \in DOMAIN rs : \A z \in rs[r] : (r = L /\ z = q) \/ z \in rounds[r]
  BY <1>14
<1>16. \A r \in DOMAIN rounds : \A z \in rounds[r] : z.match # i
  <2>1. i # 0
    BY <1>1, <1>6
  <2> QED BY <2>1, <1>1, <1>6 DEF Tied
<1>17. Single(rs)
  <2> SUFFICES ASSUME NEW j \in DOMAIN rs, NEW k \in DOMAIN rs,
                      NEW y \in rs[j], NEW z \in rs[k], y.match # 0, y.match = z.match
               PROVE  j = k /\ y = z
    BY DEF Single
  <2>1. CASE y \in rounds[j] /\ z \in rounds[k]
    BY <2>1, <1>1, <1>14 DEF Single
  <2>2. CASE j = L /\ y = q
    BY <2>2, <1>12, <1>14, <1>15, <1>16
  <2>3. CASE k = L /\ z = q
    BY <2>3, <1>12, <1>14, <1>15, <1>16
  <2> QED BY <1>15, <2>1, <2>2, <2>3
<1>18. matches'[i] = x /\ DOMAIN matches' = DOMAIN matches
       /\ \A j \in DOMAIN matches : j # i => matches'[j] = matches[j]
  <2>1. matches' = [matches EXCEPT ![i] = x] /\ i \in DOMAIN matches
    BY <1>2, <1>6
  <2> QED BY <2>1
<1>19. Tied(rs, matches')
  <2> SUFFICES ASSUME NEW r \in DOMAIN rs, NEW z \in rs[r], z.match # 0
               PROVE  /\ matches'[z.match].status # "unborn"
                      /\ z.result = "open" =>
                           /\ matches'[z.match].status \in Active /\ ~matches'[z.match].late
                           /\ matches'[z.match].round = r
                           /\ {matches'[z.match].a, matches'[z.match].b} = {z.a, z.b}
                      /\ z.result # "open" /\ matches'[z.match].status = "finished"
                         /\ ~matches'[z.match].late /\ matches'[z.match].winner # Nobody =>
                           Winner(z) = matches'[z.match].winner
    BY DEF Tied
  <2>1. CASE r = L /\ z = q
    BY <2>1, <1>7, <1>10, <1>12, <1>18 DEF Active
  <2>2. CASE z \in rounds[r]
    <3>1. z.match \in DOMAIN matches /\ z.match # i
      BY <2>2, <1>1, <1>14, <1>16, MatchThere
    <3>2. matches'[z.match] = matches[z.match]
      BY <3>1, <1>18
    <3>3. /\ matches[z.match].status # "unborn"
          /\ z.result = "open" =>
               /\ matches[z.match].status \in Active /\ ~matches[z.match].late
               /\ matches[z.match].round = r
               /\ {matches[z.match].a, matches[z.match].b} = {z.a, z.b}
          /\ z.result # "open" /\ matches[z.match].status = "finished"
             /\ ~matches[z.match].late /\ matches[z.match].winner # Nobody =>
               Winner(z) = matches[z.match].winner
      BY <2>2, <1>1, <1>14 DEF Tied
    <3> QED BY <3>2, <3>3
  <2> QED BY <1>15, <2>1, <2>2
<1>20. Owns(rs, matches')
  <2> SUFFICES ASSUME NEW j \in DOMAIN matches, Live(matches'[j]) PROVE Owned(rs, matches', j)
    BY <1>18 DEF Owns
  <2>1. CASE j = i
    <3>1. q \in rs[L] /\ L \in DOMAIN rs
      BY <1>3, <1>14
    <3> QED BY <2>1, <3>1, <1>7, <1>10, <1>12, <1>18 DEF Owned
  <2>2. CASE j # i
    <3>1. matches'[j] = matches[j]
      BY <2>2, <1>18
    <3>2. Owned(rounds, matches, j)
      BY <3>1, <1>1 DEF Owns
    <3>3. PICK z \in rounds[matches[j].round] :
            /\ z.match = j /\ {z.a, z.b} = {matches[j].a, matches[j].b}
            /\ matches[j].status \in Active /\ ~matches[j].late => z.result = "open"
      BY <3>2 DEF Owned
    <3>4. z # p
      <4>1. j # 0
        BY <1>1
      <4> QED BY <4>1, <3>3, <1>8
    <3>5. z \in rs[matches[j].round] /\ matches[j].round \in DOMAIN rs
      BY <3>2, <3>4, <1>14 DEF Owned
    <3> QED BY <3>1, <3>3, <3>5 DEF Owned
  <2> QED BY <2>1, <2>2
<1>21. Bonds(rounds', matches') /\ Good(rounds') /\ Continues(rounds, rounds')
  BY <1>2, <1>13, <1>17, <1>19, <1>20 DEF Bonds
<1>22. Matched'
  BY <1>1, <1>2, <1>11 DEF Matched
<1>23. Phase' /\ Dated'
  <2>1. rs # <<>>
    BY <1>3, <1>14
  <2> QED BY <1>2, <1>14, <2>1 DEF Phase, Dated, IInv
<1>24. Good(rounds)' /\ Bonds(rounds, matches)'
  BY <1>21
<1> QED BY <1>21, <1>22, <1>23, <1>24 DEF Proceeds, IInv

LEMMA LeaveGameKeeps ==
  ASSUME IInv, NEW i \in DOMAIN matches, LeaveGame(i)
  PROVE  Proceeds
<1> DEFINE m == matches[i]
           mine == { p \in rounds[m.round] : Sits(m.a, p) /\ p.match # 0 /\ p.result = "open" }
<1>1. /\ Good(rounds) /\ Single(rounds) /\ Tied(rounds, matches) /\ Owns(rounds, matches)
      /\ matches \in [1..MaxMatches -> Match] /\ DOMAIN matches = 1..MaxMatches
      /\ \A j \in DOMAIN matches : Sane(matches[j])
  BY DEF IInv, Bonds, Matched
<1>2. m \in Match /\ Sane(m) /\ Live(m) /\ m.a \in Seats
      /\ m.game \in {"waiting", "pregame"} /\ UNCHANGED <<status, deadlines>>
  BY <1>1 DEF LeaveGame, Sane
<1>3. CASE m.status \notin {"waiting", "pregame"}
  <2> DEFINE n == [m EXCEPT !.game = "over"]
  <2>1. matches' = [matches EXCEPT ![i] = n] /\ UNCHANGED <<rounds, status, deadlines>>
    BY <1>1, <1>2, <1>3 DEF LeaveGame
  <2>2. /\ n \in Match /\ n.status = m.status /\ n.game = "over"
        /\ n.late = m.late /\ n.joined = m.joined /\ n.wins = m.wins /\ n.winner = m.winner
        /\ n.round = m.round /\ n.a = m.a /\ n.b = m.b
    BY <1>2 DEF Match
  <2> HIDE DEF n
  <2>3. m.status \in Active \cup {"finished"}
    BY <1>2 DEF Match, Live, Active
  <2>4. Sane(n) /\ Stays(m, n)
    BY <1>2, <2>2, <2>3 DEF Sane, Stays, Active, Live
  <2> QED BY <2>1, <2>2, <2>4, MatchMoves
<1>4. CASE m.status \in {"waiting", "pregame"}
  <2> DEFINE r == m.round
             n == [Unborn EXCEPT !.status = "gone"]
             g == [p \in rounds[r] |-> IF p \in mine THEN [p EXCEPT !.match = 0] ELSE p]
             rs == [rounds EXCEPT ![r] = { g[p] : p \in rounds[r] }]
             f == OnRound(rounds, r, g)
  <2>1. /\ matches' = [matches EXCEPT ![i] = n]
        /\ rounds' = [rounds EXCEPT ![r] =
             (rounds[r] \ mine) \cup { [p EXCEPT !.match = 0] : p \in mine }]
    BY <1>4 DEF LeaveGame
  <2>2. r \in DOMAIN rounds
    BY <1>1, <1>2 DEF Owns, Owned
  <2>3. PICK own \in rounds[r] : own.match = i /\ {own.a, own.b} = {m.a, m.b}
    BY <1>1, <1>2 DEF Owns, Owned
  <2>4. mine \subseteq {own}
    <3> SUFFICES ASSUME NEW p \in mine PROVE p = own
      OBVIOUS
    <3>1. p \in rounds[r] /\ Sits(m.a, p) /\ Sits(m.a, own)
      BY <2>3 DEF Sits
    <3> QED BY <1>1, <1>2, <2>2, <3>1 DEF Good, Seated
  <2>5. \A z \in rounds[r] : z \in mine <=> Sits(m.a, z) /\ z.match # 0 /\ z.result = "open"
    OBVIOUS
  <2>6. mine \subseteq rounds[r]
    OBVIOUS
  <2> HIDE DEF mine
  <2>7. rounds' = rs
    <3>1. (rounds[r] \ mine) \cup { [p EXCEPT !.match = 0] : p \in mine }
          = { g[p] : p \in rounds[r] }
      BY <2>6
    <3> QED BY <2>1, <3>1
  <2>8. \A k \in DOMAIN rounds : \A z \in rounds[k] : z \in Pairing
    BY <1>1 DEF Good
  <2>9. \A z \in rounds[r] : g[z] \in Pairing /\ Kept(z, g[z])
    BY <2>2, <2>8, BoundAssumption DEF Pairing, Kept
  <2>10. \A z \in rounds[r] : (z \in mine => g[z].match = 0) /\ (z \notin mine => g[z] = z)
    BY <2>2, <2>8 DEF Pairing
  <2> HIDE DEF g
  <2>11. Follows(rounds, rs, f)
    BY <1>1, <2>2, <2>9, RoundFollows
  <2>12. Good(rs) /\ Continues(rounds, rs)
    BY <1>1, <2>11, FollowsGood
  <2>13. /\ DOMAIN rs = DOMAIN rounds /\ rs[r] = { g[p] : p \in rounds[r] }
         /\ \A k \in DOMAIN rounds : k # r => rs[k] = rounds[k]
    BY <2>2
  <2> HIDE DEF rs
  <2>14. \A k \in DOMAIN rounds : \A z \in rs[k] :
           z.match # 0 => z \in rounds[k] /\ (k = r => z \notin mine)
    BY <2>10, <2>13
  <2>15. \A k \in DOMAIN rounds : \A z \in rounds[k] : z # own \/ k # r => z \in rs[k]
    BY <2>4, <2>10, <2>13
  <2>16. matches'[i] = n /\ DOMAIN matches' = DOMAIN matches
         /\ \A j \in DOMAIN matches : j # i => matches'[j] = matches[j]
    BY <1>1, <2>1
  <2>17. n \in Match /\ n.status = "gone" /\ n.game = "none" /\ n.late = FALSE
         /\ n.wins = [a |-> 0, b |-> 0]
    BY UnbornMatch DEF Unborn, Match
  <2> HIDE DEF n
  <2>18. Sane(n)
    <3>1. n.wins.a = 0 /\ n.wins.b = 0
      BY <2>17
    <3> QED BY <2>17, <3>1, Games DEF Sane, Live
  <2>19. Single(rs)
    BY <1>1, <2>13, <2>14 DEF Single
  <2>20. Tied(rs, matches')
    <3> SUFFICES ASSUME NEW k \in DOMAIN rounds, NEW z \in rs[k], z.match # 0
                 PROVE  /\ matches'[z.match].status # "unborn"
                        /\ z.result = "open" =>
                             /\ matches'[z.match].status \in Active /\ ~matches'[z.match].late
                             /\ matches'[z.match].round = k
                             /\ {matches'[z.match].a, matches'[z.match].b} = {z.a, z.b}
                        /\ z.result # "open" /\ matches'[z.match].status = "finished"
                           /\ ~matches'[z.match].late /\ matches'[z.match].winner # Nobody =>
                             Winner(z) = matches'[z.match].winner
      BY <2>13 DEF Tied
    <3>1. z \in rounds[k] /\ (k = r => z \notin mine)
      BY <2>14
    <3>2. /\ matches[z.match].status # "unborn"
          /\ z.result = "open" =>
               /\ matches[z.match].status \in Active /\ ~matches[z.match].late
               /\ matches[z.match].round = k
               /\ {matches[z.match].a, matches[z.match].b} = {z.a, z.b}
          /\ z.result # "open" /\ matches[z.match].status = "finished"
             /\ ~matches[z.match].late /\ matches[z.match].winner # Nobody =>
               Winner(z) = matches[z.match].winner
      BY <1>1, <3>1 DEF Tied
    <3>3. CASE z.match # i
      <4>1. z.match \in DOMAIN matches
        BY <1>1, <3>1, MatchThere
      <4>2. matches'[z.match] = matches[z.match]
        BY <3>3, <4>1, <2>16
      <4> QED BY <3>2, <4>2
    <3>4. CASE z.match = i
      <4>1. z.result # "open"
        <5> SUFFICES ASSUME z.result = "open" PROVE FALSE
          OBVIOUS
        <5>1. k = r /\ {m.a, m.b} = {z.a, z.b}
          BY <3>2, <3>4
        <5>2. Sits(m.a, z)
          BY <5>1 DEF Sits
        <5> QED BY <2>5, <3>1, <5>1, <5>2
      <4> QED BY <2>16, <2>17, <3>4, <4>1
    <3> QED BY <3>3, <3>4
  <2>21. Owns(rs, matches')
    <3> SUFFICES ASSUME NEW j \in DOMAIN matches, Live(matches'[j])
                 PROVE  Owned(rs, matches', j)
      BY <2>16 DEF Owns
    <3>1. j # i /\ matches'[j] = matches[j]
      BY <2>16, <2>17 DEF Live
    <3>2. Owned(rounds, matches, j)
      BY <1>1, <3>1 DEF Owns
    <3>3. PICK z \in rounds[matches[j].round] :
            /\ z.match = j /\ {z.a, z.b} = {matches[j].a, matches[j].b}
            /\ matches[j].status \in Active /\ ~matches[j].late => z.result = "open"
      BY <3>2 DEF Owned
    <3>4. z # own
      BY <2>3, <3>1, <3>3
    <3>5. matches[j].round \in DOMAIN rs /\ z \in rs[matches[j].round]
      BY <2>13, <2>15, <3>2, <3>4 DEF Owned
    <3> QED BY <3>1, <3>3, <3>5 DEF Owned
  <2>22. Bonds(rounds', matches') /\ Good(rounds') /\ Continues(rounds, rounds')
    BY <2>7, <2>12, <2>19, <2>20, <2>21 DEF Bonds
  <2>23. Matched'
    <3>1. \A j \in DOMAIN matches' : matches'[j] \in Match /\ Sane(matches'[j])
      BY <1>1, <2>16, <2>17, <2>18
    <3>2. matches' \in [1..MaxMatches -> Match]
      BY <1>1, <2>1, <2>17
    <3> QED BY <3>1, <3>2 DEF Matched
  <2>24. Phase' /\ Dated'
    <3>1. rounds' # <<>> /\ rounds # <<>> /\ DOMAIN rounds' = DOMAIN rounds
      BY <2>2, <2>7, <2>13
    <3> QED BY <1>2, <3>1 DEF Phase, Dated, IInv
  <2>25. Good(rounds)' /\ Bonds(rounds, matches)'
    BY <2>22
  <2> QED BY <2>22, <2>23, <2>24, <2>25 DEF Proceeds, IInv
<1> QED BY <1>3, <1>4

(***************************************************************************)
(* The invariant is inductive.                                             *)
(***************************************************************************)

LEMMA AtFirst == Init => IInv
<1> SUFFICES ASSUME Init PROVE IInv
  OBVIOUS
<1>1. rounds = <<>> /\ deadlines = {} /\ status = "open"
      /\ matches = [m \in 1..MaxMatches |-> Unborn]
  BY DEF Init
<1>2. Good(rounds)
  BY <1>1 DEF Good, InTurn, NoRematch
<1>3. \A i \in DOMAIN matches : matches[i] = Unborn /\ Unborn.status = "unborn"
  BY <1>1 DEF Unborn
<1>4. Bonds(rounds, matches)
  <2>1. Single(rounds) /\ Tied(rounds, matches)
    BY <1>1 DEF Single, Tied
  <2>2. Owns(rounds, matches)
    BY <1>3 DEF Owns, Live
  <2> QED BY <2>1, <2>2 DEF Bonds
<1>5. Matched
  <2>1. Sane(Unborn)
    <3>1. Unborn.wins.a = 0 /\ Unborn.wins.b = 0 /\ Unborn.status = "unborn"
          /\ Unborn.game = "none" /\ Unborn.late = FALSE
      BY DEF Unborn
    <3> QED BY <3>1, Games DEF Sane, Live
  <2> QED BY <1>1, <2>1, UnbornMatch DEF Matched
<1>6. Phase /\ Dated
  BY <1>1 DEF Phase, Dated
<1> QED BY <1>2, <1>4, <1>5, <1>6 DEF IInv

LEMMA TableStepKeeps ==
  ASSUME IInv, TableStep
  PROVE  Proceeds
<1>p. status \in {"open", "started", "playing", "finished", "gone"}
  BY DEF IInv, Phase
<1>1. ASSUME Join PROVE Proceeds
  <2>1. UNCHANGED <<rounds, matches, status, deadlines>>
    BY <1>1 DEF Join, play
  <2>2. Phase'
    BY <2>1 DEF IInv, Phase
  <2> QED BY <2>1, <2>2, Untouched
<1>2. ASSUME StartDraft PROVE Proceeds
  BY <1>2, PlayPhase DEF StartDraft
<1>3. ASSUME StartSealed PROVE Proceeds
  BY <1>3, PlayPhase DEF StartSealed
<1>4. ASSUME Cancel PROVE Proceeds
  <2>1. UNCHANGED <<rounds, matches, deadlines>>
    BY <1>4 DEF Cancel, play
  <2>2. Phase'
    BY <1>4, <2>1 DEF IInv, Phase, Cancel
  <2> QED BY <2>1, <2>2, Untouched
<1>5. ASSUME NEW s \in Seats, Leave(s) \/ RemoveDeck(s) PROVE Proceeds
  <2>1. UNCHANGED <<rounds, matches, status, deadlines>>
    BY <1>5 DEF Leave, RemoveDeck, play
  <2>2. Phase'
    BY <2>1 DEF IInv, Phase
  <2> QED BY <2>1, <2>2, Untouched
<1>6. ASSUME NEW s \in Seats, SubmitPick(s) PROVE Proceeds
  BY <1>6, PlayPhase DEF SubmitPick
<1>7. ASSUME NEW s \in Seats, SubmitDeck(s) PROVE Proceeds
  BY <1>7, PlayPhase DEF SubmitDeck
<1>8. ASSUME NEW s \in Seats, DropBeforePlay(s) PROVE Proceeds
  BY <1>8, PlayPhase DEF DropBeforePlay
<1>9. ASSUME NEW s \in Seats, DropInPlay(s) PROVE Proceeds
  BY <1>9, DropInPlayKeeps
<1> QED BY <1>1, <1>2, <1>3, <1>4, <1>5, <1>6, <1>7, <1>8, <1>9 DEF TableStep

LEMMA MatchStepKeeps ==
  ASSUME IInv, MatchStep
  PROVE  Proceeds
BY StartPairingMatchKeeps, JoinGameKeeps, ChooseFirstPlayerKeeps, NextGameKeeps,
   DrawGameKeeps, LeaveGameKeeps, WinGameKeeps, ForfeitMatchKeeps DEF MatchStep

LEMMA ScheduledKeeps ==
  ASSUME IInv, Scheduled
  PROVE  Proceeds
<1>1. ASSUME NEW t \in draft.timers, AutoPickSeatTimeout(t) PROVE Proceeds
  <2>1. CASE InDate(t)
    BY <1>1, <2>1, PlayPhase DEF AutoPickSeatTimeout
  <2>2. CASE ~InDate(t)
    <3>1. UNCHANGED <<rounds, matches, status, deadlines>>
      BY <1>1, <2>2 DEF AutoPickSeatTimeout, play
    <3>2. Phase'
      BY <3>1 DEF IInv, Phase
    <3> QED BY <3>1, <3>2, Untouched
  <2> QED BY <2>1, <2>2
<1> QED BY <1>1, ExpireRoundDeadlineKeeps DEF Scheduled

LEMMA StepProceeds ==
  ASSUME IInv, [Next]_vars
  PROVE  Proceeds
<1>1. CASE UNCHANGED vars
  <2>1. UNCHANGED <<rounds, matches, status, deadlines>>
    BY <1>1 DEF vars
  <2>2. Phase'
    BY <2>1 DEF IInv, Phase
  <2> QED BY <2>1, <2>2, Untouched
<1>2. CASE Next
  BY <1>2, TableStepKeeps, MatchStepKeeps, ScheduledKeeps, NudgeEventRoundsKeeps DEF Next
<1> QED BY <1>1, <1>2

LEMMA Inductive == Spec => []IInv
<1>1. IInv /\ [Next]_vars => IInv'
  BY StepProceeds DEF Proceeds
<1> QED BY AtFirst, <1>1, PTL DEF Spec

(***************************************************************************)
(* What follows.                                                           *)
(***************************************************************************)

(* A pairing that is open and bound to a match waits for one under way between
   its seats, and a match under way is the one its pairing waits for, unless it
   was joined when it was over: whatever the people at the table do, whenever a
   deadline fires and however many matches are started. *)
THEOREM HoldOn == Spec => []BoundToItsMatch
<1>1. IInv => BoundToItsMatch
  <2> SUFFICES ASSUME IInv PROVE BoundToItsMatch
    OBVIOUS
  <2>1. Tied(rounds, matches) /\ Owns(rounds, matches)
    BY DEF IInv, Bonds
  <2>2. \A r \in DOMAIN rounds : \A p \in rounds[r] : p.result = "open" /\ p.match # 0 =>
          /\ matches[p.match].status \in Active /\ ~matches[p.match].late
          /\ matches[p.match].round = r
          /\ {matches[p.match].a, matches[p.match].b} = {p.a, p.b}
    BY <2>1 DEF Tied
  <2>3. \A i \in DOMAIN matches : matches[i].status \in Active /\ ~matches[i].late =>
          \E p \in rounds[matches[i].round] : p.match = i /\ p.result = "open"
    BY <2>1 DEF Owns, Owned, Live, Active
  <2> QED BY <2>2, <2>3 DEF BoundToItsMatch
<1> QED BY <1>1, Inductive, PTL

(* The standings and a match that is over agree on who won, whoever decided
   it. *)
THEOREM AgreeOnWinner == Spec => []WinnerAgrees
<1>1. IInv => WinnerAgrees
  BY DEF IInv, Bonds, Tied, WinnerAgrees
<1> QED BY <1>1, Inductive, PTL

(* A round is read as the ledger reads it. *)
LEMMA LedgerFair ==
  ASSUME NEW rs, Good(rs)
  PROVE  Ledger!Fair([r \in DOMAIN rs |->
           { [a |-> p.a, b |-> p.b, result |-> p.result] : p \in rs[r] }])
<1> DEFINE e(p) == [a |-> p.a, b |-> p.b, result |-> p.result]
           l == [r \in DOMAIN rs |-> { e(p) : p \in rs[r] }]
<1>1. /\ rs \in Seq(SUBSET Pairing) /\ InTurn(rs) /\ NoRematch(rs)
      /\ \A i \in DOMAIN rs : Seated(rs[i])
  BY DEF Good
<1>2. DOMAIN l = DOMAIN rs /\ DOMAIN rs = 1..Len(rs) /\ Len(l) = Len(rs)
  BY <1>1
<1>3. \A i \in DOMAIN rs : \A x \in l[i] : \E p \in rs[i] :
        x = e(p) /\ x.a = p.a /\ x.b = p.b /\ x.result = p.result
  OBVIOUS
<1>4. \A i \in DOMAIN rs : \A p \in rs[i] :
        e(p) \in l[i] /\ e(p).a = p.a /\ e(p).b = p.b /\ e(p).result = p.result
  OBVIOUS
<1> HIDE DEF l, e
<1>5. Ledger!InOrder(l)
  <2> SUFFICES ASSUME NEW i \in DOMAIN rs, i < Len(rs), NEW x \in l[i]
               PROVE  x.result # "open"
    BY <1>2 DEF Ledger!InOrder, Ledger!Settled
  <2> QED BY <1>1, <1>3 DEF InTurn, Complete
<1>6. Ledger!NewMeetings(l)
  <2> SUFFICES ASSUME NEW i \in DOMAIN rs, NEW j \in DOMAIN rs,
                      NEW x \in l[i], NEW y \in l[j],
                      x.b # 0, {x.a, x.b} = {y.a, y.b}
               PROVE  i = j
    BY <1>2 DEF Ledger!NewMeetings, Ledger!Meets
  <2>1. PICK p \in rs[i] : x.a = p.a /\ x.b = p.b
    BY <1>3
  <2>2. PICK q \in rs[j] : y.a = q.a /\ y.b = q.b
    BY <1>3
  <2> QED BY <1>1, <2>1, <2>2 DEF NoRematch, Nobody
<1>7. ASSUME NEW i \in DOMAIN rs PROVE Ledger!SeatsAll(l[i])
  <2>1. \A s \in Seats : \E x \in l[i] : Ledger!Sits(s, x)
    BY <1>1, <1>4 DEF Seated, Sits, Ledger!Sits
  <2>2. ASSUME NEW x \in l[i], NEW y \in l[i], NEW s \in Seats,
               Ledger!Sits(s, x), Ledger!Sits(s, y)
        PROVE  x = y
    <3>1. PICK p \in rs[i] : x = e(p) /\ x.a = p.a /\ x.b = p.b
      BY <1>3
    <3>2. PICK q \in rs[i] : y = e(q) /\ y.a = q.a /\ y.b = q.b
      BY <1>3
    <3>3. p = q
      BY <1>1, <2>2, <3>1, <3>2 DEF Seated, Sits, Ledger!Sits
    <3> QED BY <3>1, <3>2, <3>3
  <2> QED BY <2>1, <2>2 DEF Ledger!SeatsAll
<1>8. Ledger!Fair(l)
  BY <1>2, <1>5, <1>6, <1>7 DEF Ledger!Fair
<1> QED BY <1>8 DEF l, e

LEMMA LedgerExtends ==
  ASSUME NEW rs, NEW new, Good(rs), Good(new), Continues(rs, new)
  PROVE  Ledger!Extends(
    [r \in DOMAIN rs |-> { [a |-> p.a, b |-> p.b, result |-> p.result] : p \in rs[r] }],
    [r \in DOMAIN new |-> { [a |-> p.a, b |-> p.b, result |-> p.result] : p \in new[r] }])
<1> DEFINE e(p) == [a |-> p.a, b |-> p.b, result |-> p.result]
           l == [r \in DOMAIN rs |-> { e(p) : p \in rs[r] }]
           k == [r \in DOMAIN new |-> { e(p) : p \in new[r] }]
<1>1. rs \in Seq(SUBSET Pairing) /\ new \in Seq(SUBSET Pairing)
  BY DEF Good
<1>2. DOMAIN l = DOMAIN rs /\ Len(l) = Len(rs) /\ DOMAIN k = DOMAIN new /\ Len(k) = Len(new)
  BY <1>1
<1>3. ASSUME NEW i \in DOMAIN rs
      PROVE  i \in DOMAIN new /\ Ledger!Keeps(l[i], k[i])
  <2>1. i \in DOMAIN new /\ \A p \in rs[i] : \E q \in new[i] : Kept(p, q)
    BY DEF Continues
  <2>2. \A x \in l[i] : \E p \in rs[i] : x.a = p.a /\ x.b = p.b /\ x.result = p.result
    OBVIOUS
  <2>3. \A q \in new[i] : e(q) \in k[i] /\ e(q).a = q.a /\ e(q).b = q.b /\ e(q).result = q.result
    BY <2>1
  <2> HIDE DEF l, k, e
  <2> SUFFICES ASSUME NEW x \in l[i]
               PROVE  \E y \in k[i] : x.a = y.a /\ x.b = y.b
                                      /\ (x.result # "open" => x.result = y.result)
    BY <2>1 DEF Ledger!Keeps
  <2>4. PICK p \in rs[i] : x.a = p.a /\ x.b = p.b /\ x.result = p.result
    BY <2>2
  <2>5. PICK q \in new[i] : Kept(p, q)
    BY <2>1
  <2> QED BY <2>3, <2>4, <2>5 DEF Kept
<1> HIDE DEF l, k
<1>4. Ledger!Extends(l, k)
  BY <1>2, <1>3 DEF Ledger!Extends, Continues
<1> QED BY <1>4 DEF l, k

(* The rounds keep the ledger: a round opens after every earlier one is decided,
   seats everyone once and repeats no meeting, and what was decided stays, though
   players, drops, deadlines, forfeits and the retries of a failed cascade decide
   pairings in any order. *)
THEOREM KeepsTheLedger == Spec => KeepsLedger
<1> DEFINE l == [r \in DOMAIN rounds |->
                  { [a |-> p.a, b |-> p.b, result |-> p.result] : p \in rounds[r] }]
<1>1. Init => Ledger!Init
  <2> SUFFICES ASSUME Init PROVE l = <<>>
    BY DEF Ledger!Init
  <2>1. rounds = <<>>
    BY DEF Init
  <2> QED BY <2>1
<1>2. IInv /\ [Next]_vars => [Ledger!Next]_l
  <2> SUFFICES ASSUME IInv, [Next]_vars PROVE Ledger!Next
    OBVIOUS
  <2>1. Good(rounds) /\ Good(rounds') /\ Continues(rounds, rounds')
    BY StepProceeds DEF Proceeds, IInv
  <2>2. Ledger!Fair(l')
    BY <2>1, LedgerFair
  <2>3. Ledger!Extends(l, l')
    BY <2>1, LedgerExtends
  <2> QED BY <2>2, <2>3 DEF Ledger!Next
<1> QED BY <1>1, <1>2, Inductive, PTL DEF Spec, KeepsLedger, Ledger!Spec

(***************************************************************************)
(* The table.                                                              *)
(***************************************************************************)

(* A draft that nobody picks from any more may have ended or have been cut
   short. *)
AtTable ==
  /\ people \subseteq Seats /\ dropped \subseteq people /\ decks \subseteq Seats
  /\ status \in {"open", "gone"} => draft = NoDraft /\ dropped = {}
  /\ status = "started" => Going(draft, AutoDriven) /\ Quiet(draft, AutoDriven)
  /\ status = "playing" => Full(draft)
  /\ status = "finished" => Full(draft) \/ (Tabled(draft) /\ Numbered(draft, {}))
  /\ NobodyLeftWaiting

LEMMA Driven ==
  ASSUME AtTable
  PROVE  AutoDriven \in SUBSET Seats
BY DEF AtTable, AutoDriven, Bots

LEMMA GoingEnded ==
  ASSUME NEW d, NEW auto, Going(d, auto)
  PROVE  /\ d.done \in BOOLEAN
         /\ d.done => Full(d)
         /\ ~d.done => Dealing(d, auto)
BY DEF Going, Full, Dealing, Tabled, Typed, Draft

(* The play phase opens, or somebody is still to pick or to hand in a deck. *)
LEMMA TableOpens ==
  ASSUME NEW phase \in {"open", "started"}, NEW submitted \in SUBSET Seats,
         OpenPlayPhaseIfReady(phase, submitted),
         people' \subseteq Seats, dropped' \subseteq people',
         phase = "open" => draft' = NoDraft /\ dropped' = {},
         phase = "started" => Going(draft', AutoDriven') /\ Quiet(draft', AutoDriven')
  PROVE  AtTable'
<1>1. CASE phase = "started" /\ Ready(draft', submitted, AutoDriven')
  <2>1. Full(draft')
    BY <1>1, GoingEnded DEF Ready
  <2>2. status' \in {"playing", "finished"} /\ decks' = {}
    BY <1>1 DEF OpenPlayPhaseIfReady
  <2> QED BY <2>1, <2>2 DEF AtTable, NobodyLeftWaiting
<1>2. CASE ~(phase = "started" /\ Ready(draft', submitted, AutoDriven'))
  <2>1. status' = phase /\ decks' = submitted
    BY <1>2 DEF OpenPlayPhaseIfReady
  <2>2. NobodyLeftWaiting'
    BY <1>2, <2>1 DEF NobodyLeftWaiting
  <2> QED BY <2>1, <2>2 DEF AtTable
<1> QED BY <1>1, <1>2

(* Nothing happens at the table while matches are played. *)
LEMMA TableRests ==
  ASSUME AtTable, UNCHANGED table,
         status' = status \/ (status = "playing" /\ status' = "finished")
  PROVE  AtTable'
<1>1. people' = people /\ dropped' = dropped /\ decks' = decks /\ draft' = draft
  BY DEF table
<1>2. AutoDriven' = AutoDriven
  BY <1>1 DEF AutoDriven, Bots
<1>3. NobodyLeftWaiting'
  BY <1>1, <1>2 DEF AtTable, NobodyLeftWaiting
<1> QED BY <1>1, <1>2, <1>3 DEF AtTable

(***************************************************************************)
(* What people and timeouts do to the table.                               *)
(***************************************************************************)

LEMMA JoinSeats ==
  ASSUME AtTable, Join
  PROVE  AtTable'
<1>1. status = "open" /\ status' = "open" /\ UNCHANGED <<dropped, decks, draft>>
      /\ people' = people \cup {Min(Seats \ people)}
  BY DEF Join
<1>2. Min(Seats \ people) \in Seats
  <2>1. Seats \ people \in SUBSET Seats /\ Seats \ people # {}
    BY DEF Join, AtTable
  <2> QED BY <2>1, MinOf
<1>3. NobodyLeftWaiting'
  BY <1>1 DEF NobodyLeftWaiting
<1> QED BY <1>1, <1>2, <1>3 DEF AtTable

LEMMA LeaveSeats ==
  ASSUME AtTable, NEW s \in Seats, Leave(s)
  PROVE  AtTable'
<1>1. status = "open" /\ status' = "open" /\ UNCHANGED <<dropped, decks, draft>>
      /\ people' = people \ {s}
  BY DEF Leave
<1>2. NobodyLeftWaiting'
  BY <1>1 DEF NobodyLeftWaiting
<1> QED BY <1>1, <1>2 DEF AtTable

LEMMA StartDraftSeats ==
  ASSUME AtTable, StartDraft
  PROVE  AtTable'
<1>1. dropped' = {} /\ people' \subseteq Seats /\ decks \in SUBSET Seats
      /\ OpenPlayPhaseIfReady("started", decks)
  BY DEF StartDraft, AtTable
<1>2. PICK timed \in BOOLEAN : draft' = Started(timed, Bots')
  BY DEF StartDraft
<1>3. AutoDriven' = Bots' /\ Bots' \in SUBSET Seats
  BY <1>1 DEF AutoDriven, Bots
<1>4. Going(draft', AutoDriven') /\ Quiet(draft', AutoDriven')
  BY <1>2, <1>3, StartedKeeps
<1> QED BY <1>1, <1>4, TableOpens

LEMMA StartSealedSeats ==
  ASSUME AtTable, StartSealed
  PROVE  AtTable'
<1>1. dropped' = {} /\ people' = people /\ people \subseteq Seats /\ decks \in SUBSET Seats
      /\ draft' = Sealed /\ OpenPlayPhaseIfReady("started", decks)
  BY DEF StartSealed, AtTable
<1> DEFINE p == [s \in Seats |-> FullPool]
<1>2. p \in [Seats -> 0..FullPool] /\ \A s \in Seats : p[s] = FullPool
  BY PackAssumption DEF FullPool
<1>3. Sealed = Final(p)
  BY DEF Sealed
<1> HIDE DEF p
<1>4. Full(Sealed)
  BY <1>2, <1>3, FinalFull
<1>5. Going(draft', AutoDriven') /\ Quiet(draft', AutoDriven')
  BY <1>1, <1>4 DEF Going, Quiet, Full
<1> QED BY <1>1, <1>5, TableOpens

LEMMA SubmitPickSeats ==
  ASSUME AtTable, NEW s \in Seats, SubmitPick(s)
  PROVE  AtTable'
<1> DEFINE auto == AutoDriven
           e == Picked(draft, s, auto)
<1>1. /\ status = "started" /\ ~draft.done /\ draft.hand[s] # <<>>
      /\ draft' = BotsPicked(e, auto)
      /\ people' = people /\ dropped' = dropped /\ decks \in SUBSET Seats
      /\ people \subseteq Seats /\ dropped \subseteq people
      /\ OpenPlayPhaseIfReady(status, decks)
  BY DEF SubmitPick, AtTable
<1>2. AutoDriven' = auto /\ auto \in SUBSET Seats
  BY <1>1, Driven DEF AutoDriven, Bots
<1> HIDE DEF auto
<1>3. Dealing(draft, auto)
  BY <1>1, GoingEnded DEF AtTable, auto
<1>4. Tabled(draft) /\ Numbered(draft, {}) /\ TimedBut(draft, auto, {s})
  BY <1>3 DEF Dealing, Clocked, TimedBut
<1>5. Going(e, auto)
  BY <1>1, <1>4, PickedKeeps
<1> HIDE DEF e
<1>6. Going(draft', AutoDriven') /\ Quiet(draft', AutoDriven')
  BY <1>1, <1>2, <1>5, BotsPickedKeeps
<1> QED BY <1>1, <1>6, TableOpens

(* A timeout is spent: apart from it the draft is the same. *)
Spent(d, t) == [d EXCEPT !.timers = @ \ {t}]

LEMMA SpentKeeps ==
  ASSUME NEW d, NEW t
  PROVE  /\ Full(d) => Full(Spent(d, t))
         /\ Tabled(d) /\ Numbered(d, {}) =>
              /\ Tabled(Spent(d, t)) /\ Numbered(Spent(d, t), {})
              /\ Alike(d, Spent(d, t)) /\ Spent(d, t).seq = d.seq
              /\ Spent(d, t).timers = d.timers \ {t}
<1> DEFINE ts == d.timers \ {t}
           e == [d EXCEPT !.timers = ts]
<1>1. Spent(d, t) = e
  BY DEF Spent
<1>2. ASSUME Full(d) PROVE Full(e)
  <2>1. d \in Draft /\ d.timers \in SUBSET Timer
    BY <1>2 DEF Full, Draft
  <2>2. ts \in SUBSET Timer
    BY <2>1
  <2> HIDE DEF ts
  <2>3. e \in Draft /\ e.done = d.done /\ e.pool = d.pool
    BY <2>1, <2>2 DEF Draft
  <2> QED BY <1>2, <2>3 DEF Full
<1>3. ASSUME Tabled(d), Numbered(d, {})
      PROVE  Tabled(e) /\ Numbered(e, {}) /\ Alike(d, e) /\ e.seq = d.seq /\ e.timers = ts
  <2>1. Shape(d) /\ d.timers \subseteq Timer
    BY <1>3 DEF Tabled, Typed, Numbered
  <2>2. ts \subseteq Timer
    BY <2>1
  <2> HIDE DEF ts
  <2>3. Shape(e) /\ Alike(d, e) /\ e.seq = d.seq /\ e.timers = ts
    BY <2>1 DEF Shape, Alike
  <2> HIDE DEF e
  <2>4. Tabled(e)
    BY <1>3, <2>3, AlikeTabled
  <2>5. Numbered(e, {})
    BY <1>3, <2>2, <2>3 DEF Numbered, Alike
  <2> QED BY <2>3, <2>4, <2>5
<1> QED BY <1>1, <1>2, <1>3

LEMMA TimeoutSeats ==
  ASSUME AtTable, NEW t \in draft.timers, AutoPickSeatTimeout(t),
         status \in {"open", "started", "playing", "finished", "gone"}
  PROVE  AtTable'
<1> DEFINE auto == AutoDriven
           d == Spent(draft, t)
           e == Picked(d, t.seat, auto)
<1>1. /\ people' = people /\ dropped' = dropped /\ decks \in SUBSET Seats
      /\ people \subseteq Seats /\ dropped \subseteq people
      /\ draft' = IF InDate(t) THEN BotsPicked(e, auto) ELSE d
      /\ IF InDate(t) THEN OpenPlayPhaseIfReady(status, decks)
         ELSE UNCHANGED <<status, decks, play>>
  BY DEF AutoPickSeatTimeout, AtTable, Spent
<1>2. AutoDriven' = auto /\ auto \in SUBSET Seats
  BY <1>1, Driven DEF AutoDriven, Bots
<1>3. CASE InDate(t)
  <2>1. /\ status = "started" /\ ~draft.done /\ t.seat \notin auto
        /\ draft.hand[t.seat] # <<>>
    BY <1>3 DEF InDate
  <2>2. Dealing(draft, auto)
    BY <2>1, GoingEnded DEF AtTable
  <2> HIDE DEF auto
  <2>3. /\ Tabled(d) /\ Numbered(d, {}) /\ Alike(draft, d) /\ d.seq = draft.seq
        /\ d.timers = draft.timers \ {t}
    BY <2>2, SpentKeeps DEF Dealing, Clocked
  <2>4. t.seat \in Seats
    BY <2>2 DEF Dealing, Clocked, Numbered, Timer
  <2> HIDE DEF d
  <2>5. TimedBut(d, auto, {t.seat})
    <3>1. TimedBut(draft, auto, {})
      BY <2>2 DEF Dealing, Clocked
    <3>2. \A s \in Seats : s # t.seat => [seat |-> s, seq |-> d.seq[s]] # t
      OBVIOUS
    <3> QED BY <2>3, <3>1, <3>2 DEF TimedBut, Alike
  <2>6. d.hand[t.seat] # <<>>
    BY <2>1, <2>3 DEF Alike
  <2>7. Going(e, auto)
    BY <2>3, <2>4, <2>5, <2>6, PickedKeeps
  <2> HIDE DEF e
  <2>8. Going(draft', AutoDriven') /\ Quiet(draft', AutoDriven')
    BY <1>1, <1>2, <1>3, <2>7, BotsPickedKeeps
  <2> QED BY <1>1, <1>3, <2>1, <2>8, TableOpens
<1>4. CASE ~InDate(t)
  <2>1. status' = status /\ decks' = decks /\ draft' = d
    BY <1>1, <1>4
  <2>2. CASE status \in {"open", "gone"}
    <3>1. draft.timers = {}
      BY <2>2 DEF AtTable, NoDraft
    <3> QED BY <3>1
  <2>3. CASE status \in {"playing", "finished"}
    <3>1. Full(draft) \/ (status = "finished" /\ Tabled(draft) /\ Numbered(draft, {}))
      BY <2>3 DEF AtTable
    <3>2. Full(d) \/ (status = "finished" /\ Tabled(d) /\ Numbered(d, {}))
      BY <3>1, SpentKeeps
    <3> HIDE DEF d
    <3> QED BY <1>1, <2>1, <2>3, <3>2 DEF AtTable, NobodyLeftWaiting
  <2>4. CASE status = "started"
    <3>1. Going(draft, auto) /\ Quiet(draft, auto) /\ ~Ready(draft, decks, auto)
      BY <2>4 DEF AtTable, NobodyLeftWaiting
    <3> HIDE DEF auto
    <3>2. Going(d, auto) /\ Quiet(d, auto) /\ d.done = draft.done
      <4>1. CASE draft.done
        <5>1. Full(draft)
          BY <3>1, <4>1, GoingEnded
        <5>2. Full(d)
          BY <5>1, SpentKeeps
        <5>3. d.done = TRUE /\ draft.done = TRUE
          BY <5>1, <5>2 DEF Full, Draft
        <5> QED BY <5>2, <5>3 DEF Going, Quiet
      <4>2. CASE ~draft.done
        <5>1. Dealing(draft, auto)
          BY <3>1, <4>2, GoingEnded
        <5>2. /\ Tabled(d) /\ Numbered(d, {}) /\ Alike(draft, d) /\ d.seq = draft.seq
              /\ d.timers = draft.timers \ {t}
          BY <5>1, SpentKeeps DEF Dealing, Clocked
        <5> HIDE DEF d
        <5>3. TimedBut(d, auto, {})
          <6> SUFFICES ASSUME d.timed, NEW s \in Seats, s \notin auto, d.hand[s] # <<>>
                       PROVE  [seat |-> s, seq |-> d.seq[s]] \in d.timers
            BY DEF TimedBut
          <6>1. [seat |-> s, seq |-> draft.seq[s]] \in draft.timers
            BY <5>1, <5>2 DEF Dealing, Clocked, TimedBut, Alike
          <6>2. [seat |-> s, seq |-> draft.seq[s]] # t
            BY <1>4, <2>4, <4>2, <5>2 DEF InDate, Alike, auto
          <6> QED BY <5>2, <6>1, <6>2
        <5>4. Dealing(d, auto)
          BY <5>1, <5>2, <5>3 DEF Dealing, Clocked, Alike
        <5> QED BY <3>1, <5>2, <5>4 DEF Going, Quiet, Alike
      <4> QED BY <4>1, <4>2
    <3> HIDE DEF d
    <3>3. NobodyLeftWaiting'
      BY <1>2, <2>1, <3>1, <3>2 DEF NobodyLeftWaiting, Ready
    <3> QED BY <1>1, <1>2, <2>1, <2>4, <3>2, <3>3 DEF AtTable
  <2> QED BY <2>2, <2>3, <2>4
<1> QED BY <1>3, <1>4

LEMMA DecksSeats ==
  ASSUME AtTable, NEW s \in Seats, SubmitDeck(s) \/ RemoveDeck(s)
  PROVE  AtTable'
<1>1. /\ people' = people /\ dropped' = dropped /\ draft' = draft
      /\ people \subseteq Seats /\ dropped \subseteq people /\ decks \in SUBSET Seats
      /\ status \in {"open", "started"}
      /\ \/ OpenPlayPhaseIfReady(status, decks \cup {s})
         \/ status' = status /\ decks' = decks \ {s}
  BY DEF SubmitDeck, RemoveDeck, AtTable
<1>2. AutoDriven' = AutoDriven
  BY <1>1 DEF AutoDriven, Bots
<1>3. /\ status = "open" => draft' = NoDraft /\ dropped' = {}
      /\ status = "started" => Going(draft', AutoDriven') /\ Quiet(draft', AutoDriven')
  BY <1>1, <1>2 DEF AtTable
<1>4. CASE OpenPlayPhaseIfReady(status, decks \cup {s})
  <2>1. decks \cup {s} \in SUBSET Seats
    BY <1>1
  <2> QED BY <1>1, <1>3, <1>4, <2>1, TableOpens
<1>5. CASE status' = status /\ decks' = decks \ {s}
  <2>1. NobodyLeftWaiting'
    BY <1>1, <1>2, <1>5 DEF AtTable, NobodyLeftWaiting, Ready
  <2> QED BY <1>1, <1>3, <1>5, <2>1 DEF AtTable
<1> QED BY <1>1, <1>4, <1>5

LEMMA CancelSeats ==
  ASSUME AtTable, Cancel
  PROVE  AtTable'
<1>1. /\ people' = people /\ dropped' = dropped /\ decks' = decks /\ draft' = draft
      /\ status \in {"open", "started", "playing"}
      /\ status' = IF status = "open" THEN "gone" ELSE "finished"
  BY DEF Cancel, table
<1>2. status # "open" => Full(draft) \/ (Tabled(draft) /\ Numbered(draft, {}))
  BY <1>1 DEF AtTable, Going, Dealing, Clocked
<1> QED BY <1>1, <1>2 DEF AtTable, NobodyLeftWaiting

LEMMA DropSeats ==
  ASSUME AtTable, NEW s \in Seats, DropBeforePlay(s)
  PROVE  AtTable'
<1> DEFINE auto == AutoDriven'
<1>1. /\ status = "started" /\ people' = people /\ dropped' = dropped \cup {s}
      /\ s \in people /\ people \subseteq Seats /\ dropped \subseteq people
      /\ decks \in SUBSET Seats
      /\ draft' = IF draft.done THEN draft ELSE BotsPicked(draft, auto)
      /\ OpenPlayPhaseIfReady(status, decks)
  BY DEF DropBeforePlay, AtTable
<1>2. AutoDriven \subseteq auto /\ auto \in SUBSET Seats
  BY <1>1 DEF AutoDriven, Bots
<1>3. Going(draft, AutoDriven)
  BY <1>1 DEF AtTable
<1>4. Going(draft, auto)
  <2> HIDE DEF auto
  <2> QED BY <1>2, <1>3 DEF Going, Dealing, Clocked, TimedBut
<1>5. Going(draft', auto) /\ Quiet(draft', auto)
  <2> HIDE DEF auto
  <2>1. CASE draft.done
    BY <1>1, <1>4, <2>1 DEF Quiet
  <2>2. CASE ~draft.done
    BY <1>1, <1>2, <1>4, <2>2, BotsPickedKeeps
  <2> QED BY <2>1, <2>2
<1> QED BY <1>1, <1>5, TableOpens

(***************************************************************************)
(* How many rounds there are.                                              *)
(***************************************************************************)
InBounds ==
  /\ Len(rounds) <= TotalRounds
  /\ undated \subseteq DOMAIN rounds
  /\ faults \in 0..MaxFaults

Listed(rs) == \E S : rs \in Seq(S)
(* The rounds stay as many, or they advance from as many. *)
Runs ==
  /\ \E rs : /\ Listed(rs) /\ Len(rs) = Len(rounds)
             /\ rounds' = rs \/ \E d, b : rounds' \in Cascaded(rs, d, b)
  /\ undated' = undated \/ (rounds' # <<>> /\ undated' \subseteq undated \cup {Len(rounds')})
  /\ faults' = faults \/ (faults < MaxFaults /\ faults' = faults + 1)

LEMMA GrownLength ==
  ASSUME NEW rs, NEW absent, NEW bots, NEW q \in Grown(rs, absent, bots),
         Listed(rs), Len(rs) <= TotalRounds
  PROVE  Listed(q) /\ Len(q) <= TotalRounds
<1>1. PICK S : rs \in Seq(S)
  BY DEF Listed
<1>2. TotalRounds \in 1..3
  BY DEF TotalRounds
<1>3. CASE q = rs
  BY <1>3
<1>4. ASSUME NEW round, q = Append(rs, round), rs = <<>> \/ Len(rs) < TotalRounds
      PROVE  Listed(q) /\ Len(q) <= TotalRounds
  <2>1. rs \in Seq(S \cup {round})
    BY <1>1
  <2>2. q \in Seq(S \cup {round}) /\ Len(q) = Len(rs) + 1 /\ Len(rs) \in Nat
    BY <1>4, <2>1
  <2>3. rs = <<>> => Len(rs) = 0
    OBVIOUS
  <2> QED BY <1>2, <1>4, <2>2, <2>3 DEF Listed
<1> QED BY <1>3, <1>4 DEF Grown

LEMMA CascadedLength ==
  ASSUME NEW rs, NEW absent, NEW bots, NEW q \in Cascaded(rs, absent, bots),
         Listed(rs), Len(rs) <= TotalRounds
  PROVE  Len(q) <= TotalRounds
<1>1. PICK x \in Grown(rs, absent, bots) :
        \E y \in Grown(x, absent, bots) : q \in Grown(y, absent, bots)
  BY DEF Cascaded
<1>2. PICK y \in Grown(x, absent, bots) : q \in Grown(y, absent, bots)
  BY <1>1
<1>3. Listed(x) /\ Len(x) <= TotalRounds
  BY GrownLength
<1>4. Listed(y) /\ Len(y) <= TotalRounds
  BY <1>3, GrownLength
<1> QED BY <1>2, <1>4, GrownLength

LEMMA RunsBounds ==
  ASSUME IInv, InBounds, Proceeds, Runs
  PROVE  InBounds'
<1>1. Len(rounds') <= TotalRounds
  BY CascadedLength DEF InBounds, Runs
<1>2. undated' \subseteq DOMAIN rounds'
  <2>1. DOMAIN rounds \subseteq DOMAIN rounds'
    BY DEF Proceeds, Continues
  <2>2. rounds' # <<>> => Len(rounds') \in DOMAIN rounds'
    BY DEF Proceeds, IInv, Good
  <2> QED BY <2>1, <2>2 DEF InBounds, Runs
<1>3. faults' \in 0..MaxFaults
  BY BoundAssumption DEF InBounds, Runs
<1> QED BY <1>1, <1>2, <1>3 DEF InBounds

LEMMA SameRuns ==
  ASSUME IInv, UNCHANGED <<rounds, undated, faults>>
  PROVE  Runs
<1>1. Listed(rounds)
  BY DEF IInv, Good, Listed
<1> QED BY <1>1 DEF Runs

(* One round is replaced, by no matter what. *)
LEMMA OneRound ==
  ASSUME IInv, NEW r, NEW round
  PROVE  LET rs == [rounds EXCEPT ![r] = round]
         IN Listed(rs) /\ Len(rs) = Len(rounds)
<1> DEFINE S == (SUBSET Pairing) \cup {round}
           rs == [rounds EXCEPT ![r] = round]
<1>1. rounds \in Seq(SUBSET Pairing)
  BY DEF IInv, Good
<1>2. rounds \in Seq(S) /\ round \in S
  BY <1>1
<1> HIDE DEF S
<1>3. Len(rounds) \in Nat /\ rounds \in [1..Len(rounds) -> S]
  BY <1>2
<1>4. rs \in [1..Len(rounds) -> S]
  BY <1>2, <1>3
<1> HIDE DEF rs
<1>5. rs \in Seq(S) /\ Len(rs) = Len(rounds)
  BY <1>3, <1>4
<1>6. Listed(rs) /\ Len(rs) = Len(rounds)
  BY <1>5 DEF Listed
<1> QED BY <1>6 DEF rs

(* The step that was shown to be one of the ways the rounds go on. *)
Onward(rs, pending) ==
  Advance(rs, pending) \/ Unadvanced(rs, pending) \/ Unscheduled(rs, pending)
PlaysOn == status' = status \/ (status = "playing" /\ status' = "finished")

LEMMA OnwardRuns ==
  ASSUME IInv, NEW rs, NEW pending, Listed(rs), Len(rs) = Len(rounds),
         Onward(rs, pending), status \in {"playing", "finished"}
  PROVE  Runs /\ PlaysOn
<1>1. CASE Advance(rs, pending)
  <2>1. /\ \E d, b : rounds' \in Cascaded(rs, d, b)
        /\ status' \in {status, "finished"} /\ undated' = undated /\ faults' = faults
    BY <1>1 DEF Advance
  <2> QED BY <2>1 DEF Runs, PlaysOn
<1>2. CASE Unadvanced(rs, pending)
  BY <1>2 DEF Unadvanced, Runs, PlaysOn
<1>3. CASE Unscheduled(rs, pending)
  <2>1. PICK new \in Cascaded(rs, dropped, Bots) :
          Due(rs, new) # {} /\ rounds' = new /\ undated' = undated \cup Due(rs, new)
    BY <1>3 DEF Unscheduled
  <2>2. faults < MaxFaults /\ faults' = faults + 1 /\ status' = status
    BY <1>3 DEF Unscheduled
  <2>3. Due(rs, new) = {Len(new)} /\ Len(new) > Len(rs)
    BY <2>1 DEF Due
  <2>4. new # <<>>
    <3>1. Len(rs) \in Nat
      BY DEF Listed
    <3>2. new = <<>> => Len(new) = 0
      OBVIOUS
    <3> QED BY <2>3, <3>1, <3>2
  <2> QED BY <2>1, <2>2, <2>3, <2>4 DEF Runs, PlaysOn
<1> QED BY <1>1, <1>2, <1>3 DEF Onward

LEMMA PlayPhaseRuns ==
  ASSUME IInv, NEW phase, NEW submitted, OpenPlayPhaseIfReady(phase, submitted),
         status \in {"open", "started"}
  PROVE  Runs
<1>1. CASE UNCHANGED <<rounds, undated, faults>>
  BY <1>1, SameRuns
<1>2. ASSUME NEW d, NEW b, rounds' \in Cascaded(<<>>, d, b), UNCHANGED <<undated, faults>>
      PROVE  Runs
  <2>1. rounds = <<>> /\ Listed(rounds)
    BY DEF IInv, Phase, Good, Listed
  <2> QED BY <1>2, <2>1 DEF Runs
<1> QED BY <1>1, <1>2 DEF OpenPlayPhaseIfReady, play

(***************************************************************************)
(* Every step.                                                             *)
(***************************************************************************)
LEMMA TableStepStays ==
  ASSUME IInv, AtTable, TableStep
  PROVE  AtTable' /\ Runs
<1>1. ASSUME Join PROVE AtTable' /\ Runs
  BY <1>1, JoinSeats, SameRuns DEF Join, play
<1>2. ASSUME StartDraft PROVE AtTable' /\ Runs
  BY <1>2, StartDraftSeats, PlayPhaseRuns DEF StartDraft
<1>3. ASSUME StartSealed PROVE AtTable' /\ Runs
  BY <1>3, StartSealedSeats, PlayPhaseRuns DEF StartSealed
<1>4. ASSUME Cancel PROVE AtTable' /\ Runs
  BY <1>4, CancelSeats, SameRuns DEF Cancel, play
<1>5. ASSUME NEW s \in Seats, Leave(s) PROVE AtTable' /\ Runs
  BY <1>5, LeaveSeats, SameRuns DEF Leave, play
<1>6. ASSUME NEW s \in Seats, SubmitPick(s) PROVE AtTable' /\ Runs
  BY <1>6, SubmitPickSeats, PlayPhaseRuns DEF SubmitPick
<1>7. ASSUME NEW s \in Seats, SubmitDeck(s) PROVE AtTable' /\ Runs
  BY <1>7, DecksSeats, PlayPhaseRuns DEF SubmitDeck
<1>8. ASSUME NEW s \in Seats, RemoveDeck(s) PROVE AtTable' /\ Runs
  BY <1>8, DecksSeats, SameRuns DEF RemoveDeck, play
<1>9. ASSUME NEW s \in Seats, DropBeforePlay(s) PROVE AtTable' /\ Runs
  BY <1>9, DropSeats, PlayPhaseRuns DEF DropBeforePlay
<1>10. ASSUME NEW s \in Seats, DropInPlay(s) PROVE AtTable' /\ Runs
  <2> DEFINE rs == AllConceded(rounds, dropped')
  <2>1. /\ status = "playing" /\ s \in people /\ dropped' = dropped \cup {s}
        /\ people' = people /\ decks' = decks /\ draft' = draft
        /\ Onward(rs, deadlines)
    BY <1>10 DEF DropInPlay, Onward
  <2>2. Listed(rs) /\ Len(rs) = Len(rounds)
    <3>1. rs \in Seq(SUBSET Pairing) /\ Len(rs) = Len(rounds)
      BY AllConcededFollows DEF IInv, Follows
    <3> HIDE DEF rs
    <3> QED BY <3>1 DEF Listed
  <2> HIDE DEF rs
  <2>3. Runs /\ PlaysOn
    BY <2>1, <2>2, OnwardRuns
  <2>4. AtTable'
    BY <2>1, <2>3 DEF AtTable, PlaysOn, NobodyLeftWaiting
  <2> QED BY <2>3, <2>4
<1> QED BY <1>1, <1>2, <1>3, <1>4, <1>5, <1>6, <1>7, <1>8, <1>9, <1>10 DEF TableStep

LEMMA RecordRuns ==
  ASSUME IInv, NEW i, NEW x, NEW y, Record(i, x, y), status \in {"playing", "finished"}
  PROVE  Runs /\ PlaysOn
<1>1. CASE Bound(i) = {}
  BY <1>1, SameRuns DEF Record, PlaysOn
<1>2. CASE Bound(i) # {}
  <2> DEFINE p == CHOOSE q \in Bound(i) : TRUE
             r == matches[i].round
             rs == Rewritten(rounds, r, p, Played(p, matches[i], x, y))
  <2>1. Onward(rs, deadlines)
    BY <1>2 DEF Record, Onward
  <2>2. Listed(rs) /\ Len(rs) = Len(rounds)
    BY OneRound DEF Rewritten
  <2> HIDE DEF rs
  <2> QED BY <2>1, <2>2, OnwardRuns
<1> QED BY <1>1, <1>2

LEMMA MatchStepStays ==
  ASSUME IInv, AtTable, MatchStep
  PROVE  AtTable' /\ Runs
<1>1. ASSUME NEW s \in Seats, StartPairingMatch(s) PROVE UNCHANGED table /\ Runs /\ PlaysOn
  <2>1. PICK r, p, q : rounds' = Rewritten(rounds, r, p, q)
    BY <1>1 DEF StartPairingMatch
  <2>2. UNCHANGED <<table, status, undated, faults>>
    BY <1>1 DEF StartPairingMatch
  <2>3. Listed(rounds') /\ Len(rounds') = Len(rounds)
    BY <2>1, OneRound DEF Rewritten
  <2> QED BY <2>2, <2>3 DEF Runs, PlaysOn
<1>2. ASSUME NEW i \in DOMAIN matches, JoinGame(i) \/ ChooseFirstPlayer(i) \/ NextGame(i)
      PROVE  UNCHANGED table /\ Runs /\ PlaysOn
  BY <1>2, SameRuns DEF JoinGame, ChooseFirstPlayer, NextGame, PlaysOn
<1>3. ASSUME NEW i \in DOMAIN matches, LeaveGame(i) PROVE UNCHANGED table /\ Runs /\ PlaysOn
  <2>1. UNCHANGED <<table, status, undated, faults>>
    BY <1>3 DEF LeaveGame
  <2>2. rounds' = rounds \/ \E r, round : rounds' = [rounds EXCEPT ![r] = round]
    BY <1>3 DEF LeaveGame
  <2>3. Listed(rounds') /\ Len(rounds') = Len(rounds)
    <3>1. CASE rounds' = rounds
      BY <3>1 DEF IInv, Good, Listed
    <3>2. CASE \E r, round : rounds' = [rounds EXCEPT ![r] = round]
      <4>1. PICK r, round : rounds' = [rounds EXCEPT ![r] = round]
        BY <3>2
      <4> DEFINE rs == [rounds EXCEPT ![r] = round]
      <4>2. Listed(rs) /\ Len(rs) = Len(rounds)
        BY OneRound
      <4>3. rounds' = rs
        BY <4>1
      <4> HIDE DEF rs
      <4> QED BY <4>2, <4>3
    <3> QED BY <2>2, <3>1, <3>2
  <2> QED BY <2>1, <2>3 DEF Runs, PlaysOn
<1>4. ASSUME NEW i \in DOMAIN matches, matches[i].status \in Active
      PROVE  status \in {"playing", "finished"}
  BY <1>4, ActiveLive
<1>5. ASSUME NEW i \in DOMAIN matches, DrawGame(i) PROVE UNCHANGED table /\ Runs /\ PlaysOn
  <2>1. UNCHANGED table /\ matches[i].status = "playing"
    BY <1>5 DEF DrawGame
  <2>2. \/ UNCHANGED <<status, rounds, deadlines, undated, faults>>
        \/ Record(i, matches[i].wins.a, matches[i].wins.b)
    BY <1>5 DEF DrawGame
  <2> QED BY <1>4, <2>1, <2>2, SameRuns, RecordRuns DEF Active, PlaysOn
<1>6. ASSUME NEW i \in DOMAIN matches, NEW s \in Seats, WinGame(i, s)
      PROVE  UNCHANGED table /\ Runs /\ PlaysOn
  <2>1. UNCHANGED table /\ matches[i].status = "playing"
    BY <1>6 DEF WinGame
  <2>2. \/ UNCHANGED <<status, rounds, deadlines, undated, faults>>
        \/ \E x, y : Record(i, x, y)
    BY <1>6 DEF WinGame
  <2> QED BY <1>4, <2>1, <2>2, SameRuns, RecordRuns DEF Active, PlaysOn
<1>7. ASSUME NEW i \in DOMAIN matches, NEW s \in Seats, ForfeitMatch(i, s)
      PROVE  UNCHANGED table /\ Runs /\ PlaysOn
  <2>1. UNCHANGED table /\ matches[i].status \in Active /\ \E x, y : Record(i, x, y)
    BY <1>7 DEF ForfeitMatch
  <2> QED BY <1>4, <2>1, RecordRuns
<1>8. UNCHANGED table /\ Runs /\ PlaysOn
  BY <1>1, <1>2, <1>3, <1>5, <1>6, <1>7 DEF MatchStep
<1> QED BY <1>8, TableRests DEF PlaysOn

LEMMA ScheduledStays ==
  ASSUME IInv, AtTable, Scheduled
  PROVE  AtTable' /\ Runs
<1>1. ASSUME NEW t \in draft.timers, AutoPickSeatTimeout(t) PROVE AtTable' /\ Runs
  <2>1. status \in {"open", "started", "playing", "finished", "gone"}
    BY DEF IInv, Phase
  <2>2. AtTable'
    BY <1>1, <2>1, TimeoutSeats
  <2>3. CASE InDate(t)
    <3>1. OpenPlayPhaseIfReady(status, decks) /\ status = "started"
      BY <1>1, <2>3 DEF AutoPickSeatTimeout, InDate
    <3> QED BY <2>2, <3>1, PlayPhaseRuns
  <2>4. CASE ~InDate(t)
    <3>1. UNCHANGED <<rounds, undated, faults>>
      BY <1>1, <2>4 DEF AutoPickSeatTimeout, play
    <3> QED BY <2>2, <3>1, SameRuns
  <2> QED BY <2>3, <2>4
<1>2. ASSUME NEW r \in deadlines, ExpireRoundDeadline(r) PROVE AtTable' /\ Runs
  <2>1. UNCHANGED table
    BY <1>2 DEF ExpireRoundDeadline
  <2>2. CASE status # "playing" \/ Complete(rounds[r])
    BY <1>2, <2>1, <2>2, TableRests, SameRuns DEF ExpireRoundDeadline
  <2>3. CASE ~(status # "playing" \/ Complete(rounds[r]))
    <3>1. PICK rs, round : rs = [rounds EXCEPT ![r] = round] /\ Onward(rs, deadlines \ {r})
      BY <1>2, <2>3 DEF ExpireRoundDeadline, Onward
    <3>2. Listed(rs) /\ Len(rs) = Len(rounds)
      BY <3>1, OneRound
    <3>3. Runs /\ PlaysOn
      BY <2>3, <3>1, <3>2, OnwardRuns
    <3> QED BY <2>1, <3>3, TableRests DEF PlaysOn
  <2> QED BY <2>2, <2>3
<1> QED BY <1>1, <1>2 DEF Scheduled

LEMMA NudgeStays ==
  ASSUME IInv, AtTable, NudgeEventRounds
  PROVE  AtTable' /\ Runs
<1>1. status = "playing" /\ UNCHANGED table /\ Onward(rounds, deadlines)
  BY DEF NudgeEventRounds, Onward
<1>2. Listed(rounds)
  BY DEF IInv, Good, Listed
<1>3. Runs /\ PlaysOn
  BY <1>1, <1>2, OnwardRuns
<1> QED BY <1>1, <1>3, TableRests DEF PlaysOn

LEMMA TableInductive == Spec => [](IInv /\ AtTable /\ InBounds)
<1>1. Init => AtTable /\ InBounds
  <2> SUFFICES ASSUME Init PROVE AtTable /\ InBounds
    OBVIOUS
  <2>1. Len(<<>>) = 0 /\ TotalRounds \in 1..3
    BY DEF TotalRounds
  <2> QED BY <2>1, BoundAssumption DEF Init, AtTable, InBounds, NobodyLeftWaiting
<1>2. IInv /\ AtTable /\ InBounds /\ [Next]_vars => (AtTable /\ InBounds)'
  <2> SUFFICES ASSUME IInv, AtTable, InBounds, [Next]_vars PROVE AtTable' /\ InBounds'
    OBVIOUS
  <2>1. Proceeds
    BY StepProceeds
  <2>2. AtTable' /\ Runs
    <3>1. CASE UNCHANGED vars
      <4>1. UNCHANGED table /\ UNCHANGED status /\ UNCHANGED <<rounds, undated, faults>>
        BY <3>1 DEF vars, table
      <4> QED BY <4>1, TableRests, SameRuns
    <3>2. CASE Next
      BY <3>2, TableStepStays, MatchStepStays, ScheduledStays, NudgeStays DEF Next
    <3> QED BY <3>1, <3>2
  <2> QED BY <2>1, <2>2, RunsBounds
<1> QED BY <1>1, <1>2, Inductive, PTL DEF Spec

LEMMA NoDraftTyped == NoDraft \in Draft
<1> DEFINE h == [s \in Seats |-> <<>>]
           z == [s \in Seats |-> 0]
<1>1. NoDraft = [hand |-> h, pool |-> z, seq |-> z, timers |-> {}, timed |-> FALSE,
                 round |-> 0, left |-> 0, done |-> FALSE]
  BY Zenon DEF NoDraft
<1>2. FullPool \in Nat /\ 0 \in 0..DraftRounds
  BY PackAssumption DEF FullPool
<1>3. z \in [Seats -> 0..FullPool]
  BY <1>2
<1>4. h \in [Seats -> Seq(1..PackSize)]
  OBVIOUS
<1> HIDE DEF h, z
<1> QED BY <1>1, <1>2, <1>3, <1>4 DEF Draft

(* Whatever phase the event is in, there is a draft, or none yet, or none any
   more. *)
LEMMA DraftTyped ==
  ASSUME IInv, AtTable
  PROVE  draft \in Draft /\ (draft = NoDraft \/ Full(draft) \/ Tabled(draft))
<1>1. CASE status \in {"open", "gone"}
  BY <1>1, NoDraftTyped DEF AtTable
<1>2. CASE status = "started"
  <2>1. Going(draft, AutoDriven)
    BY <1>2 DEF AtTable
  <2> QED BY <2>1, GoingDraft DEF Going, Dealing
<1>3. CASE status \in {"playing", "finished"}
  <2>1. Full(draft) \/ (Tabled(draft) /\ Numbered(draft, {}))
    BY <1>3 DEF AtTable
  <2> QED BY <2>1, DealingDraft DEF Full
<1> QED BY <1>1, <1>2, <1>3 DEF IInv, Phase

(* The event is always in a state its rows allow. *)
THEOREM TypeCorrect == Spec => []TypeOK
<1>1. IInv /\ AtTable /\ InBounds => TypeOK
  <2> SUFFICES ASSUME IInv, AtTable, InBounds PROVE TypeOK
    OBVIOUS
  <2>1. draft \in Draft
    BY DraftTyped
  <2> QED BY <2>1 DEF TypeOK, IInv, AtTable, InBounds, Good, Phase, Dated, Matched
<1> QED BY <1>1, TableInductive, PTL

(* Whatever completes the table opens the rounds in the same transaction. *)
THEOREM NobodyIsLeftWaiting == Spec => []NobodyLeftWaiting
<1>1. AtTable => NobodyLeftWaiting
  BY DEF AtTable
<1> QED BY <1>1, TableInductive, PTL

(* Whoever holds a pack of a timed draft has a timeout of that pack to come. *)
THEOREM PacksAreTimed == Spec => []PackTimed
<1>1. AtTable => PackTimed
  <2> SUFFICES ASSUME AtTable, status = "started", ~draft.done,
                      NEW s \in Seats, draft.hand[s] # <<>>
               PROVE  /\ s \notin AutoDriven
                      /\ draft.timed => [seat |-> s, seq |-> draft.seq[s]] \in draft.timers
    BY DEF PackTimed
  <2>1. Going(draft, AutoDriven) /\ Quiet(draft, AutoDriven)
    BY DEF AtTable
  <2>2. Dealing(draft, AutoDriven)
    BY <2>1, GoingEnded
  <2>3. s \notin AutoDriven
    BY <2>1 DEF Quiet
  <2> QED BY <2>2, <2>3 DEF Dealing, Clocked, TimedBut
<1> QED BY <1>1, TableInductive, PTL

LEMMA TableCounted ==
  ASSUME IInv, AtTable, draft.done = FALSE
  PROVE  /\ draft.left = Cardinality(OnTable(draft))
         /\ Total(Cards(draft), Seats) = draft.round * Cardinality(Seats) * PackSize
         /\ draft.hand \in [Seats -> Seq(1..PackSize)]
<1>1. CASE Tabled(draft)
  BY <1>1 DEF Tabled, Typed, Counted, SeatCount
<1>2. CASE draft = NoDraft
  <2> DEFINE h == [s \in Seats |-> <<>>]
             z == [s \in Seats |-> 0]
             d == draft
  <2>1. d = [hand |-> h, pool |-> z, seq |-> z, timers |-> {}, timed |-> FALSE,
             round |-> 0, left |-> 0, done |-> FALSE]
    BY <1>2, Zenon DEF NoDraft
  <2>2. \A s \in Seats : h[s] = <<>> /\ z[s] = 0
    OBVIOUS
  <2>3. h \in [Seats -> Seq(1..PackSize)]
    OBVIOUS
  <2> HIDE DEF h, z, d
  <2>4. d.left = 0 /\ d.round = 0 /\ d.hand = h /\ d.pool = z
    BY <2>1
  <2>5. OnTable(d) = {}
    BY <2>2, <2>4 DEF OnTable
  <2>6. \A s \in Seats : Cards(d)[s] = 0
    <3> SUFFICES ASSUME NEW s \in Seats PROVE Cards(d)[s] = 0
      OBVIOUS
    <3>1. Len(d.hand[s]) = 0 /\ d.pool[s] = 0
      BY <2>2, <2>4
    <3>2. 1..0 = {}
      OBVIOUS
    <3> DEFINE f == d.hand[s]
    <3>3. Total(f, {}) = 0
      <4>1. IsFiniteSet({}) /\ \A x \in {} : f[x] \in Int
        BY FS_EmptySet
      <4> HIDE DEF f
      <4> QED BY <4>1, TotalStep
    <3> QED BY <3>1, <3>2, <3>3 DEF Cards
  <2>7. Total(Cards(d), Seats) = Cardinality(Seats) * 0
    <3> DEFINE f == Cards(d)
    <3>1. IsFiniteSet(Seats) /\ 0 \in Int /\ \A x \in Seats : f[x] = 0
      BY <2>6, SeatsAre
    <3> HIDE DEF f
    <3>2. Total(f, Seats) = Cardinality(Seats) * 0
      BY <3>1, TotalConst
    <3> QED BY <3>2 DEF f
  <2>8. Cardinality(Seats) \in Nat /\ PackSize \in Nat
    BY SeatsAre, PackAssumption DEF SeatCount
  <2>9. Cardinality(Seats) * 0 = 0 /\ 0 * Cardinality(Seats) * PackSize = 0
    BY <2>8
  <2>10. /\ d.left = Cardinality(OnTable(d))
         /\ Total(Cards(d), Seats) = d.round * Cardinality(Seats) * PackSize
         /\ d.hand \in [Seats -> Seq(1..PackSize)]
    BY <2>3, <2>4, <2>5, <2>7, <2>9, FS_EmptySet
  <2> QED BY <2>10 DEF d
<1>3. ~Full(draft)
  BY DEF Full
<1> QED BY <1>1, <1>2, <1>3, DraftTyped

(* No card is lost or dealt twice, the packs on the table are the ones that are
   counted, and a draft that has ended gave every seat as many cards. *)
THEOREM PacksAreCounted == Spec => []PacksCounted
<1>1. ASSUME IInv, AtTable PROVE PacksCounted
  <2> DEFINE sum(f) == Total(f, DOMAIN f)
             cards == [s \in Seats |-> draft.pool[s] + sum(draft.hand[s])]
  <2>1. CASE draft.done
    <3>1. draft.done # FALSE
      BY <2>1
    <3>2. Full(draft)
      <4>1. NoDraft.done = FALSE
        BY Zenon DEF NoDraft
      <4> QED BY <1>1, <3>1, <4>1, DraftTyped DEF Tabled, Typed
    <3> QED BY <2>1, <3>2 DEF PacksCounted, Full
  <2>2. CASE ~draft.done
    <3>1. draft.done = FALSE
      BY <1>1, <2>2, DraftTyped DEF Draft
    <3>2. cards = Cards(draft)
      <4>1. \A s \in Seats : DOMAIN draft.hand[s] = 1..Len(draft.hand[s])
        BY <1>1, <3>1, TableCounted
      <4> QED BY <4>1 DEF Cards
    <3>3. DOMAIN cards = Seats
      OBVIOUS
    <3>4. sum(cards) = draft.round * Cardinality(Seats) * PackSize
      <4> HIDE DEF cards
      <4> QED BY <1>1, <3>1, <3>2, <3>3, TableCounted
    <3>5. draft.left = Cardinality(OnTable(draft))
      BY <1>1, <3>1, TableCounted
    <3> QED BY <2>2, <3>4, <3>5, Zenon DEF PacksCounted, Total
  <2> QED BY <2>1, <2>2
<1> QED BY <1>1, TableInductive, PTL
=============================================================================
