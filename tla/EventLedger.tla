---------------------------- MODULE EventLedger -----------------------------
(***************************************************************************)
(* What the rounds of an event promise their players, whoever decides a    *)
(* pairing and however the deciders race: a round opens only after every   *)
(* earlier one is decided, it seats everyone once and repeats no meeting,  *)
(* and a result that was recorded is never changed.                        *)
(***************************************************************************)
EXTENDS Integers, Sequences

CONSTANT Players
VARIABLE ledger  \* for each round, its pairings: [a, b, result], b = 0 for a bye

Sits(s, p) == s = p.a \/ s = p.b
Settled(round) == \A p \in round : p.result # "open"

(* Everyone is seated, and seated once. *)
SeatsAll(round) ==
  /\ \A s \in Players : \E p \in round : Sits(s, p)
  /\ \A p, q \in round : \A s \in Players : Sits(s, p) /\ Sits(s, q) => p = q

(* No two players meet again. *)
Meets(p, q) == p.b # 0 /\ {p.a, p.b} = {q.a, q.b}
NewMeetings(l) ==
  \A i, j \in DOMAIN l : \A p \in l[i], q \in l[j] : Meets(p, q) => i = j

(* A round opens after all the earlier ones are decided. *)
InOrder(l) == \A i \in DOMAIN l : i < Len(l) => Settled(l[i])

Fair(l) == InOrder(l) /\ NewMeetings(l) /\ \A i \in DOMAIN l : SeatsAll(l[i])

(* Rounds are added and pairings decided, nothing is taken back. *)
Keeps(round, new) ==
  \A p \in round : \E q \in new :
    p.a = q.a /\ p.b = q.b /\ (p.result # "open" => p.result = q.result)
Extends(l, new) ==
  /\ Len(l) <= Len(new)
  /\ \A i \in DOMAIN l : i \in DOMAIN new /\ Keeps(l[i], new[i])

Init == ledger = <<>>
Next == Fair(ledger') /\ Extends(ledger, ledger')
Spec == Init /\ [][Next]_ledger
=============================================================================
