--------------------------- MODULE VerdictArchive ---------------------------
(***************************************************************************)
(* What the verdict outbox promises its users, whoever uploads and whatever*)
(* fails on the way: a judgement given is kept, and is forgotten by the    *)
(* deployment it was given on only when the archive holds it for good.     *)
(***************************************************************************)
CONSTANTS
  Rows,       \* the judgements people give
  Keys,       \* what the archive may hold
  KeysOf      \* the entries of the archive that keep a row's judgement

VARIABLES
  given,      \* the judgements the deployments still hold in full
  archive,    \* the entries of the archive
  forgotten   \* the judgements of which a deployment keeps only the name

vars == <<given, archive, forgotten>>

Init ==
  /\ given \subseteq Rows
  /\ archive = {}
  /\ forgotten = {}

Give(r) ==
  /\ r \notin given \cup forgotten
  /\ given' = given \cup {r}
  /\ UNCHANGED <<archive, forgotten>>

(* The archive only grows, and an entry in it never changes. *)
Record ==
  /\ archive' \in SUBSET Keys
  /\ archive \subseteq archive' /\ archive # archive'
  /\ UNCHANGED <<given, forgotten>>

Forget(r) ==
  /\ r \in given
  /\ KeysOf[r] \cap archive # {}
  /\ given' = given \ {r}
  /\ forgotten' = forgotten \cup {r}
  /\ UNCHANGED archive

(* An account is removed with everything it gave. *)
Remove(r) ==
  /\ r \in given \cup forgotten
  /\ given' = given \ {r}
  /\ forgotten' = forgotten \ {r}
  /\ UNCHANGED archive

Next ==
  \/ \E r \in Rows : Give(r) \/ Forget(r) \/ Remove(r)
  \/ Record

Spec == Init /\ [][Next]_vars
=============================================================================
