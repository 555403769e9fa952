---------------------------- MODULE VerdictOutbox ---------------------------
(***************************************************************************)
(* The verdict outbox (convex/verdicts*.ts): the tables of the deployments *)
(* hold the judgements and the resolutions people give as "fat" rows, and  *)
(* drains upload them to one bucket that never overwrites an object.  A    *)
(* row may forget its judgement only after the bucket was read back.       *)
(*                                                                         *)
(* A drain is an action: it has no transaction of its own.  Every query,   *)
(* mutation, put and get it makes is a step, and drains of one deployment, *)
(* of several, and the uploads a writer runs for others all interleave.    *)
(* The name of an object is a hash of what it holds: a pair of the         *)
(* judgement and the version of the code that hashes it.                   *)
(***************************************************************************)
EXTENDS Integers, FiniteSets

CONSTANTS
  Rows,         \* bound: the rows people give
  Resolutions,  \* the rows that are decisions of an admin, not judgements
  JudgementOf,  \* what a row judges: two rows may judge the same
  AuthorOf,     \* who is attested to have given it
  HomeOf,       \* the deployment whose table holds the row
  Deployments, Writers,  \* those with the write key upload themselves
  Acceptor,     \* the writer the others forward to
  Drains,       \* bound: the drains that may run at once
  SiteOf,       \* the deployment a drain runs on
  MaxVersion,   \* bound: the versions of the hashing code
  Legacy,       \* rows from before the outbox, not stamped with a hash
  Fixtures,     \* rows a test lane seeds: never uploaded
  Lane,         \* rows of a test lane's accounts: deleted at its teardown
  Refused,      \* rows the acceptor's checks refuse
  Spoiled,      \* names under which the bucket holds other bytes
  PageSize, Batch,
  MaxFaults     \* bound: lost requests, lost answers, failed calls, crashes

Versions == 1..MaxVersion
Judgements == { JudgementOf[r] : r \in Rows }
Authors == { AuthorOf[r] : r \in Rows }
Objects == Judgements \X Versions
Attestations == Judgements \X Versions \X Authors

ASSUME RowAssumption ==
  /\ Rows # {} /\ IsFiniteSet(Rows)
  /\ Resolutions \subseteq Rows /\ Legacy \subseteq Rows \ Resolutions
  /\ Fixtures \subseteq Lane /\ Lane \subseteq Rows \ Resolutions
  /\ Refused \subseteq Rows
  /\ HomeOf \in [Rows -> Deployments] /\ SiteOf \in [Drains -> Deployments]
  /\ Acceptor \in Writers /\ Writers \subseteq Deployments
ASSUME BoundAssumption ==
  /\ MaxVersion \in Nat \ {0} /\ MaxFaults \in Nat
  /\ PageSize \in Nat \ {0} /\ Batch \in Nat \ {0}
ASSUME SpoiledAssumption == Spoiled \subseteq Objects

VARIABLES
  row,          \* what the table holds of a row
  born,         \* the order in which the rows were inserted
  hash,         \* the version a row's stamps were computed with, 0 for none
  code,         \* the version each deployment runs
  objects,      \* the bucket: the verdict and resolution objects uploaded
  attestations, \* the bucket: who judged which verdict
  drain,        \* where each drain stands
  uploads,      \* the rows being uploaded, by a drain or by the acceptor
  vanished,     \* names the bucket acknowledged and does not hold
  faults

vars == <<row, born, hash, code, objects, attestations, drain, uploads,
          vanished, faults>>
bucket == <<objects, attestations, vanished>>
table == <<row, born, hash>>

RowState == {"unborn", "fat", "slim", "deleted"}
Idle == [pc |-> "idle", page |-> {}, cursor |-> 0, next |-> "idle",
         code |-> 1, row |-> CHOOSE r \in Rows : TRUE, hash |-> 1]
Stage == {"object", "attestation", "reread"}
DrainState ==
  [pc : {"idle", "verdicts", "resolutions", "rows", "upload", "mark"},
   page : SUBSET Rows, cursor : Nat,     \* pendingPage: what is left of it
   next : {"verdicts", "resolutions", "idle"},  \* what follows the page
   code : Versions,                      \* the code this action runs
   row : Rows, hash : Versions]          \* at "mark": what was stored, as what
Upload == [by : Drains, row : Rows, code : Versions, stage : Stage,
           awaited : BOOLEAN]

TypeOK ==
  /\ row \in [Rows -> RowState] /\ born \in [Rows -> Nat]
  /\ hash \in [Rows -> 0..MaxVersion] /\ code \in [Deployments -> Versions]
  /\ objects \subseteq Objects /\ attestations \subseteq Attestations
  /\ vanished \subseteq Objects \cup Attestations
  /\ drain \in [Drains -> DrainState]
  /\ uploads \subseteq Upload
  /\ faults \in 0..MaxFaults

(* The names of a row's objects under a version of the hashing code. *)
ObjectOf(r, v) == <<JudgementOf[r], v>>
AttestationOf(r, v) == <<JudgementOf[r], v, AuthorOf[r]>>

(* The bucket returns under these names what it should. *)
Reads(r, v) ==
  /\ ObjectOf(r, v) \in objects
  /\ r \notin Resolutions => AttestationOf(r, v) \in attestations

Init ==
  /\ row = [r \in Rows |-> IF r \in Legacy THEN "fat" ELSE "unborn"]
  /\ born = [r \in Rows |-> 0]
  /\ hash = [r \in Rows |-> 0]
  /\ code = [d \in Deployments |-> 1]
  /\ objects = {} /\ attestations = {} /\ vanished = {}
  /\ drain = [d \in Drains |-> Idle]
  /\ uploads = {}
  /\ faults = 0

(***************************************************************************)
(* The tables.                                                             *)
(***************************************************************************)

(* The table a row is in: its deployment's verdicts, or its resolutions.   *)
Table(r) ==
  { q \in Rows : HomeOf[q] = HomeOf[r] /\ (q \in Resolutions <=> r \in Resolutions) }

(* submit, enqueueBulk, record: the row is inserted with its stamps. *)
Submit(r) ==
  /\ row[r] = "unborn"
  /\ row' = [row EXCEPT ![r] = "fat"]
  /\ born' = [born EXCEPT ![r] = Cardinality({ q \in Table(r) : born[q] > 0 }) + 1]
  /\ hash' = [hash EXCEPT ![r] = code[HomeOf[r]]]
  /\ UNCHANGED <<code, drain, uploads, faults, bucket>>

(* The teardown of a test lane deletes the rows of its accounts. *)
Teardown(r) ==
  /\ r \in Lane /\ row[r] \in {"fat", "slim"}
  /\ row' = [row EXCEPT ![r] = "deleted"]
  /\ UNCHANGED <<born, hash, code, drain, uploads, faults, bucket>>

(* A deployment gets code under which judgements hash to other names. *)
Redeploy(s) ==
  /\ code[s] < MaxVersion
  /\ code' = [code EXCEPT ![s] = @ + 1]
  /\ UNCHANGED <<table, drain, uploads, faults, bucket>>

(***************************************************************************)
(* The loop of a drain.                                                    *)
(***************************************************************************)

(* A drain is scheduled by every insert, by an admin and by the hourly    *)
(* cron, whatever other drains are running.                                *)
Start(d) ==
  /\ drain[d].pc = "idle"
  /\ drain' = [drain EXCEPT ![d] =
       [Idle EXCEPT !.pc = "verdicts", !.code = code[SiteOf[d]]]]
  /\ UNCHANGED <<table, code, uploads, faults, bucket>>

(* The rows without storedAt, first inserted first. *)
Pending(d, kind) ==
  { r \in kind : row[r] = "fat" /\ HomeOf[r] = SiteOf[d] }
FirstOf(S, n) ==
  { r \in S : Cardinality({ q \in S : born[q] < born[r] }) < n }

(* Turn to what follows the page once its rows are done. *)
Turned(k, S) ==
  IF S = {} /\ k.next = "idle" THEN Idle
  ELSE [k EXCEPT !.page = S, !.pc = IF S = {} THEN k.next ELSE "rows",
                 !.row = Idle.row, !.hash = Idle.hash]

(* pendingPage: a page of the rows behind the cursor. *)
ReadPage(d) ==
  LET behind == { r \in Pending(d, Rows \ Resolutions) : born[r] >= drain[d].cursor }
      page == FirstOf(behind, PageSize)
  IN  /\ drain[d].pc = "verdicts"
      /\ \E after \in { born[r] + 1 : r \in page } \cup {drain[d].cursor} :
           /\ \A r \in page : born[r] < after
           /\ drain' = [drain EXCEPT ![d] =
                Turned([@ EXCEPT !.cursor = after, !.next =
                          IF page = behind THEN "resolutions" ELSE "verdicts"],
                       page)]
      /\ UNCHANGED <<table, code, uploads, faults, bucket>>

(* pendingResolutions: one batch from the front, without a cursor. *)
ReadBatch(d) ==
  /\ drain[d].pc = "resolutions"
  /\ drain' = [drain EXCEPT ![d] =
       Turned([@ EXCEPT !.next = "idle", !.cursor = 0],
              FirstOf(Pending(d, Resolutions), Batch))]
  /\ UNCHANGED <<table, code, uploads, faults, bucket>>

(* The next row of the page, as the page was read. *)
IsNext(d, r) ==
  /\ drain[d].pc = "rows" /\ r \in drain[d].page
  /\ \A q \in drain[d].page : born[r] <= born[q]

(* The row is reported or done with: to the next. *)
Skipped(d, r) == Turned(drain[d], drain[d].page \ {r})

(* prepareOutboxRow: a fixture stays, and so does a row whose stamps are  *)
(* not what its judgement hashes to now.  A resolution is not prepared.    *)
StampEquals(r, v) == hash[r] = v   \* mutant: a row without stamps never agrees
StampAgrees(r, v) == r \in Legacy \/ hash[r] = v
Prepared(r, v) == r \in Resolutions \/ (r \notin Fixtures /\ StampAgrees(r, v))

(* acceptForward: the acceptor hashes what was forwarded itself. *)
Accepted(r, v) ==
  /\ r \notin Refused /\ r \notin Fixtures
  /\ code[Acceptor] = IF r \in Resolutions THEN hash[r] ELSE v

(* The version of the code that uploads a row for a drain. *)
Uploader(d) ==
  IF SiteOf[d] \in Writers THEN drain[d].code ELSE code[Acceptor]

(* storeRow: the upload begins, here or on the acceptor ... *)
Send(d, r) ==
  /\ IsNext(d, r)
  /\ Prepared(r, drain[d].code)
  /\ SiteOf[d] \in Writers \/ Accepted(r, drain[d].code)
  /\ uploads' = uploads \cup
       {[by |-> d, row |-> r, code |-> Uploader(d), stage |-> "object",
         awaited |-> TRUE]}
  /\ drain' = [drain EXCEPT ![d].pc = "upload"]
  /\ UNCHANGED <<table, code, faults, bucket>>

(* ... or the row is left fat: not prepared, or refused. *)
Leave(d, r) ==
  /\ IsNext(d, r)
  /\ ~ /\ Prepared(r, drain[d].code)
       /\ SiteOf[d] \in Writers \/ Accepted(r, drain[d].code)
  /\ drain' = [drain EXCEPT ![d] = Skipped(d, r)]
  /\ UNCHANGED <<table, code, uploads, faults, bucket>>

(***************************************************************************)
(* An upload: storeOutboxRow and storeResolutionRow.                       *)
(***************************************************************************)

(* The upload goes on ... *)
Goes(u, stage) ==
  /\ uploads' = (uploads \ {u}) \cup {[u EXCEPT !.stage = stage]}
  /\ drain' = drain

OwnStamp(u) == hash[u.row]   \* mutant: a legacy row answers its missing stamp
StoredAs(u) == u.code

(* ... or ends.  The drain that waits for its answer learns whether the    *)
(* objects were read back, under the name the row promised; an answer      *)
(* nobody waits for is lost.                                               *)
Ends(u, stored) ==
  /\ uploads' = uploads \ {u}
  /\ drain' = IF ~ u.awaited THEN drain
     ELSE [drain EXCEPT ![u.by] =
             IF stored
             THEN [@ EXCEPT !.pc = "mark", !.row = u.row, !.hash = StoredAs(u)]
             ELSE Skipped(u.by, u.row)]

(* A put never overwrites: an object already there "exists". *)
Put(S, name) == IF name \in Spoiled THEN S ELSE S \cup {name}

Fault == faults < MaxFaults /\ faults' = faults + 1
Sound == faults' = faults

(* After its put: a verdict is attested; a resolution stored under another *)
(* name than the row recorded waits for a human.                           *)
AfterObject(u) ==
  IF u.row \notin Resolutions THEN Goes(u, "attestation")
  ELSE IF u.code = hash[u.row] THEN Goes(u, "reread") ELSE Ends(u, FALSE)

(* A call that failed leaves the row pending. *)
OnAllTheSame(u) == AfterObject(u)   \* mutant: a failed upload is not noticed
AfterFailure(u) == Ends(u, FALSE)

(* putVerdict, putResolution: the object lands, or the call fails before   *)
(* or after it landed, or it is acknowledged and never lands.              *)
PutObject(u) ==
  LET name == ObjectOf(u.row, u.code)
      lands == objects' = Put(objects, name) /\ vanished' = vanished
      fails == UNCHANGED <<objects, vanished>>
  IN  /\ u.stage = "object"
      /\ \/ Sound /\ lands /\ AfterObject(u)
         \/ Fault /\ lands /\ AfterFailure(u)
         \/ Fault /\ fails /\ AfterFailure(u)
         \/ /\ Fault /\ name \notin objects \cup Spoiled
            /\ vanished' = vanished \cup {name} /\ objects' = objects
            /\ AfterObject(u)
      /\ UNCHANGED <<table, code, attestations>>

(* putAttestation, only once the verdict's put was answered. *)
PutAttestation(u) ==
  LET name == AttestationOf(u.row, u.code)
      lands == attestations' = attestations \cup {name} /\ vanished' = vanished
      fails == UNCHANGED <<attestations, vanished>>
  IN  /\ u.stage = "attestation"
      /\ \/ Sound /\ lands /\ Goes(u, "reread")
         \/ Fault /\ lands /\ Ends(u, FALSE)
         \/ Fault /\ fails /\ Ends(u, FALSE)
         \/ /\ Fault /\ name \notin attestations
            /\ vanished' = vanished \cup {name} /\ attestations' = attestations
            /\ Goes(u, "reread")
      /\ UNCHANGED <<table, code, objects>>

(* readVerdict, readAttestation, readResolution: the bucket's own word. *)
TrustsPut(u) == TRUE   \* mutant: the objects are not read back
Confirmed(u) == Reads(u.row, u.code)
ReRead(u) ==
  /\ u.stage = "reread"
  /\ \/ Sound /\ Ends(u, Confirmed(u))
     \/ Fault /\ Ends(u, FALSE)
  /\ UNCHANGED <<table, code, bucket>>

(***************************************************************************)
(* The end of a row.                                                        *)
(***************************************************************************)

(* No answer to a forward within its timeout: the row stays fat, and what  *)
(* the acceptor still does with the request is not known.                  *)
TimeOut(d, u) ==
  /\ u.by = d /\ u.awaited /\ SiteOf[d] \notin Writers
  /\ Fault
  /\ uploads' = (uploads \ {u}) \cup {[u EXCEPT !.awaited = FALSE]}
  /\ drain' = [drain EXCEPT ![d] = Skipped(d, u.row)]
  /\ UNCHANGED <<table, code, bucket>>

(* The row as it is now still is what was stored. *)
NotYetSlim(r) == row[r] # "slim"   \* mutant: a row that is gone is not noticed
StillFat(r) == row[r] = "fat"
Matches(d, r) ==
  /\ StillFat(r)
  /\ r \in Resolutions \/ code[HomeOf[r]] = drain[d].hash
  /\ StampAgrees(r, drain[d].hash)

(* markStored, markResolutionStored: the row is slimmed, or refused and    *)
(* left as it is; a row already slim is left alone.                        *)
Mark(d) ==
  LET r == drain[d].row
  IN  /\ drain[d].pc = "mark"
      /\ IF Matches(d, r)
         THEN /\ row' = [row EXCEPT ![r] = "slim"]
              /\ hash' = [hash EXCEPT ![r] = drain[d].hash]
         ELSE UNCHANGED <<row, hash>>
      /\ drain' = [drain EXCEPT ![d] = Skipped(d, r)]
      /\ UNCHANGED <<born, code, uploads, faults, bucket>>

(* The action dies.  Its own upload dies with it; a forwarded one goes on. *)
Die(d) ==
  /\ drain[d].pc # "idle"
  /\ Fault
  /\ drain' = [drain EXCEPT ![d] = Idle]
  /\ uploads' = { u \in uploads : u.by # d } \cup
       IF SiteOf[d] \in Writers THEN {}
       ELSE { [u EXCEPT !.awaited = FALSE] :
              u \in { w \in uploads : w.by = d } }
  /\ UNCHANGED <<table, code, bucket>>

-----------------------------------------------------------------------------
Drain(d) ==
  \/ Start(d) \/ ReadPage(d) \/ ReadBatch(d) \/ Mark(d)
  \/ \E r \in Rows : Send(d, r) \/ Leave(d, r)
Step(u) == PutObject(u) \/ PutAttestation(u) \/ ReRead(u)

Next ==
  \/ \E r \in Rows : Submit(r) \/ Teardown(r)
  \/ \E s \in Deployments : Redeploy(s)
  \/ \E d \in Drains : Drain(d) \/ Die(d)
  \/ \E d \in Drains, u \in uploads : TimeOut(d, u)
  \/ \E u \in uploads : Step(u)

Spec == Init /\ [][Next]_vars

(* Every deployment's cron starts drains for ever, and what runs goes on.  *)
Fairness ==
  \A d \in Drains : /\ WF_vars(Drain(d))
                    /\ WF_vars(\E u \in uploads : u.by = d /\ Step(u))
FairSpec == Spec /\ Fairness

(***************************************************************************)
(* What must hold.                                                         *)
(***************************************************************************)

(* A row that forgot its judgement names objects the bucket really holds:  *)
(* the promise of markStored, whatever drains raced, puts were lost, names *)
(* were spoiled or hashes moved between the upload and the slimming.       *)
NothingForgotten ==
  \A r \in Rows : row[r] = "slim" => Reads(r, hash[r])

(* The store never holds an attestation of a verdict it does not hold, not *)
(* even briefly (storeOutboxRow), unless the bucket itself took the        *)
(* verdict and lost it: classifyVerdicts refuses such a store.             *)
AttestedAfterVerdict ==
  \A a \in attestations : <<a[1], a[2]>> \in objects \cup Spoiled \cup vanished

(* What the outbox promises: see VerdictArchive.                           *)
KeysOf ==
  [r \in Rows |->
    { IF r \in Resolutions THEN ObjectOf(r, v) ELSE AttestationOf(r, v) :
      v \in Versions }]
archive ==
  { a \in attestations : <<a[1], a[2]>> \in objects }
    \cup { o \in objects : \E r \in Resolutions : o[1] = JudgementOf[r] }
Archive ==
  INSTANCE VerdictArchive WITH
    Keys <- Objects \cup Attestations,
    given <- { r \in Rows : row[r] = "fat" },
    forgotten <- { r \in Rows : row[r] = "slim" }
Archives == Archive!Spec

(* What no drain can store: a fixture, a spoiled name, a row the acceptor  *)
(* refuses, stamps or hashes the running code does not agree with, and a   *)
(* resolution behind a whole batch of such.                                *)
Hopeless(r) ==
  LET here == code[HomeOf[r]]
      direct == HomeOf[r] \in Writers
      v == IF r \in Resolutions \/ r \notin Legacy THEN hash[r] ELSE here
  IN  \/ r \in Fixtures \/ ObjectOf(r, v) \in Spoiled
      \/ (direct \/ r \notin Resolutions) /\ v # here
      \/ ~ direct /\ (r \in Refused \/ code[Acceptor] # v)
Starved(r) ==
  /\ r \in Resolutions
  /\ Batch <= Cardinality({ q \in Resolutions : HomeOf[q] = HomeOf[r]
                  /\ row[q] = "fat" /\ Hopeless(q) /\ born[q] < born[r] })

(* Whatever fails, each row that can be stored at last is: one bad row     *)
(* costs no other its place, and a lost answer is asked for again.         *)
EventuallyStored ==
  \A r \in Rows : row[r] = "fat" ~>
    (row[r] # "fat" \/ Hopeless(r) \/ Starved(r))
=============================================================================
