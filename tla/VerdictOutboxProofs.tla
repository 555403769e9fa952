------------------------ MODULE VerdictOutboxProofs -------------------------
(***************************************************************************)
(* The verdict outbox keeps its promise for any number of rows, drains,    *)
(* deployments, versions of the code and faults.                           *)
(*                                                                         *)
(* The argument: the bucket only grows, so what a re-read saw stays there. *)
(* A drain about to mark a row has read its objects back (MarkSound), and  *)
(* an upload about to attest a verdict had its put answered (PutFirst).    *)
(***************************************************************************)
EXTENDS VerdictOutbox, TLAPS, FiniteSetTheorems

(* What a drain is about to slim was read back under the name it slims to. *)
MarkSound ==
  \A d \in Drains : drain[d].pc = "mark" => Reads(drain[d].row, drain[d].hash)

(* A verdict is attested only once its own put was answered.               *)
PutFirst ==
  \A u \in uploads : u.stage = "attestation" =>
    ObjectOf(u.row, u.code) \in objects \cup Spoiled \cup vanished

IInv == /\ TypeOK /\ MarkSound /\ PutFirst
        /\ NothingForgotten /\ AttestedAfterVerdict

-----------------------------------------------------------------------------
(* Types of the helpers. *)

LEMMA VersionType == 1 \in Versions
BY BoundAssumption DEF Versions

LEMMA IdleType == Idle \in DrainState
<1>1. (CHOOSE r \in Rows : TRUE) \in Rows
  BY RowAssumption
<1> QED
  BY <1>1, VersionType DEF Idle, DrainState

LEMMA TurnedType ==
  ASSUME NEW k \in DrainState, NEW S \in SUBSET Rows
  PROVE  Turned(k, S) \in DrainState
<1>1. Idle.row \in Rows /\ Idle.hash \in Versions
  BY IdleType DEF DrainState
<1> QED
  BY <1>1, IdleType DEF Turned, DrainState

(* A drain that turns is not about to mark a row. *)
LEMMA TurnedMarksNothing ==
  ASSUME NEW k \in DrainState, NEW S
  PROVE  Turned(k, S).pc # "mark"
<1>1. CASE S = {} /\ k.next = "idle"
  BY <1>1 DEF Turned, Idle
<1>2. CASE ~(S = {} /\ k.next = "idle")
  BY <1>2 DEF Turned, DrainState
<1> QED
  BY <1>1, <1>2

LEMMA NameType ==
  ASSUME NEW r \in Rows, NEW v \in Versions
  PROVE  ObjectOf(r, v) \in Objects /\ AttestationOf(r, v) \in Attestations
BY DEF ObjectOf, AttestationOf, Objects, Attestations, Judgements, Authors

LEMMA UploadFields ==
  ASSUME TypeOK, NEW u \in uploads
  PROVE  /\ u \in Upload /\ u.by \in Drains /\ u.row \in Rows
         /\ u.code \in Versions /\ u.awaited \in BOOLEAN
         /\ ObjectOf(u.row, u.code) \in Objects
         /\ AttestationOf(u.row, u.code) \in Attestations
<1>1. u \in Upload
  BY DEF TypeOK
<1> QED
  BY <1>1, NameType DEF Upload

-----------------------------------------------------------------------------
(* What an end or a step of an upload leaves. *)

LEMMA GoesKeeps ==
  ASSUME IInv, NEW u \in uploads, NEW stage \in Stage, Goes(u, stage)
  PROVE  /\ uploads' \subseteq Upload /\ drain' = drain
         /\ \A w \in uploads' : w \in uploads \/ w = [u EXCEPT !.stage = stage]
<1>1. [u EXCEPT !.stage = stage] \in Upload
  BY UploadFields DEF IInv, Upload
<1> QED
  BY <1>1 DEF Goes, IInv, TypeOK

LEMMA EndsKeeps ==
  ASSUME IInv, NEW u \in uploads, NEW stored \in BOOLEAN, Ends(u, stored)
  PROVE  /\ uploads' \subseteq uploads /\ uploads' \subseteq Upload
         /\ drain' \in [Drains -> DrainState]
         /\ \A d \in Drains : drain'[d].pc = "mark" =>
              \/ drain'[d] = drain[d]
              \/ stored /\ drain'[d].row = u.row /\ drain'[d].hash = u.code
<1>1. uploads' \subseteq uploads /\ uploads' \subseteq Upload
  BY DEF Ends, IInv, TypeOK
<1>2. CASE ~ u.awaited
  BY <1>1, <1>2 DEF Ends, IInv, TypeOK
<1>3. CASE u.awaited
  <2> DEFINE k == drain[u.by]
             told == [k EXCEPT !.pc = "mark", !.row = u.row, !.hash = StoredAs(u)]
  <2>1. k \in DrainState /\ drain \in [Drains -> DrainState] /\ u.by \in Drains
    BY UploadFields DEF IInv, TypeOK
  <2>2. told \in DrainState /\ told.row = u.row /\ told.hash = u.code
    BY <2>1, UploadFields DEF DrainState, StoredAs, IInv
  <2>3. k.page \ {u.row} \in SUBSET Rows
    BY <2>1 DEF DrainState
  <2>4. /\ Skipped(u.by, u.row) \in DrainState
        /\ Skipped(u.by, u.row).pc # "mark"
    BY <2>1, <2>3, TurnedType, TurnedMarksNothing DEF Skipped
  <2>5. drain' = [drain EXCEPT ![u.by] =
                    IF stored THEN told ELSE Skipped(u.by, u.row)]
    BY <1>3 DEF Ends
  <2> HIDE DEF k, told
  <2>6. drain' \in [Drains -> DrainState]
    BY <2>1, <2>2, <2>4, <2>5
  <2>7. ASSUME NEW d \in Drains, drain'[d].pc = "mark"
        PROVE  \/ drain'[d] = drain[d]
               \/ stored /\ drain'[d].row = u.row /\ drain'[d].hash = u.code
    BY <2>1, <2>2, <2>4, <2>5, <2>7
  <2> QED
    BY <1>1, <2>6, <2>7
<1> QED
  BY <1>2, <1>3, UploadFields DEF IInv

(* After its put a row is attested, read back or left. *)
LEMMA AfterObjectKeeps ==
  ASSUME IInv, NEW u \in uploads, AfterObject(u)
  PROVE  /\ uploads' \subseteq Upload /\ drain' \in [Drains -> DrainState]
         /\ \A w \in uploads' : w \in uploads \/ w.stage # "attestation"
              \/ w = [u EXCEPT !.stage = "attestation"]
         /\ \A d \in Drains : drain'[d].pc = "mark" => drain'[d] = drain[d]
<1>1. ASSUME NEW stage \in Stage, Goes(u, stage)
      PROVE  /\ uploads' \subseteq Upload /\ drain' \in [Drains -> DrainState]
             /\ \A w \in uploads' : w \in uploads \/ w.stage # "attestation"
                  \/ w = [u EXCEPT !.stage = "attestation"]
             /\ \A d \in Drains : drain'[d].pc = "mark" => drain'[d] = drain[d]
  <2>1. [u EXCEPT !.stage = stage].stage = stage
    BY UploadFields DEF IInv, Upload
  <2> QED
    BY <1>1, <2>1, GoesKeeps DEF IInv, TypeOK
<1>2. CASE Ends(u, FALSE)
  BY <1>2, EndsKeeps
<1>3. "attestation" \in Stage /\ "reread" \in Stage
  BY DEF Stage
<1> QED
  BY <1>1, <1>2, <1>3 DEF AfterObject
-----------------------------------------------------------------------------
(* The bucket only grows, so what was read back stays (put never overwrites). *)
Grows == /\ objects \subseteq objects' /\ objects' \subseteq Objects
         /\ attestations \subseteq attestations' /\ attestations' \subseteq Attestations
         /\ vanished \subseteq vanished'
         /\ vanished' \subseteq Objects \cup Attestations

(* What a step that leaves the bucket and the rows alone must keep.        *)
LEMMA DrainStep ==
  ASSUME IInv, UNCHANGED <<table, code, bucket>>, faults' \in 0..MaxFaults,
         drain' \in [Drains -> DrainState], uploads' \subseteq Upload,
         \A d \in Drains : drain'[d].pc = "mark" =>
           \/ drain'[d] = drain[d]
           \/ Reads(drain'[d].row, drain'[d].hash),
         \A u \in uploads' : u.stage = "attestation" =>
           \E w \in uploads : /\ w.stage = u.stage /\ w.row = u.row
                             /\ w.code = u.code
  PROVE  IInv'
<1>1. TypeOK'
  BY DEF IInv, TypeOK, table, bucket
<1>2. MarkSound'
  BY DEF IInv, MarkSound, Reads, ObjectOf, AttestationOf, table, bucket
<1>3. PutFirst'
  BY DEF IInv, PutFirst, ObjectOf, table, bucket
<1>4. NothingForgotten' /\ AttestedAfterVerdict'
  BY DEF IInv, NothingForgotten, AttestedAfterVerdict, Reads, ObjectOf,
         AttestationOf, table, bucket
<1> QED
  BY <1>1, <1>2, <1>3, <1>4 DEF IInv

(* The same when only the drain at d moves, and to no mark.                *)
LEMMA DrainMoves ==
  ASSUME IInv, NEW d \in Drains, NEW k \in DrainState, k.pc # "mark",
         drain' = [drain EXCEPT ![d] = k],
         UNCHANGED <<table, code, uploads, faults, bucket>>
  PROVE  IInv'
<1>1. drain' \in [Drains -> DrainState]
  BY DEF IInv, TypeOK
<1>2. \A e \in Drains : drain'[e].pc = "mark" => drain'[e] = drain[e]
  BY DEF IInv, TypeOK
<1>3. uploads' \subseteq Upload /\ faults' \in 0..MaxFaults
  BY DEF IInv, TypeOK
<1> QED
  BY <1>1, <1>2, <1>3, DrainStep

-----------------------------------------------------------------------------
(* Each action keeps the invariant. *)

LEMMA Initial == Init => IInv
<1> SUFFICES ASSUME Init PROVE IInv
  OBVIOUS
<1>1. TypeOK
  BY IdleType, VersionType, BoundAssumption DEF Init, TypeOK, RowState
<1>2. MarkSound /\ PutFirst /\ AttestedAfterVerdict
  BY DEF Init, MarkSound, PutFirst, AttestedAfterVerdict, Idle
<1>3. NothingForgotten
  BY DEF Init, NothingForgotten
<1> QED
  BY <1>1, <1>2, <1>3 DEF IInv

LEMMA SubmitKeeps ==
  ASSUME IInv, NEW r \in Rows, Submit(r)
  PROVE  IInv'
<1>1. Cardinality({ q \in Table(r) : born[q] > 0 }) + 1 \in Nat
  <2>1. IsFiniteSet({ q \in Table(r) : born[q] > 0 })
    BY RowAssumption, FS_Subset DEF Table
  <2> QED
    BY <2>1, FS_CardinalityType
<1>2. code[HomeOf[r]] \in 0..MaxVersion
  BY RowAssumption DEF IInv, TypeOK, Versions
<1>3. TypeOK'
  BY <1>1, <1>2 DEF Submit, IInv, TypeOK, RowState, bucket
<1>4. MarkSound' /\ PutFirst' /\ AttestedAfterVerdict'
  BY DEF Submit, IInv, MarkSound, PutFirst, AttestedAfterVerdict, Reads,
         ObjectOf, AttestationOf, bucket
<1>5. NothingForgotten'
  <2> SUFFICES ASSUME NEW q \in Rows, row'[q] = "slim"
               PROVE  Reads(q, hash[q])' /\ hash'[q] = hash[q]
    BY DEF NothingForgotten, Reads, ObjectOf, AttestationOf, Submit, bucket
  <2>1. q # r /\ row[q] = "slim" /\ hash'[q] = hash[q]
    BY DEF Submit, IInv, TypeOK
  <2> QED
    BY <2>1 DEF Submit, IInv, NothingForgotten, Reads, ObjectOf, AttestationOf, bucket
<1> QED
  BY <1>3, <1>4, <1>5 DEF IInv

LEMMA TeardownKeeps ==
  ASSUME IInv, NEW r \in Rows, Teardown(r)
  PROVE  IInv'
<1>1. TypeOK'
  BY DEF Teardown, IInv, TypeOK, RowState, bucket
<1>2. MarkSound' /\ PutFirst' /\ AttestedAfterVerdict'
  BY DEF Teardown, IInv, MarkSound, PutFirst, AttestedAfterVerdict, Reads,
         ObjectOf, AttestationOf, bucket
<1>3. NothingForgotten'
  BY DEF Teardown, IInv, TypeOK, NothingForgotten, Reads, ObjectOf,
         AttestationOf, bucket
<1> QED
  BY <1>1, <1>2, <1>3 DEF IInv

LEMMA RedeployKeeps ==
  ASSUME IInv, NEW s \in Deployments, Redeploy(s)
  PROVE  IInv'
<1>1. code' \in [Deployments -> Versions]
  BY BoundAssumption DEF Redeploy, IInv, TypeOK, Versions
<1>2. TypeOK'
  BY <1>1 DEF Redeploy, IInv, TypeOK, bucket, table
<1>3. MarkSound' /\ PutFirst' /\ AttestedAfterVerdict' /\ NothingForgotten'
  BY DEF Redeploy, IInv, MarkSound, PutFirst, AttestedAfterVerdict,
         NothingForgotten, Reads, ObjectOf, AttestationOf, bucket, table
<1> QED
  BY <1>2, <1>3 DEF IInv

LEMMA StartKeeps ==
  ASSUME IInv, NEW d \in Drains, Start(d)
  PROVE  IInv'
<1> DEFINE k == [Idle EXCEPT !.pc = "verdicts", !.code = code[SiteOf[d]]]
<1>1. code[SiteOf[d]] \in Versions
  BY RowAssumption DEF IInv, TypeOK
<1>2. k \in DrainState /\ k.pc # "mark"
  BY <1>1, IdleType DEF DrainState
<1> HIDE DEF k
<1> QED
  BY <1>2, DrainMoves DEF Start, k

LEMMA ReadPageKeeps ==
  ASSUME IInv, NEW d \in Drains, ReadPage(d)
  PROVE  IInv'
<1> DEFINE behind == { r \in Pending(d, Rows \ Resolutions) : born[r] >= drain[d].cursor }
           page == FirstOf(behind, PageSize)
           after == IF page = behind THEN "resolutions" ELSE "verdicts"
<1>1. page \in SUBSET Rows
  BY DEF FirstOf, Pending
<1>2. drain[d] \in DrainState
  BY DEF IInv, TypeOK
<1>3. PICK c \in { born[r] + 1 : r \in page } \cup {drain[d].cursor} :
        drain' = [drain EXCEPT ![d] =
                    Turned([@ EXCEPT !.cursor = c, !.next = after], page)]
  BY DEF ReadPage
<1> HIDE DEF page, after
<1>4. c \in Nat
  <2>1. born \in [Rows -> Nat] /\ drain[d].cursor \in Nat
    BY <1>2 DEF IInv, TypeOK, DrainState
  <2>2. CASE c = drain[d].cursor
    BY <2>1, <2>2
  <2>3. ASSUME NEW r \in page, c = born[r] + 1
        PROVE  c \in Nat
    BY <1>1, <2>1, <2>3
  <2> QED
    BY <1>3, <2>2, <2>3
<1> DEFINE k == [drain[d] EXCEPT !.cursor = c, !.next = after]
<1>5. after \in {"verdicts", "resolutions"}
  BY DEF after
<1>6. k \in DrainState
  BY <1>2, <1>4, <1>5 DEF DrainState
<1> HIDE DEF k
<1>7. Turned(k, page) \in DrainState /\ Turned(k, page).pc # "mark"
  BY <1>1, <1>6, TurnedType, TurnedMarksNothing
<1>8. drain' = [drain EXCEPT ![d] = Turned(k, page)]
  BY <1>3 DEF k
<1> QED
  BY <1>7, <1>8, DrainMoves DEF ReadPage

LEMMA ReadBatchKeeps ==
  ASSUME IInv, NEW d \in Drains, ReadBatch(d)
  PROVE  IInv'
<1> DEFINE page == FirstOf(Pending(d, Resolutions), Batch)
           k == [drain[d] EXCEPT !.next = "idle", !.cursor = 0]
<1>1. page \in SUBSET Rows
  BY RowAssumption DEF FirstOf, Pending
<1>2. k \in DrainState
  BY DEF DrainState, IInv, TypeOK
<1>3. drain' = [drain EXCEPT ![d] = Turned(k, page)]
  BY DEF ReadBatch
<1> HIDE DEF page, k
<1>4. Turned(k, page) \in DrainState /\ Turned(k, page).pc # "mark"
  BY <1>1, <1>2, TurnedType, TurnedMarksNothing
<1> QED
  BY <1>3, <1>4, DrainMoves DEF ReadBatch

LEMMA SkippedType ==
  ASSUME IInv, NEW d \in Drains, NEW r
  PROVE  Skipped(d, r) \in DrainState /\ Skipped(d, r).pc # "mark"
<1>1. drain[d] \in DrainState /\ drain[d].page \ {r} \in SUBSET Rows
  BY DEF IInv, TypeOK, DrainState
<1> QED
  BY <1>1, TurnedType, TurnedMarksNothing DEF Skipped

LEMMA LeaveKeeps ==
  ASSUME IInv, NEW d \in Drains, NEW r \in Rows, Leave(d, r)
  PROVE  IInv'
BY SkippedType, DrainMoves DEF Leave

LEMMA SendKeeps ==
  ASSUME IInv, NEW d \in Drains, NEW r \in Rows, Send(d, r)
  PROVE  IInv'
<1> DEFINE u == [by |-> d, row |-> r, code |-> Uploader(d), stage |-> "object",
                 awaited |-> TRUE]
<1>1. Uploader(d) \in Versions
  BY RowAssumption DEF Uploader, IInv, TypeOK, DrainState
<1>2. u \in Upload
  BY <1>1 DEF Upload, Stage
<1>3. uploads' \subseteq Upload /\ faults' \in 0..MaxFaults
  BY <1>2 DEF Send, IInv, TypeOK
<1>4. drain' \in [Drains -> DrainState]
  BY DEF Send, IInv, TypeOK, DrainState
<1>5. \A e \in Drains : drain'[e].pc = "mark" => drain'[e] = drain[e]
  BY DEF Send, IInv, TypeOK, DrainState
<1>6. \A w \in uploads' : w.stage = "attestation" => w \in uploads
  BY DEF Send
<1> QED
  BY <1>3, <1>4, <1>5, <1>6, DrainStep DEF Send
-----------------------------------------------------------------------------
(* The steps of an upload, and the end of a row. *)

(* Growth of the bucket under an upload's step keeps what holds of rows.   *)
LEMMA UploadStep ==
  ASSUME IInv, NEW u \in uploads, Grows, UNCHANGED <<table, code>>,
         faults' \in 0..MaxFaults,
         uploads' \subseteq Upload, drain' \in [Drains -> DrainState],
         \A w \in uploads' : \/ w \in uploads \/ w.stage # "attestation"
           \/ /\ w = [u EXCEPT !.stage = "attestation"]
              /\ ObjectOf(u.row, u.code) \in objects' \cup Spoiled \cup vanished',
         \A d \in Drains : drain'[d].pc = "mark" => drain'[d] = drain[d],
         \A a \in attestations' : a \in attestations \/
           <<a[1], a[2]>> \in objects \cup Spoiled \cup vanished
  PROVE  IInv'
<1>1. TypeOK'
  BY DEF IInv, TypeOK, table, Grows
<1>2. MarkSound'
  <2> SUFFICES ASSUME NEW d \in Drains, drain'[d].pc = "mark"
               PROVE  Reads(drain[d].row, drain[d].hash)'
    BY DEF MarkSound
  <2>1. drain'[d] = drain[d] /\ Reads(drain[d].row, drain[d].hash)
    BY DEF IInv, MarkSound
  <2> QED
    BY <2>1 DEF Grows, Reads, ObjectOf, AttestationOf
<1>3. PutFirst'
  <2> SUFFICES ASSUME NEW w \in uploads', w.stage = "attestation"
               PROVE  ObjectOf(w.row, w.code) \in objects' \cup Spoiled \cup vanished'
    BY DEF PutFirst, ObjectOf
  <2>1. CASE w \in uploads
    BY <2>1 DEF IInv, PutFirst, Grows
  <2>2. CASE /\ w = [u EXCEPT !.stage = "attestation"]
             /\ ObjectOf(u.row, u.code) \in objects' \cup Spoiled \cup vanished'
    <3>1. w.row = u.row /\ w.code = u.code
      BY <2>2, UploadFields DEF IInv, Upload
    <3> QED
      BY <2>2, <3>1
  <2> QED
    BY <2>1, <2>2
<1>4. NothingForgotten'
  <2> SUFFICES ASSUME NEW r \in Rows, row'[r] = "slim"
               PROVE  Reads(r, hash[r])' /\ hash'[r] = hash[r]
    BY DEF NothingForgotten, Reads, table
  <2>1. row[r] = "slim" /\ hash'[r] = hash[r]
    BY DEF table
  <2> QED
    BY <2>1 DEF IInv, NothingForgotten, Grows, Reads, ObjectOf, AttestationOf, table
<1>5. AttestedAfterVerdict'
  BY DEF IInv, AttestedAfterVerdict, Grows
<1> QED
  BY <1>1, <1>2, <1>3, <1>4, <1>5 DEF IInv

LEMMA FaultType ==
  ASSUME IInv, Fault \/ Sound
  PROVE  faults' \in 0..MaxFaults
BY BoundAssumption DEF IInv, TypeOK, Fault, Sound

LEMMA PutObjectKeeps ==
  ASSUME IInv, NEW u \in uploads, PutObject(u)
  PROVE  IInv'
<1> DEFINE name == ObjectOf(u.row, u.code)
<1>1. name \in Objects
  BY UploadFields DEF IInv
<1>2. Grows /\ UNCHANGED <<table, code>>
  BY <1>1 DEF PutObject, Put, Grows, IInv, TypeOK
<1>3. faults' \in 0..MaxFaults
  BY FaultType DEF PutObject
<1>4. \A a \in attestations' : a \in attestations
  BY DEF PutObject
<1>5. CASE AfterObject(u) /\ name \in objects' \cup Spoiled \cup vanished'
  BY <1>2, <1>3, <1>4, <1>5, AfterObjectKeeps, UploadStep
<1>6. CASE AfterFailure(u)
  <2>1. Ends(u, FALSE)
    BY <1>6 DEF AfterFailure
  <2> QED
    BY <1>2, <1>3, <1>4, <2>1, EndsKeeps, UploadStep
<1>7. \/ AfterObject(u) /\ name \in objects' \cup Spoiled \cup vanished'
      \/ AfterFailure(u)
  BY DEF PutObject, Put
<1> QED
  BY <1>5, <1>6, <1>7

LEMMA PutAttestationKeeps ==
  ASSUME IInv, NEW u \in uploads, PutAttestation(u)
  PROVE  IInv'
<1> DEFINE name == AttestationOf(u.row, u.code)
<1>1. name \in Attestations
  BY UploadFields DEF IInv
<1>2. Grows /\ UNCHANGED <<table, code>>
  BY <1>1 DEF PutAttestation, Grows, IInv, TypeOK
<1>3. faults' \in 0..MaxFaults
  BY FaultType DEF PutAttestation
<1>4. \A a \in attestations' : a \in attestations \/
        <<a[1], a[2]>> \in objects \cup Spoiled \cup vanished
  <2>1. ObjectOf(u.row, u.code) \in objects \cup Spoiled \cup vanished
    BY DEF PutAttestation, IInv, PutFirst
  <2>2. <<name[1], name[2]>> = ObjectOf(u.row, u.code)
    BY DEF AttestationOf, ObjectOf
  <2>3. \A a \in attestations' : a \in attestations \/ a = name
    BY DEF PutAttestation
  <2> HIDE DEF name
  <2> QED
    BY <2>1, <2>2, <2>3
<1>5. CASE Goes(u, "reread")
  <2>1. "reread" \in Stage
    BY DEF Stage
  <2>2. [u EXCEPT !.stage = "reread"].stage = "reread"
    BY UploadFields DEF IInv, Upload
  <2>3. \A w \in uploads' : w \in uploads \/ w.stage # "attestation"
    BY <1>5, <2>1, <2>2, GoesKeeps
  <2>4. drain' \in [Drains -> DrainState] /\ drain' = drain /\ uploads' \subseteq Upload
    BY <1>5, <2>1, GoesKeeps DEF IInv, TypeOK
  <2> QED
    BY <1>2, <1>3, <1>4, <2>3, <2>4, UploadStep
<1>6. CASE Ends(u, FALSE)
  BY <1>2, <1>3, <1>4, <1>6, EndsKeeps, UploadStep
<1> QED
  BY <1>5, <1>6 DEF PutAttestation

LEMMA ReReadKeeps ==
  ASSUME IInv, NEW u \in uploads, ReRead(u)
  PROVE  IInv'
<1>1. faults' \in 0..MaxFaults /\ UNCHANGED <<table, code, bucket>>
  BY FaultType DEF ReRead
<1>2. PICK stored \in BOOLEAN : Ends(u, stored) /\ (stored => Reads(u.row, u.code))
  <2>1. Reads(u.row, u.code) \in BOOLEAN
    BY DEF Reads
  <2> QED
    BY <2>1 DEF ReRead, Confirmed
<1> QED
  BY <1>1, <1>2, EndsKeeps, DrainStep

LEMMA TimeOutKeeps ==
  ASSUME IInv, NEW d \in Drains, NEW u \in uploads, TimeOut(d, u)
  PROVE  IInv'
<1> DEFINE w == [u EXCEPT !.awaited = FALSE]
<1>1. w \in Upload /\ w.stage = u.stage /\ w.row = u.row /\ w.code = u.code
  BY UploadFields DEF IInv, Upload
<1>2. faults' \in 0..MaxFaults
  BY FaultType DEF TimeOut
<1>3. uploads' = (uploads \ {u}) \cup {w} /\ drain' = [drain EXCEPT ![d] = Skipped(d, u.row)]
  BY DEF TimeOut
<1> HIDE DEF w
<1>4. drain' \in [Drains -> DrainState] /\
      \A e \in Drains : drain'[e].pc = "mark" => drain'[e] = drain[e]
  BY <1>3, SkippedType DEF IInv, TypeOK
<1>5. uploads' \subseteq Upload
  BY <1>1, <1>3 DEF IInv, TypeOK
<1>6. \A x \in uploads' : x.stage = "attestation" =>
        \E y \in uploads : /\ y.stage = x.stage /\ y.row = x.row
                          /\ y.code = x.code
  BY <1>1, <1>3
<1> QED
  BY <1>2, <1>4, <1>5, <1>6, DrainStep DEF TimeOut

LEMMA MarkKeeps ==
  ASSUME IInv, NEW d \in Drains, Mark(d)
  PROVE  IInv'
<1> DEFINE r == drain[d].row
<1>1. r \in Rows /\ drain[d].hash \in Versions /\ drain[d].hash \in 0..MaxVersion
  BY DEF IInv, TypeOK, DrainState, Versions
<1>2. drain' \in [Drains -> DrainState] /\
      \A e \in Drains : drain'[e].pc = "mark" => drain'[e] = drain[e]
  BY SkippedType DEF Mark, IInv, TypeOK
<1>3. TypeOK'
  BY <1>1, <1>2 DEF Mark, IInv, TypeOK, RowState, bucket
<1>4. MarkSound'
  BY <1>2 DEF Mark, IInv, MarkSound, Reads, ObjectOf, AttestationOf, bucket
<1>5. PutFirst' /\ AttestedAfterVerdict'
  BY DEF Mark, IInv, PutFirst, AttestedAfterVerdict, ObjectOf, bucket
<1>6. NothingForgotten'
  <2> SUFFICES ASSUME NEW q \in Rows, row'[q] = "slim"
               PROVE  Reads(q, hash'[q])
    BY DEF NothingForgotten, Reads, ObjectOf, AttestationOf, Mark, bucket
  <2>1. CASE q = r /\ Matches(d, r)
    <3>1. Reads(r, drain[d].hash)
      BY DEF IInv, MarkSound, Mark
    <3>2. hash'[q] = drain[d].hash
      BY <1>1, <2>1 DEF Mark, IInv, TypeOK
    <3> QED
      BY <2>1, <3>1, <3>2
  <2>2. CASE ~(q = r /\ Matches(d, r))
    <3>1. row[q] = "slim" /\ hash'[q] = hash[q]
      BY <2>2 DEF Mark, IInv, TypeOK
    <3> QED
      BY <3>1 DEF IInv, NothingForgotten
  <2> QED
    BY <2>1, <2>2
<1> QED
  BY <1>3, <1>4, <1>5, <1>6 DEF IInv

LEMMA DieKeeps ==
  ASSUME IInv, NEW d \in Drains, Die(d)
  PROVE  IInv'
<1>1. faults' \in 0..MaxFaults
  BY FaultType DEF Die
<1>2. drain' \in [Drains -> DrainState] /\
      \A e \in Drains : drain'[e].pc = "mark" => drain'[e] = drain[e]
  <2>1. Idle \in DrainState /\ Idle.pc # "mark"
    BY IdleType DEF Idle
  <2> QED
    BY <2>1 DEF Die, IInv, TypeOK
<1>3. \A x \in uploads' : x \in Upload /\
        \E y \in uploads : /\ y.stage = x.stage /\ y.row = x.row
                          /\ y.code = x.code
  <2> SUFFICES ASSUME NEW x \in uploads'
               PROVE  x \in Upload /\
                 \E y \in uploads : y.stage = x.stage /\ y.row = x.row /\ y.code = x.code
    OBVIOUS
  <2>1. CASE x \in uploads
    BY <2>1 DEF IInv, TypeOK
  <2>2. CASE \E y \in uploads : x = [y EXCEPT !.awaited = FALSE]
    <3>1. PICK y \in uploads : x = [y EXCEPT !.awaited = FALSE]
      BY <2>2
    <3>2. x \in Upload /\ y.stage = x.stage /\ y.row = x.row /\ y.code = x.code
      BY <3>1, UploadFields DEF IInv, Upload
    <3> QED
      BY <3>2
  <2>3. x \in uploads \/ \E y \in uploads : x = [y EXCEPT !.awaited = FALSE]
    BY DEF Die
  <2> QED
    BY <2>1, <2>2, <2>3
<1> QED
  BY <1>1, <1>2, <1>3, DrainStep DEF Die
-----------------------------------------------------------------------------
(* The invariant is inductive. *)

LEMMA Stutter ==
  ASSUME IInv, UNCHANGED vars
  PROVE  IInv'
BY DEF vars, IInv, TypeOK, MarkSound, PutFirst, NothingForgotten,
       AttestedAfterVerdict, Reads, ObjectOf, AttestationOf

LEMMA Inductive == IInv /\ [Next]_vars => IInv'
<1> SUFFICES ASSUME IInv, [Next]_vars PROVE IInv'
  OBVIOUS
<1>1. ASSUME NEW r \in Rows, Submit(r) \/ Teardown(r)
      PROVE  IInv'
  BY <1>1, SubmitKeeps, TeardownKeeps
<1>2. ASSUME NEW s \in Deployments, Redeploy(s)
      PROVE  IInv'
  BY <1>2, RedeployKeeps
<1>3. ASSUME NEW d \in Drains, Drain(d)
      PROVE  IInv'
  <2>1. CASE Start(d)
    BY <2>1, StartKeeps
  <2>2. CASE ReadPage(d)
    BY <2>2, ReadPageKeeps
  <2>3. CASE ReadBatch(d)
    BY <2>3, ReadBatchKeeps
  <2>4. CASE Mark(d)
    BY <2>4, MarkKeeps
  <2>5. ASSUME NEW r \in Rows, Send(d, r) \/ Leave(d, r)
        PROVE  IInv'
    BY <2>5, SendKeeps, LeaveKeeps
  <2> QED
    BY <1>3, <2>1, <2>2, <2>3, <2>4, <2>5 DEF Drain
<1>4. ASSUME NEW d \in Drains, Die(d)
      PROVE  IInv'
  BY <1>4, DieKeeps
<1>5. ASSUME NEW d \in Drains, NEW u \in uploads, TimeOut(d, u)
      PROVE  IInv'
  BY <1>5, TimeOutKeeps
<1>6. ASSUME NEW u \in uploads, Step(u)
      PROVE  IInv'
  BY <1>6, PutObjectKeeps, PutAttestationKeeps, ReReadKeeps DEF Step
<1> QED
  BY <1>1, <1>2, <1>3, <1>4, <1>5, <1>6, Stutter DEF Next

LEMMA Invariance == Spec => []IInv
BY Initial, Inductive, PTL DEF Spec

(* Every state of the outbox is well typed, whatever its size. *)
THEOREM TypeCorrect == Spec => []TypeOK
<1>1. IInv => TypeOK
  BY DEF IInv
<1> QED
  BY <1>1, Invariance, PTL

(* markStored never lets a row forget a judgement the bucket does not hold *)
(* and attest, for any number of racing drains, deployments and faults.    *)
THEOREM NeverForgotten == Spec => []NothingForgotten
<1>1. IInv => NothingForgotten
  BY DEF IInv
<1> QED
  BY <1>1, Invariance, PTL

(* storeOutboxRow's order of puts: no attestation without its verdict,     *)
(* but for a verdict the bucket itself acknowledged and lost.              *)
THEOREM NeverDangling == Spec => []AttestedAfterVerdict
<1>1. IInv => AttestedAfterVerdict
  BY DEF IInv
<1> QED
  BY <1>1, Invariance, PTL

-----------------------------------------------------------------------------
(* The outbox implements the archive. *)

LEMMA ArchiveTypes ==
  ASSUME TypeOK
  PROVE  archive \subseteq Objects \cup Attestations
BY DEF TypeOK, archive

(* A step of the bucket enters its objects, and nothing else.              *)
LEMMA BucketRecords ==
  ASSUME IInv, Grows, UNCHANGED row
  PROVE  [Archive!Next]_(Archive!vars)
<1>1. archive \subseteq archive'
  BY DEF archive, Grows
<1>2. archive' \subseteq Objects \cup Attestations
  BY DEF archive, Grows
<1>3. CASE archive' = archive
  BY <1>3 DEF Archive!vars
<1>4. CASE archive' # archive
  <2>1. Archive!Record
    BY <1>1, <1>2, <1>4 DEF Archive!Record
  <2> QED
    BY <2>1 DEF Archive!Next
<1> QED
  BY <1>3, <1>4

LEMMA QuietStep ==
  ASSUME UNCHANGED <<row, objects, attestations>>
  PROVE  [Archive!Next]_(Archive!vars)
BY DEF Archive!vars, archive

LEMMA MarkForgets ==
  ASSUME IInv, NEW d \in Drains, Mark(d)
  PROVE  [Archive!Next]_(Archive!vars)
<1> DEFINE v == drain[d].hash
<1>0. PICK r \in Rows : r = drain[d].row
  BY DEF IInv, TypeOK, DrainState
<1>1. CASE ~ Matches(d, r)
  BY <1>0, <1>1, QuietStep DEF Mark, bucket
<1>2. CASE Matches(d, r)
  <2>1. r \in Rows /\ v \in Versions
    BY <1>0 DEF IInv, TypeOK, DrainState
  <2>2. Reads(r, v)
    BY <1>0 DEF IInv, MarkSound, Mark
  <2>3. KeysOf[r] \cap archive # {}
    <3>1. CASE r \in Resolutions
      <4>1. ObjectOf(r, v) \in KeysOf[r] /\ ObjectOf(r, v)[1] = JudgementOf[r]
        BY <2>1, <3>1 DEF KeysOf, ObjectOf
      <4>2. ObjectOf(r, v) \in archive
        BY <2>2, <3>1, <4>1 DEF archive, Reads
      <4> QED
        BY <4>1, <4>2
    <3>2. CASE r \notin Resolutions
      <4> DEFINE a == AttestationOf(r, v)
      <4>1. a \in KeysOf[r] /\ <<a[1], a[2]>> = ObjectOf(r, v)
        BY <2>1, <3>2 DEF KeysOf, AttestationOf, ObjectOf
      <4>2. a \in attestations /\ ObjectOf(r, v) \in objects
        BY <2>2, <3>2 DEF Reads
      <4> HIDE DEF a
      <4>3. a \in archive
        BY <4>1, <4>2 DEF archive
      <4> QED
        BY <4>1, <4>3
    <3> QED
      BY <3>1, <3>2
  <2>4. row[r] = "fat" /\ row' = [row EXCEPT ![r] = "slim"]
    BY <1>0, <1>2 DEF Mark, Matches, StillFat
  <2>5. archive' = archive
    BY DEF Mark, bucket, archive
  <2>6. Archive!Forget(r)
    BY <2>1, <2>3, <2>4, <2>5 DEF Archive!Forget, IInv, TypeOK
  <2> QED
    BY <2>1, <2>6 DEF Archive!Next
<1> QED
  BY <1>1, <1>2

LEMMA StepRefines == IInv /\ [Next]_vars => [Archive!Next]_(Archive!vars)
<1> SUFFICES ASSUME IInv, [Next]_vars PROVE [Archive!Next]_(Archive!vars)
  OBVIOUS
<1>1. ASSUME NEW r \in Rows, Submit(r)
      PROVE  [Archive!Next]_(Archive!vars)
  <2>1. archive' = archive
    BY <1>1 DEF Submit, bucket, archive
  <2>2. Archive!Give(r)
    BY <1>1, <2>1 DEF Submit, Archive!Give, IInv, TypeOK
  <2> QED
    BY <2>2 DEF Archive!Next
<1>2. ASSUME NEW r \in Rows, Teardown(r)
      PROVE  [Archive!Next]_(Archive!vars)
  <2>1. archive' = archive
    BY <1>2 DEF Teardown, bucket, archive
  <2>2. Archive!Remove(r)
    BY <1>2, <2>1 DEF Teardown, Archive!Remove, IInv, TypeOK
  <2> QED
    BY <2>2 DEF Archive!Next
<1>3. ASSUME NEW s \in Deployments, Redeploy(s)
      PROVE  [Archive!Next]_(Archive!vars)
  BY <1>3, QuietStep DEF Redeploy, table, bucket
<1>4. ASSUME NEW d \in Drains, Drain(d)
      PROVE  [Archive!Next]_(Archive!vars)
  <2>1. CASE Mark(d)
    BY <2>1, MarkForgets
  <2>2. CASE Start(d) \/ ReadPage(d) \/ ReadBatch(d)
    BY <2>2, QuietStep DEF Start, ReadPage, ReadBatch, table, bucket
  <2>3. ASSUME NEW r \in Rows, Send(d, r) \/ Leave(d, r)
        PROVE  [Archive!Next]_(Archive!vars)
    BY <2>3, QuietStep DEF Send, Leave, table, bucket
  <2> QED
    BY <1>4, <2>1, <2>2, <2>3 DEF Drain
<1>5. ASSUME NEW d \in Drains, Die(d)
      PROVE  [Archive!Next]_(Archive!vars)
  BY <1>5, QuietStep DEF Die, table, bucket
<1>6. ASSUME NEW d \in Drains, NEW u \in uploads, TimeOut(d, u)
      PROVE  [Archive!Next]_(Archive!vars)
  BY <1>6, QuietStep DEF TimeOut, table, bucket
<1>7. ASSUME NEW u \in uploads, Step(u)
      PROVE  [Archive!Next]_(Archive!vars)
  <2>1. ObjectOf(u.row, u.code) \in Objects /\ AttestationOf(u.row, u.code) \in Attestations
    BY UploadFields DEF IInv
  <2>2. CASE PutObject(u)
    <3>1. Grows /\ UNCHANGED row
      BY <2>1, <2>2 DEF PutObject, Put, Grows, IInv, TypeOK, table
    <3> QED
      BY <3>1, BucketRecords
  <2>3. CASE PutAttestation(u)
    <3>1. Grows /\ UNCHANGED row
      BY <2>1, <2>3 DEF PutAttestation, Grows, IInv, TypeOK, table
    <3> QED
      BY <3>1, BucketRecords
  <2>4. CASE ReRead(u)
    BY <2>4, QuietStep DEF ReRead, table, bucket
  <2> QED
    BY <1>7, <2>2, <2>3, <2>4 DEF Step
<1>8. CASE UNCHANGED vars
  BY <1>8, QuietStep DEF vars
<1> QED
  BY <1>1, <1>2, <1>3, <1>4, <1>5, <1>6, <1>7, <1>8 DEF Next

(* The outbox is an implementation of VerdictArchive: a judgement given    *)
(* leaves its deployment only for an archive that holds it, attested.      *)
THEOREM ImplementsArchive == Spec => Archives
<1>1. Init => Archive!Init
  BY DEF Init, Archive!Init, archive
<1> QED
  BY <1>1, StepRefines, Invariance, PTL DEF Spec, Archives, Archive!Spec
=============================================================================
