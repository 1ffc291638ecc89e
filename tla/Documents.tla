------------------------------ MODULE Documents ------------------------------
(***************************************************************************)
(* The document version pipeline and the review workflow                   *)
(* (modules/documents/document.service.ts): upload targets, intents,       *)
(* uploaded bytes, confirmations, official files and status changes.       *)
(*                                                                         *)
(* Each API call is a request running in a process of Proc.  A request     *)
(* reads rows, waits for the database or the object store, and later saves *)
(* the entities it read; saving overwrites the whole row with the entity   *)
(* in memory, so what it holds may be stale by then.  A transaction is one *)
(* step.  An operator named X_Fault and marked "mutant" is X with a fault  *)
(* that the runs must notice; no other definition uses it.                 *)
(***************************************************************************)
EXTENDS DocumentStatus, Naturals, Sequences

CONSTANTS
    Actor,        \* users
    RoleOf,       \* their role
    Owner,        \* the customer a document belongs to
    Serves,       \* <<staff member, customer>>: agent assignments and managers
    Doc, Version, \* document and version ids
    Proc,         \* requests that can be in flight at once
    None,         \* a null column, a row that does not exist
    LocalUploads, \* TRUE when no S3 bucket is configured
    OverrideTo,   \* the statuses the admin override is used to set
    MaxHistory    \* bound: history rows of a document

ASSUME PeopleAssumption ==
    /\ RoleOf \in [Actor -> Roles]
    /\ Owner \in [Doc -> Actor]
    /\ Serves \subseteq Actor \X Actor

ASSUME BoundsAssumption ==
    /\ LocalUploads \in BOOLEAN
    /\ OverrideTo \subseteq Status
    /\ MaxHistory \in Nat

VARIABLES
    doc,    \* documents: id -> row or None
    ver,    \* document_versions: id -> row or None
    hist,   \* document_status_history: document -> rows in commit order
    stored, \* versions whose stored object passes the HEAD, size and type checks
    lapsed, \* versions whose upload window (INTENT_TTL_MS) is over
    req     \* the requests in flight

vars == <<doc, ver, hist, stored, lapsed, req>>

-----------------------------------------------------------------------------
(* Rows *)

Kind == {"customer", "staff_on_behalf", "official", "phase_result"}

\* current: currentVersionId with the fileName and s3Key mirrored from it.
\* approved: the version the approved* columns were copied from.
DocRow == [status: Status, current: Version \cup {None}, approved: Version \cup {None}]

VerRow == [doc: Doc, kind: Kind, no: Nat, status: {"intent", "ready"}]

HistRow == [from: Status, to: Status, ver: Version \cup {None}]

ASSUME NoneAssumption == None \notin Doc \cup Version \cup Actor \cup Status \cup DocRow \cup VerRow

Intent(d, k, n) == [doc |-> d, kind |-> k, no |-> n, status |-> "intent"]

\* The version a confirmation saves.
MadeReady(vrow) == [vrow EXCEPT !.status = "ready"]

\* The document a confirmation saves: an official file lands in the approved*
\* columns, any other becomes the current version.
Mirrored_StatusKept(row, vrow, v, to) ==  \* mutant
    IF vrow.kind = "official" THEN [row EXCEPT !.approved = v] ELSE [row EXCEPT !.current = v]
Mirrored_OverCurrent(row, vrow, v, to) ==  \* mutant
    [row EXCEPT !.status = to, !.current = v, !.approved = IF vrow.kind = "official" THEN v ELSE @]
Mirrored_ApprovedLost(row, vrow, v, to) ==  \* mutant
    [row EXCEPT !.status = to, !.current = IF vrow.kind = "official" THEN @ ELSE v]
Mirrored(row, vrow, v, to) ==
    IF vrow.kind = "official" THEN [row EXCEPT !.status = to, !.approved = v]
                              ELSE [row EXCEPT !.status = to, !.current = v]

\* The history row of a move, from the document as it was read.
Entry_AfterSave(row, to, v) == [from |-> to, to |-> to, ver |-> v]  \* mutant
Entry_BeforeMove(row, to, v) == [from |-> row.status, to |-> row.status, ver |-> v]  \* mutant
Entry(row, to, v) == [from |-> row.status, to |-> to, ver |-> v]

VersionsOf(d) == {v \in Version : ver[v] # None /\ ver[v].doc = d}

(* Requests: what each keeps in memory across an await. *)

Idle == [pc |-> "idle"]

Request ==
    {Idle}
    \cup [pc: {"first_version"}, doc: Doc, kind: Kind]
    \cup [pc: {"number_version"}, doc: Doc, kind: Kind, then: Actor \cup {None}]
    \cup [pc: {"insert_version"}, doc: Doc, kind: Kind, no: Nat, then: Actor \cup {None}]
    \cup [pc: {"store_bytes"}, actor: Actor, doc: Doc, ver: Version]
    \cup [pc: {"receive_bytes"}, ver: Version, vrow: VerRow]
    \cup [pc: {"find_version"}, actor: Actor, doc: Doc, row: DocRow, ver: Version]
    \cup [pc: {"commit_version"}, doc: Doc, row: DocRow, ver: Version, vrow: VerRow, to: Status]
    \cup [pc: {"commit_result"}, ver: Version, vrow: VerRow]
    \cup [pc: {"commit_status"}, doc: Doc, row: DocRow, to: Status, expected: Status \cup {None}]

At(p, label) == req[p].pc = label

Goto(p, r) == req' = [req EXCEPT ![p] = r]

(* Access and lock rules *)

\* assertCanReadDocument
CanRead(a, d) ==
    CASE RoleOf[a] = "customer" -> Owner[d] = a
      [] RoleOf[a] = "agent"    -> <<a, Owner[d]>> \in Serves
      [] OTHER                  -> TRUE

\* assertCanManagePhases, the door to phase results
CanManagePhases(a, d) ==
    \/ RoleOf[a] = "admin"
    \/ RoleOf[a] = "manager" /\ <<a, Owner[d]>> \in Serves

\* The kinds of version a role may add: a customer's is fixed, staff choose.
KindsFor(role) ==
    IF role = "customer" THEN {"customer"} ELSE {"staff_on_behalf", "official"}

\* assertCanCreateVersion, the lock rule
Admits(row, kind) ==
    IF kind = "official" THEN row.status = "submitted_to_government"
    ELSE row.status \in {"pending", "rejected"}

\* The status a confirmation moves a document to, given the row it has read.
StatusAfter_Unlisted(row, kind) ==  \* mutant
    IF kind = "official" THEN "approved" ELSE "submitted"
StatusAfter(row, kind) ==
    IF kind = "official" THEN "approved"
    ELSE IF row.status = "rejected" THEN "pending"
    ELSE row.status

\* The transition check of confirmVersion.
MayConfirm_OfficialUnchecked(role, row, kind) ==  \* mutant
    row.status = "rejected" /\ kind # "official" => CanRoleTransition(role, row.status, "pending")
MayConfirm(role, row, kind) ==
    kind = "official" \/ row.status = "rejected"
        => CanRoleTransition(role, row.status, StatusAfter(row, kind))

Init ==
    /\ doc = [d \in Doc |-> None]
    /\ ver = [v \in Version |-> None]
    /\ hist = [d \in Doc |-> <<>>]
    /\ stored = {}
    /\ lapsed = {}
    /\ req = [p \in Proc |-> Idle]

-----------------------------------------------------------------------------
(* Issuing upload targets *)

\* createUploadTarget: the document row is saved on its own ...
CreateUploadTarget(p, a, d) ==
    /\ At(p, "idle")
    /\ doc[d] = None
    /\ CanRead(a, d)
    /\ doc' = [doc EXCEPT ![d] = [status |-> "pending", current |-> None, approved |-> None]]
    /\ Goto(p, [pc |-> "first_version", doc |-> d,
                kind |-> IF RoleOf[a] = "customer" THEN "customer" ELSE "staff_on_behalf"])
    /\ UNCHANGED <<ver, hist, stored, lapsed>>

\* ... and its first version after it, numbered 1 without looking.
InsertFirstVersion(p, v) ==
    /\ At(p, "first_version")
    /\ ver[v] = None
    /\ ver' = [ver EXCEPT ![v] = Intent(req[p].doc, req[p].kind, 1)]
    /\ Goto(p, Idle)
    /\ UNCHANGED <<doc, hist, stored, lapsed>>

\* The checks of createVersionIntent and uploadOfficialVersion.  then names the
\* actor when the same call goes on to store and confirm the file.
RequestVersion(p, a, d, kind, then) ==
    /\ At(p, "idle")
    /\ doc[d] # None
    /\ CanRead(a, d)
    /\ kind \in KindsFor(RoleOf[a])
    /\ Admits(doc[d], kind)
    /\ Goto(p, [pc |-> "number_version", doc |-> d, kind |-> kind, then |-> then])
    /\ UNCHANGED <<doc, ver, hist, stored, lapsed>>

CreateVersionIntent(p, a, d, kind) == RequestVersion(p, a, d, kind, None)

\* uploadCustomerVersion and uploadOfficialVersion: the server holds the bytes.
UploadVersion(p, a, d, kind) == RequestVersion(p, a, d, kind, a)

\* createPhaseResultIntent, reached through phase.service: no lock rule.
CreatePhaseResultIntent(p, a, d) ==
    /\ At(p, "idle")
    /\ doc[d] # None
    /\ CanManagePhases(a, d)
    /\ Goto(p, [pc |-> "number_version", doc |-> d, kind |-> "phase_result", then |-> None])
    /\ UNCHANGED <<doc, ver, hist, stored, lapsed>>

\* nextVersionNo: one more than the largest number in the table (0 when empty).
NumbersTaken_Ready(d) ==  \* mutant
    {0} \cup {ver[v].no : v \in {w \in VersionsOf(d) : ver[w].status = "ready"}}
NumbersTaken(d) == {0} \cup {ver[v].no : v \in VersionsOf(d)}

NumberVersion(p) ==
    /\ At(p, "number_version")
    /\ \E m \in NumbersTaken(req[p].doc) :
             /\ \A n \in NumbersTaken(req[p].doc) : n <= m
             /\ Goto(p, [pc |-> "insert_version", doc |-> req[p].doc, kind |-> req[p].kind,
                         no |-> m + 1, then |-> req[p].then])
    /\ UNCHANGED <<doc, ver, hist, stored, lapsed>>

InsertVersion(p, v) ==
    /\ At(p, "insert_version")
    /\ ver[v] = None
    /\ ver' = [ver EXCEPT ![v] = Intent(req[p].doc, req[p].kind, req[p].no)]
    /\ Goto(p, IF req[p].then = None THEN Idle
               ELSE [pc |-> "store_bytes", actor |-> req[p].then, doc |-> req[p].doc, ver |-> v])
    /\ UNCHANGED <<doc, hist, stored, lapsed>>

\* The upload window of an intent passes (nothing asks once it is confirmed).
Lapse(v) ==
    /\ ver[v] # None /\ ver[v].status = "intent" /\ v \notin lapsed
    /\ lapsed' = lapsed \cup {v}
    /\ UNCHANGED <<doc, ver, hist, stored, req>>

-----------------------------------------------------------------------------
(* Bytes *)

\* A file lands under the version's key; it may be acceptable or not.
PutFile(v) == stored' = stored \cup {v} \/ stored' = stored \ {v}

\* The client posts to the presigned S3 form while it is good for: no API call,
\* no row changes (nothing checks the object again once it is confirmed).
PutObject(v) ==
    /\ ~LocalUploads
    /\ ver[v] # None /\ ver[v].status = "intent" /\ v \notin lapsed
    /\ PutFile(v)
    /\ UNCHANGED <<doc, ver, hist, lapsed, req>>

\* uploadVersionBytes reads the version while it is an intent ...
BeginUploadBytes(p, a, d, v) ==
    /\ LocalUploads
    /\ At(p, "idle")
    /\ doc[d] # None
    /\ CanRead(a, d)
    /\ v \in VersionsOf(d) /\ ver[v].status = "intent"
    /\ Goto(p, [pc |-> "receive_bytes", ver |-> v, vrow |-> ver[v]])
    /\ UNCHANGED <<doc, ver, hist, stored, lapsed>>

\* ... stores the file and saves the row as it was read.
ReceiveBytes(p) ==
    /\ At(p, "receive_bytes")
    /\ PutFile(req[p].ver)
    /\ ver' = [ver EXCEPT ![req[p].ver] = req[p].vrow]
    /\ Goto(p, Idle)
    /\ UNCHANGED <<doc, hist, lapsed>>

-----------------------------------------------------------------------------
(* Confirmation *)

\* confirmVersion, first await: the document row is read.
BeginConfirm(p, a, d, v) ==
    /\ At(p, "idle")
    /\ doc[d] # None
    /\ CanRead(a, d)
    /\ ver[v] # None
    /\ Goto(p, [pc |-> "find_version", actor |-> a, doc |-> d, row |-> doc[d], ver |-> v])
    /\ UNCHANGED <<doc, ver, hist, stored, lapsed>>

\* The single-call uploads put the file and enter confirmVersion.
StoreBytes(p) ==
    /\ At(p, "store_bytes")
    /\ doc[req[p].doc] # None
    /\ PutFile(req[p].ver)
    /\ Goto(p, [pc |-> "find_version", actor |-> req[p].actor, doc |-> req[p].doc,
                row |-> doc[req[p].doc], ver |-> req[p].ver])
    /\ UNCHANGED <<doc, ver, hist, lapsed>>

\* The version is read and its object checked (HEAD, size, magic bytes); the
\* transition is checked against the document row read before.
ValidateVersion(p) ==
    /\ At(p, "find_version")
    /\ LET r == req[p]
           v == r.ver
           kind == ver[v].kind
       IN  /\ v \in VersionsOf(r.doc)
           /\ ver[v].status = "intent"
           /\ v \notin lapsed
           /\ v \in stored
           /\ MayConfirm(RoleOf[r.actor], r.row, kind)
           /\ Goto(p, [pc |-> "commit_version", doc |-> r.doc, row |-> r.row, ver |-> v,
                       vrow |-> ver[v], to |-> StatusAfter(r.row, kind)])
    /\ UNCHANGED <<doc, ver, hist, stored, lapsed>>

\* The transaction: version ready, document saved from memory, history row.
CommitVersion(p) ==
    /\ At(p, "commit_version")
    /\ Len(hist[req[p].doc]) < MaxHistory
    /\ LET r == req[p]
       IN  /\ ver' = [ver EXCEPT ![r.ver] = MadeReady(r.vrow)]
           /\ doc' = [doc EXCEPT ![r.doc] = Mirrored(r.row, r.vrow, r.ver, r.to)]
           /\ hist' = [hist EXCEPT ![r.doc] = Append(@, Entry(r.row, r.to, r.ver))]
    /\ Goto(p, Idle)
    /\ UNCHANGED <<stored, lapsed>>

\* confirmPhaseResultVersion: version read and its object checked ...
BeginConfirmResult(p, a, d, v) ==
    /\ At(p, "idle")
    /\ doc[d] # None
    /\ CanManagePhases(a, d)
    /\ v \in VersionsOf(d)
    /\ ver[v].kind = "phase_result" /\ ver[v].status = "intent"
    /\ v \notin lapsed
    /\ v \in stored
    /\ Goto(p, [pc |-> "commit_result", ver |-> v, vrow |-> ver[v]])
    /\ UNCHANGED <<doc, ver, hist, stored, lapsed>>

\* ... then saved as ready; the document row is not touched.
CommitResult(p) ==
    /\ At(p, "commit_result")
    /\ ver' = [ver EXCEPT ![req[p].ver] = MadeReady(req[p].vrow)]
    /\ Goto(p, Idle)
    /\ UNCHANGED <<doc, hist, stored, lapsed>>

-----------------------------------------------------------------------------
(* Review *)

\* updateDocumentStatus: the row is read and every check made on that copy.
BeginStatus(p, a, d, to, expected) ==
    /\ At(p, "idle")
    /\ MayMutateStatus(RoleOf[a])
    /\ doc[d] # None
    /\ CanRead(a, d)
    /\ expected \in {None, doc[d].status}
    /\ Goto(p, [pc |-> "commit_status", doc |-> d, row |-> doc[d], to |-> to, expected |-> expected])
    /\ UNCHANGED <<doc, ver, hist, stored, lapsed>>

UpdateStatus(p, a, d, to, expected) ==
    /\ doc[d] # None /\ CanRoleTransition(RoleOf[a], doc[d].status, to)
    /\ BeginStatus(p, a, d, to, expected)

\* The admin override skips the transition check, not the fromStatus guard.
OverrideStatus(p, a, d, to, expected) ==
    /\ RoleOf[a] = "admin"
    /\ BeginStatus(p, a, d, to, expected)

\* The transaction: history row, then the document saved from memory.
CommitStatus(p) ==
    /\ At(p, "commit_status")
    /\ Len(hist[req[p].doc]) < MaxHistory
    /\ LET r == req[p]
       IN  /\ hist' = [hist EXCEPT ![r.doc] = Append(@, Entry(r.row, r.to, None))]
           /\ doc' = [doc EXCEPT ![r.doc] = [r.row EXCEPT !.status = r.to]]
    /\ Goto(p, Idle)
    /\ UNCHANGED <<ver, stored, lapsed>>

\* A check that fails, an error from the store, or a process that dies: the
\* request ends where it stands and nothing it has saved is undone.
Abandon(p) ==
    /\ req[p] # Idle
    /\ Goto(p, Idle)
    /\ UNCHANGED <<doc, ver, hist, stored, lapsed>>

-----------------------------------------------------------------------------
(* What a caller is shown and may download; reads change nothing *)

\* listVersions
ListedVersions(a, d) ==
    {v \in VersionsOf(d) : /\ CanRead(a, d)
                           /\ ver[v].status = "ready"
                           /\ RoleOf[a] = "customer" => ver[v].kind # "staff_on_behalf"}

\* customerMayDownload: what staff made for the customer, official files once approved.
CustomerMayDownload(d, v) ==
    \/ ver[v].kind = "official" /\ doc[d].status = "approved"
    \/ ver[v].kind = "phase_result" /\ ver[v].status = "ready"

\* getVersionDownloadTarget
DownloadTargets(a, d) ==
    {v \in VersionsOf(d) : /\ CanRead(a, d)
                           /\ ver[v].status = "ready"
                           /\ RoleOf[a] = "customer" => CustomerMayDownload(d, v)}

\* getApprovedDocumentDownloadTarget
ApprovedTarget(a, d) ==
    IF CanRead(a, d) /\ (RoleOf[a] = "customer" => doc[d].status = "approved")
    THEN doc[d].approved ELSE None

-----------------------------------------------------------------------------

DocumentCall(p, a, d) ==
    \/ CreateUploadTarget(p, a, d)
    \/ \E k \in Kind : CreateVersionIntent(p, a, d, k) \/ UploadVersion(p, a, d, k)
    \/ CreatePhaseResultIntent(p, a, d)
    \/ \E v \in Version : \/ BeginUploadBytes(p, a, d, v)
                          \/ BeginConfirm(p, a, d, v)
                          \/ BeginConfirmResult(p, a, d, v)
    \/ \E to \in Status, expected \in Status \cup {None} : UpdateStatus(p, a, d, to, expected)
    \/ \E to \in OverrideTo, expected \in Status \cup {None} : OverrideStatus(p, a, d, to, expected)

Resume(p) ==
    \/ \E v \in Version : InsertFirstVersion(p, v) \/ InsertVersion(p, v)
    \/ NumberVersion(p)
    \/ ReceiveBytes(p)
    \/ StoreBytes(p)
    \/ ValidateVersion(p)
    \/ CommitVersion(p)
    \/ CommitResult(p)
    \/ CommitStatus(p)
    \/ Abandon(p)

Next ==
    \/ \E p \in Proc : (\E a \in Actor, d \in Doc : DocumentCall(p, a, d)) \/ Resume(p)
    \/ \E v \in Version : Lapse(v) \/ PutObject(v)

Spec == Init /\ [][Next]_vars
=============================================================================
