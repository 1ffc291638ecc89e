--------------------------- MODULE DocumentsProofs ---------------------------
(***************************************************************************)
(* What Documents does for every set of documents, versions, actors and    *)
(* overlapping requests.                                                   *)
(***************************************************************************)
EXTENDS DocumentsProperties, SequenceTheorems, TLAPS

\* What a request of each label holds.
LEMMA RequestAt ==
    ASSUME TypeOK, NEW p \in Proc
    PROVE  /\ At(p, "first_version") => req[p].doc \in Doc /\ req[p].kind \in Kind
           /\ At(p, "number_version") => /\ req[p].doc \in Doc /\ req[p].kind \in Kind
                                         /\ req[p].then \in Actor \cup {None}
           /\ At(p, "insert_version") => /\ req[p].doc \in Doc /\ req[p].kind \in Kind
                                         /\ req[p].no \in Nat /\ req[p].then \in Actor \cup {None}
           /\ At(p, "store_bytes") => /\ req[p].actor \in Actor /\ req[p].doc \in Doc
                                      /\ req[p].ver \in Version
           /\ At(p, "receive_bytes") => req[p].ver \in Version /\ req[p].vrow \in VerRow
           /\ At(p, "find_version") => /\ req[p].actor \in Actor /\ req[p].doc \in Doc
                                       /\ req[p].row \in DocRow /\ req[p].ver \in Version
           /\ At(p, "commit_version") => /\ req[p].doc \in Doc /\ req[p].row \in DocRow
                                         /\ req[p].ver \in Version /\ req[p].vrow \in VerRow
                                         /\ req[p].to \in Status
           /\ At(p, "commit_result") => req[p].ver \in Version /\ req[p].vrow \in VerRow
           /\ At(p, "commit_status") => /\ req[p].doc \in Doc /\ req[p].row \in DocRow
                                        /\ req[p].to \in Status
  <1> req[p] \in Request
      BY DEF TypeOK
  <1> QED  BY DEF Request, At, Idle

\* A request that changes what it holds, and nothing else, stays well typed.
LEMMA GotoType ==
    ASSUME TypeOK, NEW p \in Proc, NEW r \in Request, Goto(p, r)
    PROVE  req' \in [Proc -> Request]
  BY DEF TypeOK, Goto

LEMMA RequestTypes ==
    /\ Idle \in Request
    /\ \A d \in Doc, k \in Kind : [pc |-> "first_version", doc |-> d, kind |-> k] \in Request
    /\ \A d \in Doc, k \in Kind, t \in Actor \cup {None} :
          [pc |-> "number_version", doc |-> d, kind |-> k, then |-> t] \in Request
    /\ \A d \in Doc, k \in Kind, n \in Nat, t \in Actor \cup {None} :
          [pc |-> "insert_version", doc |-> d, kind |-> k, no |-> n, then |-> t] \in Request
    /\ \A a \in Actor, d \in Doc, v \in Version :
          [pc |-> "store_bytes", actor |-> a, doc |-> d, ver |-> v] \in Request
    /\ \A v \in Version, w \in VerRow : [pc |-> "receive_bytes", ver |-> v, vrow |-> w] \in Request
    /\ \A a \in Actor, d \in Doc, x \in DocRow, v \in Version :
          [pc |-> "find_version", actor |-> a, doc |-> d, row |-> x, ver |-> v] \in Request
    /\ \A d \in Doc, x \in DocRow, v \in Version, w \in VerRow, s \in Status :
          [pc |-> "commit_version", doc |-> d, row |-> x, ver |-> v, vrow |-> w, to |-> s] \in Request
    /\ \A v \in Version, w \in VerRow : [pc |-> "commit_result", ver |-> v, vrow |-> w] \in Request
    /\ \A d \in Doc, x \in DocRow, s \in Status, e \in Status \cup {None} :
          [pc |-> "commit_status", doc |-> d, row |-> x, to |-> s, expected |-> e] \in Request
  BY DEF Request

\* The rows the transactions write.
LEMMA SavedRows ==
    /\ \A w \in VerRow : MadeReady(w) \in VerRow
    /\ \A x \in DocRow, s \in Status :
          /\ [x EXCEPT !.status = s] \in DocRow
          /\ \A v \in Version, w \in VerRow : Mirrored(x, w, v, s) \in DocRow
    /\ \A x \in DocRow, s \in Status, v \in Version \cup {None} : Entry(x, s, v) \in HistRow
  BY DEF VerRow, DocRow, HistRow, MadeReady, Mirrored, Entry

\* A row appended to a document's history.
LEMMA AppendType ==
    ASSUME TypeOK, NEW d \in Doc, NEW e \in HistRow
    PROVE  [hist EXCEPT ![d] = Append(@, e)] \in [Doc -> Seq(HistRow)]
  <1> Append(hist[d], e) \in Seq(HistRow)
      BY DEF TypeOK
  <1> QED  BY DEF TypeOK

LEMMA InitType == Init => TypeOK
  BY RequestTypes DEF Init, TypeOK

\* API calls: only the request and, for a new document, its row change.
LEMMA CallType ==
    ASSUME TypeOK, NEW p \in Proc, NEW a \in Actor, NEW d \in Doc, DocumentCall(p, a, d)
    PROVE  TypeOK'
  <1> USE RequestTypes, GotoType
  <1>1. CASE CreateUploadTarget(p, a, d)
      <2>1. [status |-> "pending", current |-> None, approved |-> None] \in DocRow
          BY DEF DocRow, Status
      <2>2. req' \in [Proc -> Request]
          BY <1>1 DEF CreateUploadTarget, Kind
      <2> QED  BY <1>1, <2>1, <2>2 DEF CreateUploadTarget, TypeOK
  <1>2. ASSUME NEW k \in Kind, NEW t \in Actor \cup {None}, RequestVersion(p, a, d, k, t)
        PROVE  TypeOK'
      <2>1. req' \in [Proc -> Request]
          BY <1>2 DEF RequestVersion
      <2> QED  BY <1>2, <2>1 DEF RequestVersion, TypeOK
  <1>3. CASE CreatePhaseResultIntent(p, a, d)
      <2>1. req' \in [Proc -> Request]
          BY <1>3 DEF CreatePhaseResultIntent, Kind
      <2> QED  BY <1>3, <2>1 DEF CreatePhaseResultIntent, TypeOK
  <1>4. ASSUME NEW v \in Version, BeginUploadBytes(p, a, d, v)
        PROVE  TypeOK'
      <2>1. ver[v] \in VerRow
          BY <1>4 DEF BeginUploadBytes, VersionsOf, TypeOK
      <2>2. req' \in [Proc -> Request]
          BY <1>4, <2>1 DEF BeginUploadBytes
      <2> QED  BY <1>4, <2>2 DEF BeginUploadBytes, TypeOK
  <1>5. ASSUME NEW v \in Version, BeginConfirm(p, a, d, v)
        PROVE  TypeOK'
      <2>1. doc[d] \in DocRow
          BY <1>5 DEF BeginConfirm, TypeOK
      <2>2. req' \in [Proc -> Request]
          BY <1>5, <2>1 DEF BeginConfirm
      <2> QED  BY <1>5, <2>2 DEF BeginConfirm, TypeOK
  <1>6. ASSUME NEW v \in Version, BeginConfirmResult(p, a, d, v)
        PROVE  TypeOK'
      <2>1. ver[v] \in VerRow
          BY <1>6 DEF BeginConfirmResult, VersionsOf, TypeOK
      <2>2. req' \in [Proc -> Request]
          BY <1>6, <2>1 DEF BeginConfirmResult
      <2> QED  BY <1>6, <2>2 DEF BeginConfirmResult, TypeOK
  <1>7. ASSUME NEW s \in Status, NEW e \in Status \cup {None}, BeginStatus(p, a, d, s, e)
        PROVE  TypeOK'
      <2>1. doc[d] \in DocRow
          BY <1>7 DEF BeginStatus, TypeOK
      <2>2. req' \in [Proc -> Request]
          BY <1>7, <2>1 DEF BeginStatus
      <2> QED  BY <1>7, <2>2 DEF BeginStatus, TypeOK
  <1> QED
      BY <1>1, <1>2, <1>3, <1>4, <1>5, <1>6, <1>7, BoundsAssumption
      DEF DocumentCall, CreateVersionIntent, UploadVersion, UpdateStatus, OverrideStatus

\* The later steps of a call: rows are saved from what the request holds.
LEMMA ResumeType ==
    ASSUME TypeOK, NEW p \in Proc, Resume(p)
    PROVE  TypeOK'
  <1> USE RequestTypes, GotoType, RequestAt
  <1>1. ASSUME NEW v \in Version, InsertFirstVersion(p, v)
        PROVE  TypeOK'
      <2>1. Intent(req[p].doc, req[p].kind, 1) \in VerRow
          BY <1>1 DEF InsertFirstVersion, Intent, VerRow
      <2>2. req' \in [Proc -> Request]
          BY <1>1 DEF InsertFirstVersion
      <2> QED  BY <1>1, <2>1, <2>2 DEF InsertFirstVersion, TypeOK
  <1>2. ASSUME NEW v \in Version, InsertVersion(p, v)
        PROVE  TypeOK'
      <2>1. Intent(req[p].doc, req[p].kind, req[p].no) \in VerRow
          BY <1>2 DEF InsertVersion, Intent, VerRow
      <2>2. req' \in [Proc -> Request]
          BY <1>2 DEF InsertVersion
      <2> QED  BY <1>2, <2>1, <2>2 DEF InsertVersion, TypeOK
  <1>3. CASE NumberVersion(p)
      <2>1. NumbersTaken(req[p].doc) \subseteq Nat
          BY DEF NumbersTaken, VersionsOf, TypeOK, VerRow
      <2>2. PICK m \in Nat :
               Goto(p, [pc |-> "insert_version", doc |-> req[p].doc, kind |-> req[p].kind,
                        no |-> m + 1, then |-> req[p].then])
          BY <1>3, <2>1 DEF NumberVersion
      <2>3. req' \in [Proc -> Request]
          BY <1>3, <2>2 DEF NumberVersion
      <2> QED  BY <1>3, <2>3 DEF NumberVersion, TypeOK
  <1>4. CASE ReceiveBytes(p)
      <2>1. req' \in [Proc -> Request]
          BY <1>4 DEF ReceiveBytes
      <2> QED  BY <1>4, <2>1 DEF ReceiveBytes, PutFile, TypeOK
  <1>5. CASE StoreBytes(p)
      <2>1. doc[req[p].doc] \in DocRow
          BY <1>5 DEF StoreBytes, TypeOK
      <2>2. req' \in [Proc -> Request]
          BY <1>5, <2>1 DEF StoreBytes
      <2> QED  BY <1>5, <2>2 DEF StoreBytes, PutFile, TypeOK
  <1>6. CASE ValidateVersion(p)
      <2>1. /\ ver[req[p].ver] \in VerRow
            /\ StatusAfter(req[p].row, ver[req[p].ver].kind) \in Status
          BY <1>6 DEF ValidateVersion, VersionsOf, TypeOK, StatusAfter, DocRow, Status
      <2>2. req' \in [Proc -> Request]
          BY <1>6, <2>1 DEF ValidateVersion
      <2> QED  BY <1>6, <2>2 DEF ValidateVersion, TypeOK
  <1>7. CASE CommitVersion(p)
      <2>1. req' \in [Proc -> Request]
          BY <1>7 DEF CommitVersion
      <2>2. ver' \in [Version -> VerRow \cup {None}]
          BY <1>7, SavedRows DEF CommitVersion, TypeOK
      <2>3. doc' \in [Doc -> DocRow \cup {None}]
          BY <1>7, SavedRows DEF CommitVersion, TypeOK
      <2>4. hist' \in [Doc -> Seq(HistRow)]
          BY <1>7, SavedRows, AppendType DEF CommitVersion
      <2> QED  BY <1>7, <2>1, <2>2, <2>3, <2>4 DEF CommitVersion, TypeOK
  <1>8. CASE CommitResult(p)
      <2>1. req' \in [Proc -> Request]
          BY <1>8 DEF CommitResult
      <2>2. ver' \in [Version -> VerRow \cup {None}]
          BY <1>8, SavedRows DEF CommitResult, TypeOK
      <2> QED  BY <1>8, <2>1, <2>2 DEF CommitResult, TypeOK
  <1>9. CASE CommitStatus(p)
      <2>1. req' \in [Proc -> Request]
          BY <1>9 DEF CommitStatus
      <2>2. doc' \in [Doc -> DocRow \cup {None}]
          BY <1>9, SavedRows DEF CommitStatus, TypeOK
      <2>3. hist' \in [Doc -> Seq(HistRow)]
          BY <1>9, SavedRows, AppendType DEF CommitStatus
      <2> QED  BY <1>9, <2>1, <2>2, <2>3 DEF CommitStatus, TypeOK
  <1>10. CASE Abandon(p)
      <2> QED  BY <1>10 DEF Abandon, TypeOK
  <1> QED
      BY <1>1, <1>2, <1>3, <1>4, <1>5, <1>6, <1>7, <1>8, <1>9, <1>10 DEF Resume

LEMMA NextType == TypeOK /\ [Next]_vars => TypeOK'
  <1> SUFFICES ASSUME TypeOK, [Next]_vars PROVE TypeOK'
      OBVIOUS
  <1>1. ASSUME NEW v \in Version, Lapse(v) \/ PutObject(v)
        PROVE  TypeOK'
      BY <1>1 DEF Lapse, PutObject, PutFile, TypeOK
  <1>2. CASE UNCHANGED vars
      BY <1>2 DEF vars, TypeOK
  <1> QED  BY <1>1, <1>2, CallType, ResumeType DEF Next

\* Every row and every request in flight keeps its shape.
THEOREM TypeCorrect == Spec => []TypeOK
  <1> QED  BY InitType, NextType, PTL DEF Spec

-----------------------------------------------------------------------------
(* The file pointers *)

\* What a step may do to the versions: rows appear, keep their document and
\* kind, and stay confirmed unless local uploads may rewrite them.
VersionsKept ==
    \A v \in Version : ver[v] # None =>
        /\ ver'[v] # None
        /\ ver'[v].doc = ver[v].doc /\ ver'[v].kind = ver[v].kind
        /\ Confirmed(v) => Confirmed(v)'

Inv == TypeOK /\ PointersSound /\ HeldSound

\* Under such a step no sound row goes bad.
LEMMA SoundRowKept ==
    ASSUME VersionsKept, NEW d \in Doc, NEW x \in DocRow, SoundRow(d, x)
    PROVE  SoundRow(d, x)'
  BY DEF VersionsKept, SoundRow, Submission, OfficialFile, VersionsOf, DocRow, Confirmed

LEMMA KeepsKept ==
    ASSUME VersionsKept, NEW v \in Version, NEW w \in VerRow, Keeps(v, w)
    PROVE  Keeps(v, w)'
  BY DEF VersionsKept, Keeps

\* Every step of the system treats the versions so.
LEMMA NextKeepsVersions ==
    ASSUME Inv, Next
    PROVE  VersionsKept
  <1> USE DEF Inv, TypeOK
  <1>1. ASSUME ver' = ver PROVE VersionsKept
      BY <1>1 DEF VersionsKept, Confirmed
  <1>2. ASSUME NEW v \in Version, NEW w, ver[v] = None, w # None, ver' = [ver EXCEPT ![v] = w]
        PROVE  VersionsKept
      BY <1>2 DEF VersionsKept, Confirmed
  <1>3. ASSUME NEW v \in Version, NEW w \in VerRow, Keeps(v, w),
               ver' = [ver EXCEPT ![v] = w], w.status = "ready" \/ LocalUploads
        PROVE  VersionsKept
      BY <1>3, NoneAssumption DEF VersionsKept, Confirmed, Keeps
  <1>4. ASSUME NEW d \in Doc, NEW k \in Kind, NEW n \in Nat
        PROVE  Intent(d, k, n) # None
      <2> Intent(d, k, n) \in VerRow
          BY DEF Intent, VerRow
      <2> QED  BY NoneAssumption
  <1>5. ASSUME NEW p \in Proc, Resume(p) PROVE VersionsKept
      <2>1. CASE \E v \in Version : InsertFirstVersion(p, v) \/ InsertVersion(p, v)
          BY <2>1, <1>2, <1>4, RequestAt DEF InsertFirstVersion, InsertVersion
      <2>2. CASE ReceiveBytes(p)
          BY <2>2, <1>3, RequestAt DEF ReceiveBytes, HeldSound, Held, At
      <2>3. ASSUME NEW v \in Version, NEW w \in VerRow, Keeps(v, w),
                   ver' = [ver EXCEPT ![v] = MadeReady(w)]
            PROVE  VersionsKept
          <3> DEFINE u == MadeReady(w)
          <3>1. u \in VerRow /\ u.status = "ready" /\ Keeps(v, u)
              BY <2>3, SavedRows DEF VerRow, Keeps, MadeReady
          <3> HIDE DEF u
          <3>2. ver' = [ver EXCEPT ![v] = u]
              BY <2>3 DEF u
          <3> QED  BY <1>3, <3>1, <3>2
      <2>4. CASE CommitVersion(p)
          <3>1. Keeps(req[p].ver, req[p].vrow)
              BY <2>4 DEF CommitVersion, HeldSound, Held, At
          <3> QED  BY <2>4, <2>3, <3>1, RequestAt DEF CommitVersion
      <2>5. CASE CommitResult(p)
          <3>1. Keeps(req[p].ver, req[p].vrow)
              BY <2>5 DEF CommitResult, HeldSound, Held, At
          <3> QED  BY <2>5, <2>3, <3>1, RequestAt DEF CommitResult
      <2> QED
          BY <1>5, <1>1, <2>1, <2>2, <2>4, <2>5
          DEF Resume, NumberVersion, StoreBytes, ValidateVersion, CommitStatus, Abandon
  <1>6. ASSUME NEW p \in Proc, NEW a \in Actor, NEW d \in Doc, DocumentCall(p, a, d)
        PROVE  ver' = ver
      BY <1>6 DEF DocumentCall, CreateUploadTarget, CreateVersionIntent, UploadVersion,
                  RequestVersion, CreatePhaseResultIntent, BeginUploadBytes, BeginConfirm,
                  BeginConfirmResult, UpdateStatus, OverrideStatus, BeginStatus
  <1>7. ASSUME NEW v \in Version, Lapse(v) \/ PutObject(v)
        PROVE  ver' = ver
      BY <1>7 DEF Lapse, PutObject
  <1> QED  BY <1>1, <1>5, <1>6, <1>7 DEF Next

\* What one request holds stays sound under such a step.
LEMMA HeldKept ==
    ASSUME VersionsKept, NEW r \in Request, Held(r)
    PROVE  Held(r)'
  <1>1. ASSUME r.pc \in {"find_version", "commit_version", "commit_status"}
        PROVE  SoundRow(r.doc, r.row)'
      <2>1. r.doc \in Doc /\ r.row \in DocRow
          BY <1>1 DEF Request, Idle
      <2> QED  BY <1>1, <2>1, SoundRowKept DEF Held
  <1>2. ASSUME r.pc \in {"receive_bytes", "commit_version", "commit_result"}
        PROVE  Keeps(r.ver, r.vrow)'
      <2>1. r.ver \in Version /\ r.vrow \in VerRow
          BY <1>2 DEF Request, Idle
      <2> QED  BY <1>2, <2>1, KeepsKept DEF Held
  <1> QED  BY <1>1, <1>2 DEF Held

\* A step that gives one process a new request keeps HeldSound when the new
\* request is sound; the others only have to survive the step.
LEMMA HeldSoundKept ==
    ASSUME Inv, VersionsKept, NEW p \in Proc, NEW r \in Request, Goto(p, r), Held(r)'
    PROVE  HeldSound'
  <1> SUFFICES ASSUME NEW q \in Proc PROVE Held(req[q])'
      BY DEF HeldSound
  <1>1. req'[q] = IF q = p THEN r ELSE req[q]
      BY DEF Goto, Inv, TypeOK
  <1>2. PICK o \in Request : o = req'[q] /\ Held(o)'
      <2>1. req[q] \in Request /\ Held(req[q])
          BY DEF Inv, TypeOK, HeldSound
      <2> QED  BY <1>1, <2>1, HeldKept
  <1> QED
      BY <1>2 DEF Held, SoundRow, Submission, OfficialFile, VersionsOf, Confirmed, Keeps

\* A saved document row leaves the pointers sound when the row itself is.
LEMMA PointersKept ==
    ASSUME Inv, VersionsKept, NEW d \in Doc, NEW x \in DocRow, SoundRow(d, x)',
           doc' = [doc EXCEPT ![d] = x]
    PROVE  PointersSound'
  <1> SUFFICES ASSUME NEW e \in Doc, doc'[e] # None PROVE SoundRow(e, doc[e])'
      BY DEF PointersSound
  <1>1. CASE e = d
      <2>1. doc'[e] = x
          BY <1>1 DEF Inv, TypeOK
      <2> QED
          BY <1>1, <2>1 DEF SoundRow, Submission, OfficialFile, VersionsOf, Confirmed
  <1>2. CASE e # d
      <2>1. doc'[e] = doc[e] /\ doc[e] \in DocRow /\ SoundRow(e, doc[e])
          BY <1>2 DEF Inv, TypeOK, PointersSound
      <2>2. PICK y \in DocRow : y = doc'[e] /\ SoundRow(e, y)'
          BY <2>1, SoundRowKept
      <2> QED
          BY <2>2 DEF SoundRow, Submission, OfficialFile, VersionsOf, Confirmed
  <1> QED  BY <1>1, <1>2

LEMMA PointersUntouched ==
    ASSUME Inv, VersionsKept, doc' = doc
    PROVE  PointersSound'
  <1> SUFFICES ASSUME NEW e \in Doc, doc'[e] # None PROVE SoundRow(e, doc[e])'
      BY DEF PointersSound
  <1>1. doc'[e] = doc[e] /\ doc[e] \in DocRow /\ SoundRow(e, doc[e])
      BY DEF Inv, TypeOK, PointersSound
  <1>2. PICK y \in DocRow : y = doc'[e] /\ SoundRow(e, y)'
      BY <1>1, SoundRowKept
  <1> QED
      BY <1>2 DEF SoundRow, Submission, OfficialFile, VersionsOf, Confirmed

\* A call begins: the rows it has read are sound because the tables are.
LEMMA CallSound ==
    ASSUME Inv, VersionsKept, NEW p \in Proc, NEW a \in Actor, NEW d \in Doc, DocumentCall(p, a, d)
    PROVE  PointersSound' /\ HeldSound'
  <1> USE RequestTypes
  <1>1. ASSUME NEW r \in Request, Goto(p, r), Held(r)
        PROVE  HeldSound'
      BY <1>1, HeldKept, HeldSoundKept
  <1>2. CASE CreateUploadTarget(p, a, d)
      <2> DEFINE row == [status |-> "pending", current |-> None, approved |-> None]
      <2>1. row \in DocRow /\ SoundRow(d, row)'
          BY DEF DocRow, Status, SoundRow
      <2>2. PointersSound'
          <3> HIDE DEF row
          <3>1. doc' = [doc EXCEPT ![d] = row]
              BY <1>2 DEF CreateUploadTarget, row
          <3> QED  BY <2>1, <3>1, PointersKept
      <2>3. HeldSound'
          BY <1>1, <1>2 DEF CreateUploadTarget, Held, Kind
      <2> QED  BY <2>2, <2>3
  <1>3. ASSUME NEW k \in Kind, NEW t \in Actor \cup {None}, RequestVersion(p, a, d, k, t)
        PROVE  PointersSound' /\ HeldSound'
      BY <1>1, <1>3, PointersUntouched DEF RequestVersion, Held
  <1>4. CASE CreatePhaseResultIntent(p, a, d)
      BY <1>1, <1>4, PointersUntouched DEF CreatePhaseResultIntent, Held, Kind
  <1>5. ASSUME NEW v \in Version, BeginUploadBytes(p, a, d, v)
        PROVE  PointersSound' /\ HeldSound'
      <2>1. ver[v] \in VerRow /\ Keeps(v, ver[v])
          BY <1>5 DEF BeginUploadBytes, VersionsOf, Inv, TypeOK, Keeps
      <2> QED  BY <1>1, <1>5, <2>1, PointersUntouched DEF BeginUploadBytes, Held
  <1>6. ASSUME doc[d] # None
        PROVE  doc[d] \in DocRow /\ SoundRow(d, doc[d])
      BY <1>6 DEF Inv, TypeOK, PointersSound
  <1>7. ASSUME NEW v \in Version, BeginConfirm(p, a, d, v)
        PROVE  PointersSound' /\ HeldSound'
      BY <1>1, <1>6, <1>7, PointersUntouched DEF BeginConfirm, Held
  <1>8. ASSUME NEW v \in Version, BeginConfirmResult(p, a, d, v)
        PROVE  PointersSound' /\ HeldSound'
      <2>1. ver[v] \in VerRow /\ Keeps(v, ver[v])
          BY <1>8 DEF BeginConfirmResult, VersionsOf, Inv, TypeOK, Keeps
      <2> QED  BY <1>1, <1>8, <2>1, PointersUntouched DEF BeginConfirmResult, Held
  <1>9. ASSUME NEW s \in Status, NEW e \in Status \cup {None}, BeginStatus(p, a, d, s, e)
        PROVE  PointersSound' /\ HeldSound'
      BY <1>1, <1>6, <1>9, PointersUntouched DEF BeginStatus, Held
  <1> QED
      BY <1>2, <1>3, <1>4, <1>5, <1>7, <1>8, <1>9, BoundsAssumption
      DEF DocumentCall, CreateVersionIntent, UploadVersion, UpdateStatus, OverrideStatus

\* A call goes on: the row it saves is the sound one it holds, with the version
\* it has just made ready put in the field of that version's kind.
LEMMA ResumeSound ==
    ASSUME Inv, TypeOK', VersionsKept, NEW p \in Proc, Resume(p)
    PROVE  PointersSound' /\ HeldSound'
  <1> USE RequestTypes, RequestAt DEF Inv
  <1>1. ASSUME NEW r \in Request, Goto(p, r), Held(r)
        PROVE  HeldSound'
      BY <1>1, HeldKept, HeldSoundKept
  <1>2. CASE \E v \in Version : InsertFirstVersion(p, v) \/ InsertVersion(p, v)
      BY <1>1, <1>2, PointersUntouched DEF InsertFirstVersion, InsertVersion, Held, Idle
  <1>3. CASE NumberVersion(p)
      <2>1. NumbersTaken(req[p].doc) \subseteq Nat
          BY DEF NumbersTaken, VersionsOf, TypeOK, VerRow
      <2>2. PICK m \in Nat :
               Goto(p, [pc |-> "insert_version", doc |-> req[p].doc, kind |-> req[p].kind,
                        no |-> m + 1, then |-> req[p].then])
          BY <1>3, <2>1 DEF NumberVersion
      <2> QED  BY <1>1, <1>3, <2>2, PointersUntouched DEF NumberVersion, Held
  <1>4. CASE ReceiveBytes(p) \/ CommitResult(p) \/ Abandon(p)
      BY <1>1, <1>4, PointersUntouched DEF ReceiveBytes, CommitResult, Abandon, Held, Idle
  <1>5. CASE StoreBytes(p)
      <2>1. doc[req[p].doc] \in DocRow /\ SoundRow(req[p].doc, doc[req[p].doc])
          BY <1>5 DEF StoreBytes, TypeOK, PointersSound
      <2> QED  BY <1>1, <1>5, <2>1, PointersUntouched DEF StoreBytes, Held
  <1>6. CASE ValidateVersion(p)
      <2> DEFINE v == req[p].ver
      <2>1. /\ ver[v] \in VerRow /\ Keeps(v, ver[v]) /\ ver[v].doc = req[p].doc
            /\ StatusAfter(req[p].row, ver[v].kind) \in Status
          BY <1>6 DEF ValidateVersion, VersionsOf, TypeOK, Keeps, StatusAfter, DocRow, Status
      <2>2. SoundRow(req[p].doc, req[p].row)
          BY <1>6 DEF ValidateVersion, HeldSound, Held, At
      <2> QED  BY <1>1, <1>6, <2>1, <2>2, PointersUntouched DEF ValidateVersion, Held
  <1>7. CASE CommitVersion(p)
      <2> DEFINE r == req[p]
                 row == Mirrored(r.row, r.vrow, r.ver, r.to)
      <2>1. /\ r.doc \in Doc /\ r.row \in DocRow /\ r.ver \in Version /\ r.vrow \in VerRow
            /\ SoundRow(r.doc, r.row) /\ Keeps(r.ver, r.vrow) /\ r.vrow.doc = r.doc
          BY <1>7 DEF CommitVersion, HeldSound, Held, At
      <2>2. PICK d \in Doc, v \in Version, w \in VerRow :
               /\ d = r.doc /\ v = r.ver /\ w = MadeReady(r.vrow)
          BY <2>1, SavedRows
      <2>3. w.doc = d /\ w.kind = r.vrow.kind /\ w.status = "ready" /\ w # None
          BY <2>1, <2>2, NoneAssumption DEF VerRow, MadeReady
      <2>4. ver'[v] = w
          BY <1>7, <2>2 DEF CommitVersion, TypeOK
      <2>5. PICK old \in DocRow : old = r.row /\ SoundRow(d, old)'
          BY <2>1, <2>2, SoundRowKept
      <2>6. PICK x \in DocRow : x = row
          BY <1>7, SavedRows DEF CommitVersion
      <2>7. SoundRow(d, x)'
          <3>1. CASE w.kind = "official"
              <4>1. x.current = old.current /\ x.approved = v
                  BY <2>1, <2>2, <2>3, <2>5, <2>6, <3>1 DEF DocRow, Mirrored
              <4> QED
                  BY <2>3, <2>4, <2>5, <3>1, <4>1
                  DEF SoundRow, Submission, OfficialFile, VersionsOf, Confirmed
          <3>2. CASE w.kind # "official"
              <4>1. x.current = v /\ x.approved = old.approved
                  BY <2>1, <2>2, <2>3, <2>5, <2>6, <3>2 DEF DocRow, Mirrored
              <4> QED
                  BY <2>3, <2>4, <2>5, <3>2, <4>1
                  DEF SoundRow, Submission, OfficialFile, VersionsOf, Confirmed
          <3> QED  BY <3>1, <3>2
      <2>8. doc' = [doc EXCEPT ![d] = x]
          BY <1>7, <2>2, <2>6 DEF CommitVersion
      <2>9. PointersSound'
          BY <2>7, <2>8, PointersKept
      <2>10. HeldSound'
          BY <1>1, <1>7 DEF CommitVersion, Held, Idle
      <2> QED  BY <2>9, <2>10
  <1>8. CASE CommitStatus(p)
      <2>1. PICK x \in DocRow, d \in Doc :
               /\ x = [req[p].row EXCEPT !.status = req[p].to] /\ d = req[p].doc
          BY <1>8, SavedRows DEF CommitStatus
      <2>2. PICK old \in DocRow : old = req[p].row /\ SoundRow(d, old)'
          BY <1>8, <2>1, SoundRowKept DEF CommitStatus, HeldSound, Held, At
      <2>3. SoundRow(d, x)'
          BY <2>1, <2>2 DEF SoundRow, Submission, OfficialFile, VersionsOf, Confirmed, DocRow
      <2>4. PointersSound'
          BY <1>8, <2>1, <2>3, PointersKept DEF CommitStatus
      <2>5. HeldSound'
          BY <1>1, <1>8 DEF CommitStatus, Held, Idle
      <2> QED  BY <2>4, <2>5
  <1> QED
      BY <1>2, <1>3, <1>4, <1>5, <1>6, <1>7, <1>8 DEF Resume

LEMMA NextSound == Inv /\ [Next]_vars => Inv'
  <1> SUFFICES ASSUME Inv, [Next]_vars PROVE Inv'
      OBVIOUS
  <1>1. TypeOK'
      BY NextType DEF Inv
  <1>2. CASE UNCHANGED vars
      <2> QED
          BY <1>1, <1>2
          DEF vars, Inv, PointersSound, HeldSound, Held, Keeps, SoundRow, Submission, OfficialFile,
              VersionsOf, Confirmed
  <1>3. CASE Next
      <2> USE <1>1, <1>3, NextKeepsVersions
      <2>1. ASSUME NEW v \in Version, Lapse(v) \/ PutObject(v)
            PROVE  PointersSound' /\ HeldSound'
          <3>1. UNCHANGED <<doc, ver, req>>
              BY <2>1 DEF Lapse, PutObject
          <3> QED
              BY <3>1
              DEF Inv, PointersSound, HeldSound, Held, Keeps, SoundRow, Submission, OfficialFile,
                  VersionsOf, Confirmed
      <2>2. PointersSound' /\ HeldSound'
          BY <2>1, CallSound, ResumeSound DEF Next
      <2> QED  BY <2>2 DEF Inv
  <1> QED  BY <1>2, <1>3

\* However requests overlap, the current and approved files of a document are
\* versions of that document, of the right kind, and confirmed.
THEOREM FilePointers == Spec => []PointersSound
  <1>1. Init => Inv
      BY InitType DEF Init, Inv, PointersSound, HeldSound, Held, Idle
  <1>2. Inv => PointersSound
      BY DEF Inv
  <1> QED  BY <1>1, <1>2, NextSound, PTL DEF Spec

-----------------------------------------------------------------------------
(* Official files *)

\* What a request may save is cleared: bytes arrive for an intent, a phase result is
\* confirmed without a history row and is never official, and an official file is
\* confirmed by a move to approved.
Cleared(r) ==
    /\ r.pc = "receive_bytes" => r.vrow.status = "intent"
    /\ r.pc = "commit_result" => r.vrow.kind = "phase_result"
    /\ r.pc = "commit_version" /\ r.vrow.kind = "official" => r.to = "approved"

OfficialInv == Inv /\ OfficialOnRecord /\ \A p \in Proc : Cleared(req[p])

\* The history row that put a file on record.
OnRecord(d, v) == \E i \in DOMAIN hist[d] : hist[d][i].to = "approved" /\ hist[d][i].ver = v

LEMMA RecordKept ==
    ASSUME TypeOK, NEW d \in Doc, NEW v, OnRecord(d, v), NEW c \in Doc, NEW e \in HistRow,
           hist' = [hist EXCEPT ![c] = Append(@, e)]
    PROVE  OnRecord(d, v)'
  <1>1. PICK i \in DOMAIN hist[d] : hist[d][i].to = "approved" /\ hist[d][i].ver = v
      BY DEF OnRecord
  <1>2. hist[d] \in Seq(HistRow)
      BY DEF TypeOK
  <1>3. CASE d = c
      <2>1. hist'[d] = Append(hist[d], e)
          BY <1>3 DEF TypeOK
      <2>2. i \in DOMAIN Append(hist[d], e) /\ Append(hist[d], e)[i] = hist[d][i]
          BY <1>2, AppendProperties
      <2> QED  BY <1>1, <2>1, <2>2 DEF OnRecord
  <1>4. CASE d # c
      BY <1>1, <1>4 DEF OnRecord, TypeOK
  <1> QED  BY <1>3, <1>4

LEMMA Recorded ==
    ASSUME TypeOK, NEW d \in Doc, NEW e \in HistRow, e.to = "approved",
           hist' = [hist EXCEPT ![d] = Append(@, e)]
    PROVE  OnRecord(d, e.ver)'
  <1>1. hist[d] \in Seq(HistRow) /\ hist'[d] = Append(hist[d], e)
      BY DEF TypeOK
  <1>2. Len(hist[d]) + 1 \in DOMAIN Append(hist[d], e) /\ Append(hist[d], e)[Len(hist[d]) + 1] = e
      BY <1>1, AppendProperties, LenProperties
  <1> QED  BY <1>1, <1>2 DEF OnRecord

\* A step that gives a process a cleared request keeps the others cleared.
LEMMA ClearedKept ==
    ASSUME TypeOK, \A q \in Proc : Cleared(req[q]), NEW p \in Proc, NEW r, Cleared(r), Goto(p, r)
    PROVE  \A q \in Proc : Cleared(req'[q])
  BY DEF TypeOK, Goto

\* When the history stands, so does the record if no official version becomes ready.
LEMMA OfficialKept ==
    ASSUME TypeOK, OfficialOnRecord, UNCHANGED hist,
           \A v \in Version : ver'[v] # None /\ ver'[v].kind = "official" /\ ver'[v].status = "ready"
                                  => ver'[v] = ver[v]
    PROVE  OfficialOnRecord'
  BY DEF OfficialOnRecord, VersionsOf

LEMMA OfficialStep ==
    ASSUME OfficialInv, Next
    PROVE  OfficialOnRecord' /\ \A p \in Proc : Cleared(req'[p])
  <1> USE RequestAt DEF OfficialInv, Inv
  <1>1. ASSUME NEW p \in Proc, NEW v \in Version, InsertFirstVersion(p, v) \/ InsertVersion(p, v)
        PROVE  OfficialOnRecord' /\ \A q \in Proc : Cleared(req'[q])
      <2>1. PICK w : w.status = "intent" /\ ver' = [ver EXCEPT ![v] = w] /\ UNCHANGED hist
          BY <1>1 DEF InsertFirstVersion, InsertVersion, Intent
      <2>2. OfficialOnRecord'
          BY <2>1, OfficialKept DEF TypeOK
      <2>3. \A q \in Proc : Cleared(req'[q])
          BY <1>1, ClearedKept DEF InsertFirstVersion, InsertVersion, Cleared, Idle
      <2> QED  BY <2>2, <2>3
  <1>2. ASSUME NEW p \in Proc, ReceiveBytes(p)
        PROVE  OfficialOnRecord' /\ \A q \in Proc : Cleared(req'[q])
      <2>1. req[p].vrow.status = "intent" /\ req[p].ver \in Version
          BY <1>2 DEF ReceiveBytes, Cleared, At
      <2>2. OfficialOnRecord'
          BY <1>2, <2>1, OfficialKept DEF ReceiveBytes, TypeOK
      <2>3. \A q \in Proc : Cleared(req'[q])
          BY <1>2, ClearedKept DEF ReceiveBytes, Cleared, Idle
      <2> QED  BY <2>2, <2>3
  <1>3. ASSUME NEW p \in Proc, CommitResult(p)
        PROVE  OfficialOnRecord' /\ \A q \in Proc : Cleared(req'[q])
      <2>1. /\ MadeReady(req[p].vrow).kind = "phase_result" /\ req[p].ver \in Version
          BY <1>3 DEF CommitResult, Cleared, At, MadeReady, VerRow
      <2>2. OfficialOnRecord'
          BY <1>3, <2>1, OfficialKept DEF CommitResult, TypeOK
      <2>3. \A q \in Proc : Cleared(req'[q])
          BY <1>3, ClearedKept DEF CommitResult, Cleared, Idle
      <2> QED  BY <2>2, <2>3
  <1>4. ASSUME NEW p \in Proc, CommitVersion(p)
        PROVE  OfficialOnRecord' /\ \A q \in Proc : Cleared(req'[q])
      <2>1. PICK d \in Doc, v \in Version, old \in VerRow, w \in VerRow, e \in HistRow :
               /\ d = req[p].doc /\ v = req[p].ver /\ old = req[p].vrow
               /\ w = MadeReady(old) /\ e = Entry(req[p].row, req[p].to, v)
          BY <1>4, SavedRows DEF CommitVersion
      <2>2. /\ ver' = [ver EXCEPT ![v] = w] /\ hist' = [hist EXCEPT ![d] = Append(@, e)]
            /\ old.doc = d
            /\ old.kind = "official" => e.to = "approved"
            /\ e.ver = v
          BY <1>4, <2>1 DEF CommitVersion, HeldSound, Held, At, Cleared, Entry
      <2>3. w.kind = old.kind /\ w.doc = d
          BY <2>1, <2>2 DEF MadeReady, VerRow
      <2>4. ASSUME NEW c \in Doc, NEW x \in Version, ver'[x] # None, ver'[x].doc = c,
                   ver'[x].kind = "official", ver'[x].status = "ready"
            PROVE  OnRecord(c, x)'
          <3>1. CASE x = v
              <4>1. c = d /\ e.to = "approved"
                  BY <2>2, <2>3, <2>4, <3>1 DEF TypeOK
              <4>2. OnRecord(d, e.ver)'
                  BY <2>2, <4>1, Recorded
              <4> QED  BY <2>2, <3>1, <4>1, <4>2
          <3>2. CASE x # v
              <4>1. OnRecord(c, x)
                  BY <2>2, <2>4, <3>2 DEF OfficialOnRecord, VersionsOf, OnRecord, TypeOK
              <4> QED  BY <2>2, <4>1, RecordKept
          <3> QED  BY <3>1, <3>2
      <2>5. OfficialOnRecord'
          BY <2>4 DEF OfficialOnRecord, VersionsOf, OnRecord
      <2>6. \A q \in Proc : Cleared(req'[q])
          BY <1>4, ClearedKept DEF CommitVersion, Cleared, Idle
      <2> QED  BY <2>5, <2>6
  <1>5. ASSUME NEW p \in Proc, CommitStatus(p)
        PROVE  OfficialOnRecord' /\ \A q \in Proc : Cleared(req'[q])
      <2>1. PICK d \in Doc, e \in HistRow : hist' = [hist EXCEPT ![d] = Append(@, e)] /\ ver' = ver
          BY <1>5, SavedRows DEF CommitStatus
      <2>2. ASSUME NEW c \in Doc, NEW x \in Version, ver'[x] # None, ver'[x].doc = c,
                   ver'[x].kind = "official", ver'[x].status = "ready"
            PROVE  OnRecord(c, x)'
          <3>1. OnRecord(c, x)
              BY <2>1, <2>2 DEF OfficialOnRecord, VersionsOf, OnRecord
          <3> QED  BY <2>1, <3>1, RecordKept
      <2>3. OfficialOnRecord'
          BY <2>2 DEF OfficialOnRecord, VersionsOf, OnRecord
      <2>4. \A q \in Proc : Cleared(req'[q])
          BY <1>5, ClearedKept DEF CommitStatus, Cleared, Idle
      <2> QED  BY <2>3, <2>4
  <1>6. ASSUME UNCHANGED <<ver, hist>>
        PROVE  OfficialOnRecord'
      BY <1>6, OfficialKept
  <1>7. ASSUME NEW p \in Proc, NumberVersion(p) \/ StoreBytes(p) \/ ValidateVersion(p) \/ Abandon(p)
        PROVE  OfficialOnRecord' /\ \A q \in Proc : Cleared(req'[q])
      <2>1. CASE NumberVersion(p)
          <3>1. PICK m : Goto(p, [pc |-> "insert_version", doc |-> req[p].doc, kind |-> req[p].kind,
                                  no |-> m, then |-> req[p].then])
              BY <2>1 DEF NumberVersion
          <3> QED  BY <1>6, <2>1, <3>1, ClearedKept DEF NumberVersion, Cleared
      <2>2. CASE StoreBytes(p)
          BY <1>6, <2>2, ClearedKept DEF StoreBytes, Cleared
      <2>3. CASE ValidateVersion(p)
          BY <1>6, <2>3, ClearedKept DEF ValidateVersion, Cleared, StatusAfter
      <2>4. CASE Abandon(p)
          BY <1>6, <2>4, ClearedKept DEF Abandon, Cleared, Idle
      <2> QED  BY <1>7, <2>1, <2>2, <2>3, <2>4
  <1>8. ASSUME NEW p \in Proc, NEW a \in Actor, NEW d \in Doc, DocumentCall(p, a, d)
        PROVE  OfficialOnRecord' /\ \A q \in Proc : Cleared(req'[q])
      <2>1. UNCHANGED <<ver, hist>>
          BY <1>8 DEF DocumentCall, CreateUploadTarget, CreateVersionIntent, UploadVersion,
                      RequestVersion, CreatePhaseResultIntent, BeginUploadBytes, BeginConfirm,
                      BeginConfirmResult, UpdateStatus, OverrideStatus, BeginStatus
      <2>2. ASSUME NEW r, r.pc \notin {"receive_bytes", "commit_version", "commit_result"}, Goto(p, r)
            PROVE  \A q \in Proc : Cleared(req'[q])
          <3>1. Cleared(r)
              BY <2>2 DEF Cleared
          <3> QED  BY <2>2, <3>1, ClearedKept
      <2>3. ASSUME CreateUploadTarget(p, a, d)
            PROVE  \A q \in Proc : Cleared(req'[q])
          <3> DEFINE r == [pc |-> "first_version", doc |-> d,
                           kind |-> IF RoleOf[a] = "customer" THEN "customer" ELSE "staff_on_behalf"]
          <3>1. Goto(p, r) /\ Cleared(r)
              BY <2>3 DEF CreateUploadTarget, Cleared
          <3> HIDE DEF r
          <3> QED  BY <3>1, ClearedKept
      <2>4. ASSUME CreatePhaseResultIntent(p, a, d)
            PROVE  \A q \in Proc : Cleared(req'[q])
          <3> DEFINE r == [pc |-> "number_version", doc |-> d, kind |-> "phase_result", then |-> None]
          <3>1. Goto(p, r) /\ Cleared(r)
              BY <2>4 DEF CreatePhaseResultIntent, Cleared
          <3> HIDE DEF r
          <3> QED  BY <3>1, ClearedKept
      <2>5. ASSUME NEW k \in Kind, NEW then, RequestVersion(p, a, d, k, then)
            PROVE  \A q \in Proc : Cleared(req'[q])
          BY <2>2, <2>5 DEF RequestVersion
      <2>6. ASSUME NEW v \in Version, BeginUploadBytes(p, a, d, v)
            PROVE  \A q \in Proc : Cleared(req'[q])
          <3> DEFINE r == [pc |-> "receive_bytes", ver |-> v, vrow |-> ver[v]]
          <3>1. Goto(p, r) /\ Cleared(r)
              BY <2>6 DEF BeginUploadBytes, Cleared
          <3> HIDE DEF r
          <3> QED  BY <3>1, ClearedKept
      <2>7. ASSUME NEW v \in Version, BeginConfirm(p, a, d, v)
            PROVE  \A q \in Proc : Cleared(req'[q])
          BY <2>2, <2>7 DEF BeginConfirm
      <2>8. ASSUME NEW v \in Version, BeginConfirmResult(p, a, d, v)
            PROVE  \A q \in Proc : Cleared(req'[q])
          <3> DEFINE r == [pc |-> "commit_result", ver |-> v, vrow |-> ver[v]]
          <3>1. Goto(p, r) /\ Cleared(r)
              BY <2>8 DEF BeginConfirmResult, Cleared
          <3> HIDE DEF r
          <3> QED  BY <3>1, ClearedKept
      <2>9. ASSUME NEW to, NEW expected, BeginStatus(p, a, d, to, expected)
            PROVE  \A q \in Proc : Cleared(req'[q])
          BY <2>2, <2>9 DEF BeginStatus
      <2>10. \A q \in Proc : Cleared(req'[q])
          BY <1>8, <2>3, <2>4, <2>5, <2>6, <2>7, <2>8, <2>9
          DEF DocumentCall, CreateVersionIntent, UploadVersion, UpdateStatus, OverrideStatus
      <2> QED  BY <1>6, <2>1, <2>10
  <1>9. ASSUME NEW v \in Version, Lapse(v) \/ PutObject(v)
        PROVE  OfficialOnRecord' /\ \A q \in Proc : Cleared(req'[q])
      BY <1>6, <1>9 DEF Lapse, PutObject
  <1> QED  BY <1>1, <1>2, <1>3, <1>4, <1>5, <1>7, <1>8, <1>9 DEF Next, Resume

\* Every confirmed official file has its own history row that moved the document to
\* approved: no stale save and no second road confirms one off the record
\* (uploadOfficialVersion, confirmVersion and confirmPhaseResultVersion).
THEOREM OfficialFiles == Spec => []OfficialOnRecord
  <1>1. Init => OfficialInv
      BY InitType DEF Init, OfficialInv, Inv, PointersSound, HeldSound, Held, OfficialOnRecord,
                      VersionsOf, Cleared, Idle
  <1>2. OfficialInv /\ [Next]_vars => OfficialInv'
      <2> SUFFICES ASSUME OfficialInv, [Next]_vars PROVE OfficialInv'
          OBVIOUS
      <2>1. Inv'
          BY NextSound DEF OfficialInv
      <2>2. CASE UNCHANGED vars
          BY <2>1, <2>2 DEF vars, OfficialInv, OfficialOnRecord, VersionsOf
      <2>3. CASE Next
          BY <2>1, <2>3, OfficialStep DEF OfficialInv
      <2> QED  BY <2>2, <2>3
  <1>3. OfficialInv => OfficialOnRecord
      BY DEF OfficialInv
  <1> QED  BY <1>1, <1>2, <1>3, PTL DEF Spec

-----------------------------------------------------------------------------
(* The audit trail *)

LEMMA EntriesAppend ==
    ASSUME NEW h \in Seq(HistRow), NEW x \in HistRow
    PROVE  Entries(Append(h, x)) = Append(Entries(h), [from |-> x.from, to |-> x.to])
  <1>1. PICK y \in Trail!Entry : y = [from |-> x.from, to |-> x.to]
      BY DEF HistRow, Trail!Entry
  <1>2. PICK g \in Seq(HistRow) : g = Append(h, x)
      BY AppendProperties
  <1>3. ASSUME NEW s \in Seq(HistRow)
        PROVE  /\ Entries(s) \in Seq(Trail!Entry)
               /\ Len(Entries(s)) = Len(s)
               /\ \A i \in 1 .. Len(s) : Entries(s)[i] = [from |-> s[i].from, to |-> s[i].to]
      <2>1. /\ Len(s) \in Nat /\ DOMAIN s = 1 .. Len(s)
            /\ \A i \in 1 .. Len(s) : s[i] \in HistRow
          BY LenProperties, ElementOfSeq
      <2>2. Entries(s) = [i \in 1 .. Len(s) |-> [from |-> s[i].from, to |-> s[i].to]]
          BY <2>1 DEF Entries
      <2>3. Entries(s) \in [1 .. Len(s) -> Trail!Entry]
          BY <2>1, <2>2 DEF HistRow, Trail!Entry
      <2>4. Entries(s) \in Seq(Trail!Entry)
          BY <2>1, <2>3, SeqDef
      <2>5. Len(Entries(s)) \in Nat /\ DOMAIN Entries(s) = 1 .. Len(Entries(s))
          BY <2>4, LenProperties
      <2>6. Len(Entries(s)) = Len(s)
          BY <2>1, <2>3, <2>5
      <2> QED  BY <2>2, <2>4, <2>6
  <1>4. /\ Len(g) = Len(h) + 1 /\ Len(h) \in Nat
        /\ \A i \in 1 .. Len(h) : g[i] = h[i]
        /\ g[Len(h) + 1] = x
      BY <1>2, AppendProperties, LenProperties
  <1>5. PICK u \in Seq(Trail!Entry) : u = Entries(h) /\ Len(u) = Len(h)
      BY <1>3
  <1> PICK t \in Seq(Trail!Entry) : t = Append(u, y)
      BY AppendProperties
  <1>6. /\ Len(t) = Len(h) + 1
        /\ \A i \in 1 .. Len(h) : t[i] = u[i]
        /\ t[Len(h) + 1] = y
      BY <1>5, AppendProperties
  <1>7. ASSUME NEW i \in 1 .. Len(t)
        PROVE  Entries(g)[i] = t[i]
      <2>1. Entries(g)[i] = [from |-> g[i].from, to |-> g[i].to]
          BY <1>3, <1>4, <1>6
      <2>2. CASE i = Len(h) + 1
          BY <1>1, <1>4, <1>6, <2>1, <2>2
      <2>3. CASE i \in 1 .. Len(h)
          <3>1. u[i] = [from |-> h[i].from, to |-> h[i].to]
              BY <1>3, <1>5, <2>3
          <3> QED  BY <1>4, <1>6, <2>1, <2>3, <3>1
      <2> QED  BY <1>4, <1>6, <2>2, <2>3
  <1>8. Entries(g) \in Seq(Trail!Entry) /\ Len(Entries(g)) = Len(t)
      BY <1>3, <1>4, <1>6
  <1>9. Entries(g) = t
      BY <1>7, <1>8, SeqEqual
  <1> QED  BY <1>1, <1>2, <1>5, <1>9

\* What a transaction over a document writes: its row and the history row of the move.
LEMMA CommitSaves ==
    ASSUME TypeOK, NEW p \in Proc, CommitVersion(p) \/ CommitStatus(p)
    PROVE  \E d \in Doc, x \in DocRow, e \in HistRow :
               /\ d = req[p].doc
               /\ x = IF CommitVersion(p) THEN Mirrored(req[p].row, req[p].vrow, req[p].ver, req[p].to)
                                          ELSE [req[p].row EXCEPT !.status = req[p].to]
               /\ e.from = req[p].row.status /\ e.to = x.status /\ x.status = req[p].to
               /\ e.ver = IF CommitVersion(p) THEN req[p].ver ELSE None
               /\ doc' = [doc EXCEPT ![d] = x] /\ hist' = [hist EXCEPT ![d] = Append(@, e)]
  <1> USE RequestAt
  <1>1. CASE CommitVersion(p)
      <2> DEFINE r == req[p]
                 row == Mirrored(r.row, r.vrow, r.ver, r.to)
                 entry == Entry(r.row, r.to, r.ver)
      <2>1. PICK d \in Doc, x \in DocRow, e \in HistRow : d = r.doc /\ x = row /\ e = entry
          BY <1>1, SavedRows DEF CommitVersion
      <2>2. e.to = x.status /\ x.status = r.to /\ e.from = r.row.status /\ e.ver = r.ver
          BY <1>1, <2>1 DEF CommitVersion, DocRow, Mirrored, Entry
      <2>3. doc' = [doc EXCEPT ![d] = x] /\ hist' = [hist EXCEPT ![d] = Append(@, e)]
          BY <1>1, <2>1 DEF CommitVersion
      <2> QED  BY <1>1, <2>1, <2>2, <2>3
  <1>2. CASE CommitStatus(p) /\ ~CommitVersion(p)
      <2> DEFINE r == req[p]
                 row == [r.row EXCEPT !.status = r.to]
                 entry == Entry(r.row, r.to, None)
      <2>1. PICK d \in Doc, x \in DocRow, e \in HistRow : d = r.doc /\ x = row /\ e = entry
          BY <1>2, SavedRows DEF CommitStatus
      <2>2. e.to = x.status /\ x.status = r.to /\ e.from = r.row.status /\ e.ver = None
          BY <1>2, <2>1 DEF CommitStatus, DocRow, Entry
      <2>3. doc' = [doc EXCEPT ![d] = x] /\ hist' = [hist EXCEPT ![d] = Append(@, e)]
          BY <1>2, <2>1 DEF CommitStatus
      <2> QED  BY <1>2, <2>1, <2>2, <2>3
  <1> QED  BY <1>1, <1>2

\* Saving a document row and its history row in one transaction is one entry
\* of the trail.
LEMMA CommitRecords ==
    ASSUME TypeOK, NEW d \in Doc, NEW x \in DocRow, NEW e \in HistRow, e.to = x.status,
           doc' = [doc EXCEPT ![d] = x], hist' = [hist EXCEPT ![d] = Append(@, e)]
    PROVE  \E f \in Trail!Entry : f.from = e.from /\ Trail!Record(d, f)
  <1> DEFINE f == [from |-> e.from, to |-> e.to]
  <1>1. f \in Trail!Entry /\ f.from = e.from
      BY DEF Trail!Entry, HistRow
  <1>2. StatusOf' = [StatusOf EXCEPT ![d] = f.to]
      BY NoneAssumption DEF StatusOf, TypeOK
  <1>3. hist[d] \in Seq(HistRow)
      BY DEF TypeOK
  <1>4. \A c \in Doc : Logged'[c] = IF c = d THEN Append(Logged[d], f) ELSE Logged[c]
      BY <1>3, EntriesAppend DEF Logged, TypeOK
  <1>5. Logged' = [Logged EXCEPT ![d] = Append(@, f)]
      BY <1>4 DEF Logged
  <1> QED  BY <1>1, <1>2, <1>5 DEF Trail!Record

\* No other step touches the trail.
LEMMA OthersRecordNothing ==
    ASSUME TypeOK, [Next]_vars, ~\E p \in Proc : CommitVersion(p) \/ CommitStatus(p)
    PROVE  UNCHANGED <<StatusOf, Logged>>
  <1>1. ASSUME UNCHANGED <<doc, hist>>
        PROVE  UNCHANGED <<StatusOf, Logged>>
      BY <1>1 DEF StatusOf, Logged
  <1>2. CASE UNCHANGED vars
      BY <1>1, <1>2 DEF vars
  <1>3. ASSUME NEW p \in Proc, NEW a \in Actor, NEW d \in Doc, CreateUploadTarget(p, a, d)
        PROVE  UNCHANGED <<StatusOf, Logged>>
      <2> DEFINE row == [status |-> "pending", current |-> None, approved |-> None]
      <2>1. row \in DocRow /\ row.status = "pending"
          BY DEF DocRow, Status
      <2>2. doc' = [doc EXCEPT ![d] = row] /\ doc[d] = None /\ hist' = hist
          BY <1>3 DEF CreateUploadTarget
      <2> HIDE DEF row
      <2>3. StatusOf' = StatusOf
          BY <2>1, <2>2, NoneAssumption DEF StatusOf, TypeOK
      <2> QED  BY <2>2, <2>3 DEF Logged
  <1>4. ASSUME NEW p \in Proc, Resume(p), ~CommitVersion(p), ~CommitStatus(p)
        PROVE  UNCHANGED <<doc, hist>>
      BY <1>4 DEF Resume, InsertFirstVersion, InsertVersion, NumberVersion, ReceiveBytes, StoreBytes,
                  ValidateVersion, CommitResult, Abandon
  <1>5. ASSUME NEW p \in Proc, NEW a \in Actor, NEW d \in Doc, DocumentCall(p, a, d),
               ~CreateUploadTarget(p, a, d)
        PROVE  UNCHANGED <<doc, hist>>
      BY <1>5 DEF DocumentCall, CreateVersionIntent, UploadVersion, RequestVersion,
                  CreatePhaseResultIntent, BeginUploadBytes, BeginConfirm, BeginConfirmResult,
                  UpdateStatus, OverrideStatus, BeginStatus
  <1>6. ASSUME NEW v \in Version, Lapse(v) \/ PutObject(v)
        PROVE  UNCHANGED <<doc, hist>>
      BY <1>6 DEF Lapse, PutObject
  <1> QED
      BY <1>1, <1>2, <1>3, <1>4, <1>5, <1>6 DEF Next

LEMMA StepRecords ==
    ASSUME TypeOK, [Next]_vars
    PROVE  [Trail!Next]_<<StatusOf, Logged>>
  <1>1. ASSUME NEW p \in Proc, CommitVersion(p) \/ CommitStatus(p)
        PROVE  Trail!Next
      <2>1. PICK d \in Doc, x \in DocRow, e \in HistRow :
               /\ e.to = x.status
               /\ doc' = [doc EXCEPT ![d] = x] /\ hist' = [hist EXCEPT ![d] = Append(@, e)]
          BY <1>1, CommitSaves
      <2> QED  BY <2>1, CommitRecords DEF Trail!Next
  <1> QED  BY <1>1, OthersRecordNothing

\* The document tables implement the audit trail: no status without its row.
THEOREM DocumentsAudited == Spec => AuditedStatus
  <1>1. Init => Trail!Init
      <2>1. Entries(<<>>) = <<>>
          BY DEF Entries
      <2> QED  BY <2>1 DEF Init, Trail!Init, StatusOf, Logged
  <1>2. TypeOK /\ [Next]_vars => [Trail!Next]_Trail!vars
      BY StepRecords DEF Trail!vars
  <1> QED  BY <1>1, <1>2, TypeCorrect, PTL DEF Spec, AuditedStatus, Trail!Spec

-----------------------------------------------------------------------------
(* Calls served one after the other *)

\* One request at a time: what serving call after call means for Proc.
OneAtATime == \A p, q \in Proc : p = q

\* What a request remembers is what the tables D and V hold; a number it has taken
\* is above every number of its document.
Fresh(r, D, V) ==
    /\ r.pc \in {"first_version", "number_version", "insert_version", "find_version",
                 "commit_version", "commit_status"} => D[r.doc] # None
    /\ r.pc = "first_version" => \A v \in Version : V[v] # None => V[v].doc # r.doc
    /\ r.pc = "insert_version" =>
          \A v \in Version : V[v] # None /\ V[v].doc = r.doc => V[v].no < r.no
    /\ r.pc \in {"find_version", "commit_version", "commit_status"} => r.row = D[r.doc]
    /\ r.pc \in {"receive_bytes", "commit_version", "commit_result"} => r.vrow = V[r.ver]

\* Versions belong to documents that exist, under numbers of their own.
Numbered(D, V) ==
    \A v \in Version : V[v] # None =>
        /\ D[V[v].doc] # None
        /\ \A w \in Version \ {v} : V[w] # None /\ V[w].doc = V[v].doc => V[w].no # V[v].no

\* A history row names a confirmed version of its document.
Referenced(H, V) ==
    \A d \in Doc : \A i \in DOMAIN H[d] :
        H[d][i].ver # None => /\ V[H[d][i].ver] # None /\ V[H[d][i].ver].doc = d
                              /\ V[H[d][i].ver].status = "ready"

SerialInv ==
    /\ Inv
    /\ Numbered(doc, ver)
    /\ Referenced(hist, ver)
    /\ \A p \in Proc : Fresh(req[p], doc, ver)

LEMMA AloneFresh ==
    ASSUME OneAtATime, TypeOK, NEW p \in Proc, NEW r, Goto(p, r), Fresh(r, doc', ver')
    PROVE  \A q \in Proc : Fresh(req'[q], doc', ver')
  <1> SUFFICES ASSUME NEW q \in Proc PROVE Fresh(req'[q], doc', ver')
      OBVIOUS
  <1>1. req'[q] = r
      BY DEF OneAtATime, TypeOK, Goto
  <1> QED  BY <1>1

\* The steps that save nothing new, uploaded bytes of an intent among them.
Quiet(p) == UNCHANGED <<doc, ver, hist>> /\ \A q \in Proc : Fresh(req'[q], doc', ver')

LEMMA CallQuiet ==
    ASSUME OneAtATime, SerialInv, NEW p \in Proc, NEW a \in Actor, NEW d \in Doc,
           DocumentCall(p, a, d), ~CreateUploadTarget(p, a, d)
    PROVE  Quiet(p)
  <1> USE AloneFresh DEF SerialInv, Inv
  <1>1. ASSUME NEW k \in Kind, NEW t, RequestVersion(p, a, d, k, t)
        PROVE  Quiet(p)
      <2> DEFINE r == [pc |-> "number_version", doc |-> d, kind |-> k, then |-> t]
      <2>1. Goto(p, r) /\ Fresh(r, doc', ver')
          BY <1>1 DEF RequestVersion, Fresh
      <2> HIDE DEF r
      <2> QED  BY <1>1, <2>1 DEF Quiet, RequestVersion
  <1>2. CASE CreatePhaseResultIntent(p, a, d)
      <2> DEFINE r == [pc |-> "number_version", doc |-> d, kind |-> "phase_result", then |-> None]
      <2>1. Goto(p, r) /\ Fresh(r, doc', ver')
          BY <1>2 DEF CreatePhaseResultIntent, Fresh
      <2> HIDE DEF r
      <2> QED  BY <1>2, <2>1 DEF Quiet, CreatePhaseResultIntent
  <1>3. ASSUME NEW v \in Version, BeginUploadBytes(p, a, d, v)
        PROVE  Quiet(p)
      <2> DEFINE r == [pc |-> "receive_bytes", ver |-> v, vrow |-> ver[v]]
      <2>1. Goto(p, r) /\ Fresh(r, doc', ver')
          BY <1>3 DEF BeginUploadBytes, Fresh
      <2> HIDE DEF r
      <2> QED  BY <1>3, <2>1 DEF Quiet, BeginUploadBytes
  <1>4. ASSUME NEW v \in Version, BeginConfirm(p, a, d, v)
        PROVE  Quiet(p)
      <2> DEFINE r == [pc |-> "find_version", actor |-> a, doc |-> d, row |-> doc[d], ver |-> v]
      <2>1. Goto(p, r) /\ Fresh(r, doc', ver')
          BY <1>4 DEF BeginConfirm, Fresh
      <2> HIDE DEF r
      <2> QED  BY <1>4, <2>1 DEF Quiet, BeginConfirm
  <1>5. ASSUME NEW v \in Version, BeginConfirmResult(p, a, d, v)
        PROVE  Quiet(p)
      <2> DEFINE r == [pc |-> "commit_result", ver |-> v, vrow |-> ver[v]]
      <2>1. Goto(p, r) /\ Fresh(r, doc', ver')
          BY <1>5 DEF BeginConfirmResult, Fresh
      <2> HIDE DEF r
      <2> QED  BY <1>5, <2>1 DEF Quiet, BeginConfirmResult
  <1>6. ASSUME NEW s, NEW e, BeginStatus(p, a, d, s, e)
        PROVE  Quiet(p)
      <2> DEFINE r == [pc |-> "commit_status", doc |-> d, row |-> doc[d], to |-> s, expected |-> e]
      <2>1. Goto(p, r) /\ Fresh(r, doc', ver')
          BY <1>6 DEF BeginStatus, Fresh
      <2> HIDE DEF r
      <2> QED  BY <1>6, <2>1 DEF Quiet, BeginStatus
  <1> QED
      BY <1>1, <1>2, <1>3, <1>4, <1>5, <1>6
      DEF DocumentCall, CreateVersionIntent, UploadVersion, UpdateStatus, OverrideStatus

LEMMA ResumeQuiet ==
    ASSUME OneAtATime, SerialInv, NEW p \in Proc,
           NumberVersion(p) \/ ReceiveBytes(p) \/ StoreBytes(p) \/ ValidateVersion(p) \/ Abandon(p)
    PROVE  Quiet(p)
  <1> USE AloneFresh, RequestAt DEF SerialInv, Inv
  <1>1. CASE NumberVersion(p)
      <2>1. NumbersTaken(req[p].doc) \subseteq Nat
          BY DEF NumbersTaken, VersionsOf, TypeOK, VerRow
      <2>2. PICK m \in Nat :
               /\ \A n \in NumbersTaken(req[p].doc) : n <= m
               /\ Goto(p, [pc |-> "insert_version", doc |-> req[p].doc, kind |-> req[p].kind,
                           no |-> m + 1, then |-> req[p].then])
          BY <1>1, <2>1 DEF NumberVersion
      <2> DEFINE r == [pc |-> "insert_version", doc |-> req[p].doc, kind |-> req[p].kind,
                       no |-> m + 1, then |-> req[p].then]
      <2>3. \A v \in Version : ver[v] # None /\ ver[v].doc = req[p].doc => ver[v].no < m + 1
          BY <2>1, <2>2 DEF NumbersTaken, VersionsOf
      <2>4. Goto(p, r) /\ Fresh(r, doc', ver')
          BY <1>1, <2>2, <2>3 DEF NumberVersion, Fresh, At
      <2> HIDE DEF r
      <2> QED  BY <1>1, <2>4 DEF Quiet, NumberVersion
  <1>2. CASE ReceiveBytes(p)
      <2>1. ver' = ver
          BY <1>2 DEF ReceiveBytes, Fresh, At, TypeOK
      <2>2. Goto(p, Idle) /\ Fresh(Idle, doc', ver')
          BY <1>2 DEF ReceiveBytes, Fresh, Idle
      <2> QED  BY <1>2, <2>1, <2>2 DEF Quiet, ReceiveBytes
  <1>3. CASE StoreBytes(p)
      <2> DEFINE r == [pc |-> "find_version", actor |-> req[p].actor, doc |-> req[p].doc,
                       row |-> doc[req[p].doc], ver |-> req[p].ver]
      <2>1. Goto(p, r) /\ Fresh(r, doc', ver')
          BY <1>3 DEF StoreBytes, Fresh
      <2> HIDE DEF r
      <2> QED  BY <1>3, <2>1 DEF Quiet, StoreBytes
  <1>4. CASE ValidateVersion(p)
      <2> DEFINE v == req[p].ver
                 r == [pc |-> "commit_version", doc |-> req[p].doc, row |-> req[p].row, ver |-> v,
                       vrow |-> ver[v], to |-> StatusAfter(req[p].row, ver[v].kind)]
      <2>1. Goto(p, r) /\ Fresh(r, doc', ver')
          BY <1>4 DEF ValidateVersion, Fresh, At
      <2> HIDE DEF r
      <2> QED  BY <1>4, <2>1 DEF Quiet, ValidateVersion
  <1>5. CASE Abandon(p)
      <2>1. Goto(p, Idle) /\ Fresh(Idle, doc', ver')
          BY <1>5 DEF Abandon, Fresh, Idle
      <2> QED  BY <1>5, <2>1 DEF Quiet, Abandon
  <1> QED  BY <1>1, <1>2, <1>3, <1>4, <1>5

\* What the steps that save a row do to the numbers: a new version has a number of its
\* own, a confirmed one keeps document and number, and no document goes away.
LEMMA NumbersKept ==
    ASSUME TypeOK, Numbered(doc, ver), NEW v \in Version, NEW w \in VerRow,
           ver' = [ver EXCEPT ![v] = w], doc[w.doc] # None,
           \A x \in Version \ {v} : ver[x] # None /\ ver[x].doc = w.doc => ver[x].no # w.no,
           \A d \in Doc : doc[d] # None => doc'[d] # None
    PROVE  Numbered(doc', ver')
  <1> USE NoneAssumption DEF TypeOK
  <1>1. ASSUME NEW y \in Version, ver'[y] # None
        PROVE  doc'[ver'[y].doc] # None
      <2>1. CASE y = v
          BY <2>1 DEF VerRow
      <2>2. CASE y # v
          BY <1>1, <2>2 DEF Numbered, VerRow
      <2> QED  BY <2>1, <2>2
  <1>2. ASSUME NEW y \in Version, ver'[y] # None, NEW x \in Version \ {y}, ver'[x] # None,
               ver'[x].doc = ver'[y].doc
        PROVE  ver'[x].no # ver'[y].no
      <2>1. CASE y = v
          BY <1>2, <2>1
      <2>2. CASE x = v
          BY <1>2, <2>2
      <2>3. CASE y # v /\ x # v
          BY <1>2, <2>3 DEF Numbered
      <2> QED  BY <2>1, <2>2, <2>3
  <1> QED  BY <1>1, <1>2 DEF Numbered

LEMMA ReferencesKept ==
    ASSUME TypeOK, Referenced(hist, ver), hist' = hist, NEW v \in Version, NEW w \in VerRow,
           ver' = [ver EXCEPT ![v] = w],
           ver[v] # None => w.doc = ver[v].doc /\ (ver[v].status = "ready" => w.status = "ready")
    PROVE  Referenced(hist', ver')
  <1> SUFFICES ASSUME NEW d \in Doc, NEW i \in DOMAIN hist[d], hist[d][i].ver # None
               PROVE  LET x == hist[d][i].ver
                      IN  ver'[x] # None /\ ver'[x].doc = d /\ ver'[x].status = "ready"
      BY DEF Referenced
  <1> DEFINE x == hist[d][i].ver
  <1>1. hist[d] \in Seq(HistRow) /\ hist[d][i] \in HistRow
      <2>1. hist[d] \in Seq(HistRow)
          BY DEF TypeOK
      <2> QED  BY <2>1, LenProperties, ElementOfSeq
  <1>2. x \in Version /\ ver[x] # None /\ ver[x].doc = d /\ ver[x].status = "ready"
      BY <1>1 DEF Referenced, HistRow
  <1> QED  BY <1>2, NoneAssumption DEF TypeOK

\* A history row is added that names no version, or a confirmed one.
LEMMA ReferencesAdded ==
    ASSUME TypeOK, Referenced(hist, ver'), NEW c \in Doc, NEW e \in HistRow,
           hist' = [hist EXCEPT ![c] = Append(@, e)],
           e.ver # None => ver'[e.ver] # None /\ ver'[e.ver].doc = c /\ ver'[e.ver].status = "ready"
    PROVE  Referenced(hist', ver')
  <1> SUFFICES ASSUME NEW d \in Doc, NEW i \in DOMAIN hist'[d], hist'[d][i].ver # None
               PROVE  LET x == hist'[d][i].ver
                      IN  ver'[x] # None /\ ver'[x].doc = d /\ ver'[x].status = "ready"
      BY DEF Referenced
  <1>1. CASE d # c
      <2>1. hist'[d] = hist[d]
          BY <1>1 DEF TypeOK
      <2> QED  BY <2>1 DEF Referenced
  <1>2. CASE d = c
      <2>1. hist'[d] = Append(hist[d], e) /\ hist[d] \in Seq(HistRow)
          BY <1>2 DEF TypeOK
      <2>2. i \in 1 .. Len(hist[d]) + 1 /\ Len(hist[d]) \in Nat
          BY <2>1, AppendProperties, LenProperties
      <2>3. CASE i = Len(hist[d]) + 1
          <3>1. hist'[d][i] = e
              BY <2>1, <2>3, AppendProperties
          <3> QED  BY <1>2, <3>1
      <2>4. CASE i \in 1 .. Len(hist[d])
          <3>1. hist'[d][i] = hist[d][i] /\ i \in DOMAIN hist[d]
              BY <2>1, <2>4, AppendProperties, LenProperties
          <3> QED  BY <3>1 DEF Referenced
      <2> QED  BY <2>2, <2>3, <2>4
  <1> QED  BY <1>1, <1>2

\* Idle, and what follows the insertion of a version, remember no row.
LEMMA NothingRemembered ==
    ASSUME NEW D, NEW V
    PROVE  /\ Fresh(Idle, D, V)
           /\ \A r : r.pc = "store_bytes" => Fresh(r, D, V)
  BY DEF Fresh, Idle

LEMMA CreateSerial ==
    ASSUME OneAtATime, SerialInv, NEW p \in Proc, NEW a \in Actor, NEW d \in Doc,
           CreateUploadTarget(p, a, d)
    PROVE  /\ Numbered(doc', ver') /\ Referenced(hist', ver')
           /\ \A q \in Proc : Fresh(req'[q], doc', ver')
  <1> USE DEF SerialInv, Inv
  <1>1. UNCHANGED <<ver, hist>> /\ doc[d] = None
      BY DEF CreateUploadTarget
  <1>2. \A c \in Doc : doc[c] # None => doc'[c] # None
      BY <1>1 DEF CreateUploadTarget, TypeOK
  <1>3. doc'[d] # None
      <2> DEFINE row == [status |-> "pending", current |-> None, approved |-> None]
      <2>1. row \in DocRow
          BY DEF DocRow, Status
      <2> HIDE DEF row
      <2>2. doc' = [doc EXCEPT ![d] = row]
          BY DEF CreateUploadTarget, row
      <2> QED  BY <2>1, <2>2, NoneAssumption DEF TypeOK
  <1>4. Numbered(doc', ver')
      BY <1>1, <1>2 DEF Numbered, TypeOK, VerRow
  <1>5. \A v \in Version : ver[v] # None => ver[v].doc # d
      BY <1>1 DEF Numbered
  <1> DEFINE r == [pc |-> "first_version", doc |-> d,
                   kind |-> IF RoleOf[a] = "customer" THEN "customer" ELSE "staff_on_behalf"]
  <1>6. Goto(p, r) /\ Fresh(r, doc', ver')
      BY <1>1, <1>3, <1>5 DEF CreateUploadTarget, Fresh
  <1> HIDE DEF r
  <1> QED  BY <1>1, <1>4, <1>6, AloneFresh DEF Referenced

LEMMA InsertSerial ==
    ASSUME OneAtATime, SerialInv, NEW p \in Proc, NEW v \in Version,
           InsertFirstVersion(p, v) \/ InsertVersion(p, v)
    PROVE  /\ Numbered(doc', ver') /\ Referenced(hist', ver')
           /\ \A q \in Proc : Fresh(req'[q], doc', ver')
  <1> USE RequestAt DEF SerialInv, Inv
  <1>1. PICK d \in Doc, w \in VerRow :
           /\ d = req[p].doc /\ w.doc = d /\ ver' = [ver EXCEPT ![v] = w]
           /\ \A x \in Version : ver[x] # None /\ ver[x].doc = d => ver[x].no # w.no
      <2>1. CASE InsertFirstVersion(p, v)
          <3> DEFINE w == Intent(req[p].doc, req[p].kind, 1)
          <3>1. w \in VerRow /\ w.doc = req[p].doc
              BY <2>1 DEF InsertFirstVersion, Intent, VerRow
          <3>2. \A x \in Version : ver[x] # None => ver[x].doc # req[p].doc
              BY <2>1 DEF InsertFirstVersion, Fresh, At
          <3>3. ver' = [ver EXCEPT ![v] = w]
              BY <2>1 DEF InsertFirstVersion
          <3> HIDE DEF w
          <3> QED  BY <2>1, <3>1, <3>2, <3>3 DEF VerRow
      <2>2. CASE InsertVersion(p, v)
          <3> DEFINE w == Intent(req[p].doc, req[p].kind, req[p].no)
          <3>1. w \in VerRow /\ w.doc = req[p].doc /\ w.no = req[p].no
              BY <2>2 DEF InsertVersion, Intent, VerRow
          <3>2. \A x \in Version : ver[x] # None /\ ver[x].doc = req[p].doc => ver[x].no < w.no
              BY <2>2, <3>1 DEF InsertVersion, Fresh, At
          <3>3. ver' = [ver EXCEPT ![v] = w]
              BY <2>2 DEF InsertVersion
          <3> HIDE DEF w
          <3>4. \A x \in Version : ver[x] # None /\ ver[x].doc = req[p].doc => ver[x].no # w.no
              BY <3>1, <3>2 DEF TypeOK, VerRow
          <3> QED  BY <2>2, <3>1, <3>3, <3>4 DEF VerRow
      <2> QED  BY <2>1, <2>2
  <1>2. /\ UNCHANGED <<doc, hist>> /\ ver[v] = None
        /\ doc[d] # None
      BY <1>1 DEF InsertFirstVersion, InsertVersion, Fresh, At
  <1>3. Numbered(doc', ver')
      <2>1. doc[w.doc] # None /\ \A c \in Doc : doc[c] # None => doc'[c] # None
          BY <1>1, <1>2
      <2>2. \A x \in Version \ {v} : ver[x] # None /\ ver[x].doc = w.doc => ver[x].no # w.no
          BY <1>1
      <2>3. TypeOK /\ Numbered(doc, ver) /\ ver' = [ver EXCEPT ![v] = w]
          BY <1>1
      <2> QED  BY <2>1, <2>2, <2>3, NumbersKept
  <1>4. Referenced(hist', ver')
      BY <1>1, <1>2, ReferencesKept
  <1>5. \A q \in Proc : Fresh(req'[q], doc', ver')
      <2>1. CASE Goto(p, Idle)
          BY <2>1, AloneFresh, NothingRemembered
      <2>2. ASSUME NEW r, r.pc = "store_bytes", Goto(p, r)
            PROVE  \A q \in Proc : Fresh(req'[q], doc', ver')
          BY <2>2, AloneFresh, NothingRemembered
      <2> QED  BY <2>1, <2>2 DEF InsertFirstVersion, InsertVersion
  <1> QED  BY <1>3, <1>4, <1>5

\* What a confirmation writes to the versions.
LEMMA ReadySerial ==
    ASSUME SerialInv, NEW p \in Proc, CommitVersion(p) \/ CommitResult(p)
    PROVE  LET v == req[p].ver
               w == MadeReady(ver[v])
           IN  /\ v \in Version /\ ver[v] \in VerRow
               /\ ver' = [ver EXCEPT ![v] = w]
               /\ w \in VerRow /\ w.status = "ready"
               /\ w.doc = ver[v].doc /\ w.kind = ver[v].kind /\ w.no = ver[v].no
  <1> USE RequestAt DEF SerialInv, Inv
  <1>1. req[p].vrow = ver[req[p].ver] /\ req[p].ver \in Version /\ req[p].vrow \in VerRow
      BY DEF CommitVersion, CommitResult, Fresh, At
  <1>2. MadeReady(ver[req[p].ver]) \in VerRow
      BY <1>1, SavedRows
  <1> QED  BY <1>1, <1>2 DEF CommitVersion, CommitResult, MadeReady, VerRow

LEMMA ReadyKeeps ==
    ASSUME SerialInv, NEW p \in Proc, CommitVersion(p) \/ CommitResult(p),
           \A d \in Doc : doc[d] # None => doc'[d] # None
    PROVE  /\ Numbered(doc', ver')
           /\ \A h : h = hist => Referenced(h, ver')
  <1> USE DEF SerialInv, Inv
  <1>1. PICK v \in Version, w \in VerRow :
           /\ ver[v] \in VerRow /\ ver' = [ver EXCEPT ![v] = w] /\ w.status = "ready"
           /\ w.doc = ver[v].doc /\ w.no = ver[v].no
      BY ReadySerial
  <1>2. ver[v] # None
      BY <1>1, NoneAssumption
  <1>3. doc[w.doc] # None
      BY <1>1, <1>2 DEF Numbered
  <1>4. \A x \in Version \ {v} : ver[x] # None /\ ver[x].doc = w.doc => ver[x].no # w.no
      BY <1>1, <1>2 DEF Numbered
  <1>5. Numbered(doc', ver')
      BY <1>1, <1>3, <1>4, NumbersKept
  <1>6. ASSUME NEW h, h = hist PROVE Referenced(h, ver')
      <2> SUFFICES ASSUME NEW d \in Doc, NEW i \in DOMAIN hist[d], hist[d][i].ver # None
                   PROVE  LET x == hist[d][i].ver
                          IN  ver'[x] # None /\ ver'[x].doc = d /\ ver'[x].status = "ready"
          BY <1>6 DEF Referenced
      <2> DEFINE x == hist[d][i].ver
      <2>1. hist[d] \in Seq(HistRow)
          BY DEF TypeOK
      <2>2. hist[d][i] \in HistRow
          BY <2>1, LenProperties, ElementOfSeq
      <2>3. x \in Version /\ ver[x] # None /\ ver[x].doc = d /\ ver[x].status = "ready"
          BY <2>2 DEF Referenced, HistRow
      <2> QED  BY <1>1, <2>3, NoneAssumption DEF TypeOK
  <1> QED  BY <1>5, <1>6

LEMMA CommitSerial ==
    ASSUME OneAtATime, SerialInv, NEW p \in Proc,
           CommitVersion(p) \/ CommitResult(p) \/ CommitStatus(p)
    PROVE  /\ Numbered(doc', ver') /\ Referenced(hist', ver')
           /\ \A q \in Proc : Fresh(req'[q], doc', ver')
  <1> USE RequestAt DEF SerialInv, Inv
  <1>1. \A q \in Proc : Fresh(req'[q], doc', ver')
      BY AloneFresh, NothingRemembered DEF CommitVersion, CommitResult, CommitStatus
  <1>2. \A d \in Doc : doc[d] # None => doc'[d] # None
      <2>1. CASE CommitResult(p)
          BY <2>1 DEF CommitResult
      <2>2. CASE CommitVersion(p) \/ CommitStatus(p)
          BY <2>2, CommitSaves, NoneAssumption DEF TypeOK
      <2> QED  BY <2>1, <2>2
  <1>3. CASE CommitResult(p)
      <2>1. hist' = hist
          BY <1>3 DEF CommitResult
      <2> QED  BY <1>1, <1>2, <1>3, <2>1, ReadyKeeps
  <1>4. CASE CommitVersion(p)
      <2>1. Numbered(doc', ver') /\ Referenced(hist, ver')
          BY <1>2, <1>4, ReadyKeeps
      <2>2. PICK d \in Doc, e \in HistRow :
               /\ d = req[p].doc /\ e.ver = req[p].ver /\ hist' = [hist EXCEPT ![d] = Append(@, e)]
          BY <1>4, CommitSaves
      <2>3. ver'[e.ver] \in VerRow /\ ver'[e.ver].doc = d /\ ver'[e.ver].status = "ready"
          <3>1. ver[req[p].ver].doc = req[p].doc
              BY <1>4 DEF CommitVersion, HeldSound, Held, Fresh, At
          <3> QED  BY <1>4, <2>2, <3>1, ReadySerial DEF TypeOK
      <2>4. Referenced(hist', ver')
          BY <2>1, <2>2, <2>3, NoneAssumption, ReferencesAdded
      <2> QED  BY <1>1, <2>1, <2>4
  <1>5. CASE CommitStatus(p)
      <2>1. ver' = ver /\ ~CommitVersion(p)
          BY <1>5 DEF CommitStatus, CommitVersion, At
      <2>2. PICK d \in Doc, e \in HistRow : e.ver = None /\ hist' = [hist EXCEPT ![d] = Append(@, e)]
          BY <1>5, <2>1, CommitSaves
      <2>3. Referenced(hist', ver')
          BY <2>1, <2>2, ReferencesAdded
      <2>4. Numbered(doc', ver')
          BY <1>2, <2>1 DEF Numbered, TypeOK, VerRow
      <2> QED  BY <1>1, <2>3, <2>4
  <1> QED  BY <1>3, <1>4, <1>5

LEMMA SerialStep ==
    ASSUME OneAtATime, SerialInv, [Next]_vars
    PROVE  SerialInv'
  <1>1. Inv'
      BY NextSound DEF SerialInv
  <1>2. ASSUME NEW p \in Proc, Quiet(p)
        PROVE  /\ Numbered(doc', ver') /\ Referenced(hist', ver')
               /\ \A q \in Proc : Fresh(req'[q], doc', ver')
      BY <1>2 DEF Quiet, SerialInv
  <1>3. ASSUME UNCHANGED <<doc, ver, hist, req>>
        PROVE  SerialInv'
      BY <1>1, <1>3 DEF SerialInv
  <1>4. ASSUME NEW p \in Proc, NEW a \in Actor, NEW d \in Doc, DocumentCall(p, a, d)
        PROVE  SerialInv'
      BY <1>1, <1>2, <1>4, CallQuiet, CreateSerial DEF SerialInv
  <1>5. ASSUME NEW p \in Proc, Resume(p)
        PROVE  SerialInv'
      BY <1>1, <1>2, <1>5, ResumeQuiet, InsertSerial, CommitSerial DEF SerialInv, Resume
  <1> QED  BY <1>3, <1>4, <1>5 DEF Next, vars, Lapse, PutObject

LEMMA SerialStart == Init => SerialInv
  BY InitType DEF Init, SerialInv, Inv, PointersSound, HeldSound, Held, Numbered, Referenced,
                  Fresh, Idle

\* Served one after the other, the versions of a document carry distinct numbers:
\* nextVersionNo and the save that uses its answer are two statements.
THEOREM NumbersDistinct == OneAtATime => (Spec => []VersionNosDistinct)
  <1> SUFFICES ASSUME OneAtATime PROVE Spec => []VersionNosDistinct
      OBVIOUS
  <1>1. SerialInv /\ [Next]_vars => SerialInv'
      BY SerialStep
  <1>2. SerialInv => VersionNosDistinct
      BY DEF SerialInv, Numbered, VersionNosDistinct, VersionsOf
  <1> QED  BY <1>1, <1>2, SerialStart, PTL DEF Spec

\* Served one after the other, every history row starts from the status the document
\* had: the row is read, checked and, only later, saved with the move.
THEOREM HistoryChained == OneAtATime => (Spec => ChainedHistory)
  <1> SUFFICES ASSUME OneAtATime PROVE Spec => ChainedHistory
      OBVIOUS
  <1>1. Init => Trail!Init
      <2>1. Entries(<<>>) = <<>>
          BY DEF Entries
      <2> QED  BY <2>1 DEF Init, Trail!Init, StatusOf, Logged
  <1>2. SerialInv /\ [Next]_vars => [Trail!ChainedNext]_Trail!vars
      <2> SUFFICES ASSUME SerialInv, [Next]_vars PROVE [Trail!ChainedNext]_Trail!vars
          OBVIOUS
      <2>1. TypeOK
          BY DEF SerialInv, Inv
      <2>2. ASSUME NEW p \in Proc, CommitVersion(p) \/ CommitStatus(p)
            PROVE  Trail!ChainedNext
          <3>1. PICK d \in Doc, x \in DocRow, e \in HistRow :
                   /\ d = req[p].doc /\ e.from = req[p].row.status /\ e.to = x.status
                   /\ doc' = [doc EXCEPT ![d] = x] /\ hist' = [hist EXCEPT ![d] = Append(@, e)]
              BY <2>1, <2>2, CommitSaves
          <3>2. doc[d] # None /\ e.from = doc[d].status
              BY <2>2, <3>1 DEF CommitVersion, CommitStatus, SerialInv, Fresh, At
          <3>3. e.from = StatusOf[d]
              BY <3>2 DEF StatusOf
          <3>4. PICK f \in Trail!Entry : f.from = e.from /\ Trail!Record(d, f)
              BY <2>1, <3>1, CommitRecords
          <3> QED  BY <3>3, <3>4 DEF Trail!ChainedNext, Trail!RecordChained
      <2> QED  BY <2>1, <2>2, OthersRecordNothing DEF Trail!vars
  <1>3. SerialInv /\ [Next]_vars => SerialInv'
      BY SerialStep
  <1> QED  BY <1>1, <1>2, <1>3, SerialStart, PTL DEF Spec, ChainedHistory, Trail!ChainedSpec

-----------------------------------------------------------------------------
(* Moves of the status machine, without the admin override *)

\* Where a request is about to move its document.
MovesBy(r) ==
    /\ r.pc = "commit_version" =>
          \/ r.vrow.kind = "official" /\ r.to = "approved" /\ r.to \in Flow[r.row.status]
          \/ r.vrow.kind # "official" /\ r.to = r.row.status
          \/ r.vrow.kind # "official" /\ r.row.status = "rejected" /\ r.to = "pending"
    /\ r.pc = "commit_status" => r.to \in StaffMoves[r.row.status]

MovesInv == TypeOK /\ \A p \in Proc : MovesBy(req[p])

\* No role has a move the machine lacks.
LEMMA RolesWithinFlow ==
    ASSUME NEW s \in Status, NEW t, NEW role \in Roles, CanRoleTransition(role, s, t)
    PROVE  t \in Flow[s]
  <1>1. t \in StaffMoves[s] \/ t \in CustomerMoves[s]
      BY DEF CanRoleTransition, TransitionsByRole
  <1>2. CASE t \in StaffMoves[s]
      BY <1>2 DEF StaffMoves, Flow, Status
  <1>3. CASE t \in CustomerMoves[s]
      BY <1>3 DEF CustomerMoves, Flow, Status
  <1> QED  BY <1>1, <1>2, <1>3

LEMMA MovesKept ==
    ASSUME MovesInv, NEW p \in Proc, NEW r, Goto(p, r), MovesBy(r)
    PROVE  \A q \in Proc : MovesBy(req'[q])
  BY DEF MovesInv, TypeOK, Goto

LEMMA MovesStep ==
    ASSUME OverrideTo = {}, MovesInv, [Next]_vars
    PROVE  MovesInv'
  <1> USE RequestAt DEF MovesInv
  <1>1. TypeOK'
      BY NextType
  <1>2. ASSUME NEW p \in Proc, NEW r, Goto(p, r), r.pc \notin {"commit_version", "commit_status"}
        PROVE  \A q \in Proc : MovesBy(req'[q])
      BY <1>2, MovesKept DEF MovesBy
  <1>3. ASSUME NEW p \in Proc, ValidateVersion(p)
        PROVE  \A q \in Proc : MovesBy(req'[q])
      <2> DEFINE v == req[p].ver
                 r == [pc |-> "commit_version", doc |-> req[p].doc, row |-> req[p].row, ver |-> v,
                       vrow |-> ver[v], to |-> StatusAfter(req[p].row, ver[v].kind)]
      <2>1. /\ Goto(p, r) /\ MayConfirm(RoleOf[req[p].actor], req[p].row, ver[v].kind)
            /\ req[p].row.status \in Status /\ RoleOf[req[p].actor] \in Roles
          BY <1>3, PeopleAssumption DEF ValidateVersion, DocRow
      <2>2. MovesBy(r)
          <3>1. CASE ver[v].kind = "official"
              <4>1. "approved" \in Flow[req[p].row.status]
                  BY <2>1, <3>1, RolesWithinFlow DEF MayConfirm, StatusAfter
              <4> QED  BY <3>1, <4>1 DEF MovesBy, StatusAfter
          <3>2. CASE ver[v].kind # "official"
              BY <3>2 DEF MovesBy, StatusAfter
          <3> QED  BY <3>1, <3>2
      <2> HIDE DEF r
      <2> QED  BY <2>1, <2>2, MovesKept
  <1>4. ASSUME NEW p \in Proc, NEW a \in Actor, NEW d \in Doc, NEW to \in Status, NEW expected,
               UpdateStatus(p, a, d, to, expected)
        PROVE  \A q \in Proc : MovesBy(req'[q])
      <2> DEFINE r == [pc |-> "commit_status", doc |-> d, row |-> doc[d], to |-> to,
                       expected |-> expected]
      <2>1. Goto(p, r) /\ to \in StaffMoves[doc[d].status]
          <3>1. RoleOf[a] \in Roles /\ RoleOf[a] # "customer"
              BY <1>4, PeopleAssumption DEF UpdateStatus, BeginStatus, MayMutateStatus, StaffRoles
          <3> QED
              BY <1>4, <3>1 DEF UpdateStatus, BeginStatus, CanRoleTransition, TransitionsByRole
      <2>2. MovesBy(r)
          BY <2>1 DEF MovesBy
      <2> HIDE DEF r
      <2> QED  BY <2>1, <2>2, MovesKept
  <1>5. ASSUME NEW p \in Proc, NEW a \in Actor, NEW d \in Doc, DocumentCall(p, a, d)
        PROVE  \A q \in Proc : MovesBy(req'[q])
      BY <1>2, <1>4, <1>5
      DEF DocumentCall, CreateUploadTarget, CreateVersionIntent, UploadVersion, RequestVersion,
          CreatePhaseResultIntent, BeginUploadBytes, BeginConfirm, BeginConfirmResult
  <1>6. ASSUME NEW p \in Proc, NumberVersion(p)
        PROVE  \A q \in Proc : MovesBy(req'[q])
      <2>1. PICK m : Goto(p, [pc |-> "insert_version", doc |-> req[p].doc, kind |-> req[p].kind,
                              no |-> m, then |-> req[p].then])
          BY <1>6 DEF NumberVersion
      <2> QED  BY <1>2, <2>1
  <1>7. ASSUME NEW p \in Proc, Resume(p)
        PROVE  \A q \in Proc : MovesBy(req'[q])
      BY <1>2, <1>3, <1>6, <1>7
      DEF Resume, InsertFirstVersion, InsertVersion, ReceiveBytes, StoreBytes, CommitVersion,
          CommitResult, CommitStatus, Abandon, Idle
  <1>8. ASSUME UNCHANGED req
        PROVE  \A q \in Proc : MovesBy(req'[q])
      BY <1>8
  <1>9. \A q \in Proc : MovesBy(req'[q])
      BY <1>5, <1>7, <1>8 DEF Next, vars, Lapse, PutObject
  <1> QED  BY <1>1, <1>9

\* Without a transaction a document row stands, or is made.
LEMMA RowsMade ==
    ASSUME TypeOK, [Next]_vars, ~\E p \in Proc : CommitVersion(p) \/ CommitStatus(p), NEW d \in Doc
    PROVE  \/ doc'[d] = doc[d]
           \/ doc[d] = None /\ doc'[d] = [status |-> "pending", current |-> None, approved |-> None]
  <1>1. ASSUME NEW p \in Proc, NEW a \in Actor, NEW c \in Doc, CreateUploadTarget(p, a, c)
        PROVE  \/ doc'[d] = doc[d]
               \/ doc[d] = None /\ doc'[d] = [status |-> "pending", current |-> None, approved |-> None]
      BY <1>1 DEF CreateUploadTarget, TypeOK
  <1>2. ASSUME NEW p \in Proc, Resume(p), ~CommitVersion(p), ~CommitStatus(p)
        PROVE  doc' = doc
      BY <1>2 DEF Resume, InsertFirstVersion, InsertVersion, NumberVersion, ReceiveBytes, StoreBytes,
                  ValidateVersion, CommitResult, Abandon
  <1>3. ASSUME NEW p \in Proc, NEW a \in Actor, NEW c \in Doc, DocumentCall(p, a, c),
               ~CreateUploadTarget(p, a, c)
        PROVE  doc' = doc
      BY <1>3 DEF DocumentCall, CreateVersionIntent, UploadVersion, RequestVersion,
                  CreatePhaseResultIntent, BeginUploadBytes, BeginConfirm, BeginConfirmResult,
                  UpdateStatus, OverrideStatus, BeginStatus
  <1> QED  BY <1>1, <1>2, <1>3 DEF Next, vars, Lapse, PutObject

LEMMA RowsStay ==
    ASSUME TypeOK, [Next]_vars, NEW d \in Doc, doc[d] # None
    PROVE  doc'[d] # None
  <1>1. ASSUME NEW p \in Proc, CommitVersion(p) \/ CommitStatus(p)
        PROVE  doc'[d] # None
      BY <1>1, CommitSaves, NoneAssumption DEF TypeOK
  <1> QED  BY <1>1, RowsMade

LEMMA MovesStart == Init => MovesInv
  BY InitType DEF Init, MovesInv, MovesBy, Idle

\* Served one after the other, and with the admin override out of use, no actor moves a
\* document along an edge the base machine lacks, confirmations included.
THEOREM FlowFollowed == OneAtATime /\ OverrideTo = {} => (Spec => MovesFollowFlow)
  <1> SUFFICES ASSUME OneAtATime, OverrideTo = {} PROVE Spec => MovesFollowFlow
      OBVIOUS
  <1>1. SerialInv /\ MovesInv /\ [Next]_vars =>
           [\A d \in Doc : doc[d] # None /\ doc'[d].status # doc[d].status
                => doc'[d].status \in Flow[doc[d].status]]_vars
      <2> SUFFICES ASSUME SerialInv, MovesInv, [Next]_vars, NEW d \in Doc, doc[d] # None,
                          doc'[d].status # doc[d].status
                   PROVE  doc'[d].status \in Flow[doc[d].status]
          OBVIOUS
      <2>1. TypeOK /\ StatusOf[d] = doc[d].status /\ StatusOf'[d] = doc'[d].status
          BY RowsStay DEF SerialInv, Inv, StatusOf
      <2>2. PICK p \in Proc : CommitVersion(p) \/ CommitStatus(p)
          BY <2>1, OthersRecordNothing
      <2>3. PICK c \in Doc, x \in DocRow :
               c = req[p].doc /\ x.status = req[p].to /\ doc' = [doc EXCEPT ![c] = x]
          BY <2>1, <2>2, CommitSaves
      <2>4. c = d /\ doc'[d].status = req[p].to
          BY <2>1, <2>3 DEF TypeOK
      <2>5. req[p].row = doc[d]
          <3>1. req[p].pc \in {"commit_version", "commit_status"}
              BY <2>2 DEF CommitVersion, CommitStatus, At
          <3>2. Fresh(req[p], doc, ver) /\ req[p].doc = d
              BY <2>3, <2>4 DEF SerialInv
          <3> QED  BY <3>1, <3>2 DEF Fresh
      <2>6. CASE CommitVersion(p)
          BY <2>4, <2>5, <2>6 DEF CommitVersion, At, MovesInv, MovesBy, Flow, Status
      <2>7. CASE CommitStatus(p)
          <3>1. doc'[d].status \in StaffMoves[doc[d].status] /\ doc[d].status \in Status
              BY <2>1, <2>4, <2>5, <2>7 DEF CommitStatus, At, MovesInv, MovesBy, TypeOK, DocRow
          <3> QED  BY <3>1 DEF StaffMoves, Flow, Status
      <2> QED  BY <2>2, <2>6, <2>7
  <1>2. SerialInv /\ [Next]_vars => SerialInv'
      BY SerialStep
  <1>3. MovesInv /\ [Next]_vars => MovesInv'
      BY MovesStep
  <1> QED  BY <1>1, <1>2, <1>3, SerialStart, MovesStart, PTL DEF Spec, MovesFollowFlow

-----------------------------------------------------------------------------
(* Official files come from the government *)

\* A request that will add an official version found its document at the government.
Applied(r, D) ==
    /\ r.pc = "first_version" => r.kind # "official"
    /\ r.pc \in {"number_version", "insert_version"} /\ r.kind = "official"
          => D[r.doc].status = "submitted_to_government"

\* A document with an official version is there, or back.
Governed(D, V) ==
    \A v \in Version : V[v] # None /\ V[v].kind = "official"
        => D[V[v].doc].status \in {"approved", "submitted_to_government"}

GovernmentInv ==
    /\ SerialInv /\ MovesInv
    /\ Governed(doc, ver)
    /\ \A p \in Proc : Applied(req[p], doc)
    /\ OfficialFromGovernment

LEMMA AloneApplied ==
    ASSUME OneAtATime, TypeOK, NEW p \in Proc, NEW r, Goto(p, r), Applied(r, doc')
    PROVE  \A q \in Proc : Applied(req'[q], doc')
  <1> SUFFICES ASSUME NEW q \in Proc PROVE Applied(req'[q], doc')
      OBVIOUS
  <1>1. req'[q] = r
      BY DEF OneAtATime, TypeOK, Goto
  <1> QED  BY <1>1

LEMMA AppliedStep ==
    ASSUME OneAtATime, GovernmentInv, [Next]_vars
    PROVE  \A q \in Proc : Applied(req'[q], doc')
  <1> USE RequestAt DEF GovernmentInv, SerialInv, Inv
  <1>1. ASSUME NEW p \in Proc, NEW r, Goto(p, r),
               r.pc \notin {"first_version", "number_version", "insert_version"}
        PROVE  \A q \in Proc : Applied(req'[q], doc')
      BY <1>1, AloneApplied DEF Applied
  <1>2. ASSUME NEW p \in Proc, NEW a \in Actor, NEW d \in Doc, CreateUploadTarget(p, a, d)
        PROVE  \A q \in Proc : Applied(req'[q], doc')
      <2> DEFINE r == [pc |-> "first_version", doc |-> d,
                       kind |-> IF RoleOf[a] = "customer" THEN "customer" ELSE "staff_on_behalf"]
      <2>1. Goto(p, r) /\ Applied(r, doc')
          BY <1>2 DEF CreateUploadTarget, Applied
      <2> HIDE DEF r
      <2> QED  BY <2>1, AloneApplied
  <1>3. ASSUME NEW p \in Proc, NEW a \in Actor, NEW d \in Doc, NEW k \in Kind, NEW then,
               RequestVersion(p, a, d, k, then)
        PROVE  \A q \in Proc : Applied(req'[q], doc')
      <2> DEFINE r == [pc |-> "number_version", doc |-> d, kind |-> k, then |-> then]
      <2>1. Goto(p, r) /\ Applied(r, doc')
          BY <1>3 DEF RequestVersion, Applied, Admits
      <2> HIDE DEF r
      <2> QED  BY <2>1, AloneApplied
  <1>4. ASSUME NEW p \in Proc, NEW a \in Actor, NEW d \in Doc, CreatePhaseResultIntent(p, a, d)
        PROVE  \A q \in Proc : Applied(req'[q], doc')
      <2> DEFINE r == [pc |-> "number_version", doc |-> d, kind |-> "phase_result", then |-> None]
      <2>1. Goto(p, r) /\ Applied(r, doc')
          BY <1>4 DEF CreatePhaseResultIntent, Applied
      <2> HIDE DEF r
      <2> QED  BY <2>1, AloneApplied
  <1>5. ASSUME NEW p \in Proc, NEW a \in Actor, NEW d \in Doc, DocumentCall(p, a, d)
        PROVE  \A q \in Proc : Applied(req'[q], doc')
      BY <1>1, <1>2, <1>3, <1>4, <1>5
      DEF DocumentCall, CreateVersionIntent, UploadVersion, BeginUploadBytes, BeginConfirm,
          BeginConfirmResult, UpdateStatus, OverrideStatus, BeginStatus
  <1>6. ASSUME NEW p \in Proc, NumberVersion(p)
        PROVE  \A q \in Proc : Applied(req'[q], doc')
      <2>1. PICK m : Goto(p, [pc |-> "insert_version", doc |-> req[p].doc, kind |-> req[p].kind,
                              no |-> m, then |-> req[p].then])
          BY <1>6 DEF NumberVersion
      <2> DEFINE r == [pc |-> "insert_version", doc |-> req[p].doc, kind |-> req[p].kind,
                       no |-> m, then |-> req[p].then]
      <2>2. Goto(p, r) /\ Applied(r, doc')
          BY <1>6, <2>1 DEF NumberVersion, Applied, At
      <2> HIDE DEF r
      <2> QED  BY <2>2, AloneApplied
  <1>7. ASSUME NEW p \in Proc, Resume(p)
        PROVE  \A q \in Proc : Applied(req'[q], doc')
      BY <1>1, <1>6, <1>7
      DEF Resume, InsertFirstVersion, InsertVersion, ReceiveBytes, StoreBytes, ValidateVersion,
          CommitVersion, CommitResult, CommitStatus, Abandon, Idle
  <1> QED  BY <1>5, <1>7 DEF Next, vars, Lapse, PutObject

\* The status a commit writes to a document that has an official version.
LEMMA GovernedMove ==
    ASSUME GovernmentInv, NEW p \in Proc, CommitVersion(p) \/ CommitStatus(p),
           NEW v \in Version, ver[v] # None, ver[v].kind = "official", ver[v].doc = req[p].doc
    PROVE  req[p].to \in {"approved", "submitted_to_government"}
  <1> USE DEF GovernmentInv, SerialInv
  <1>1. req[p].pc \in {"commit_version", "commit_status"}
      BY DEF CommitVersion, CommitStatus, At
  <1>2. req[p].row = doc[req[p].doc]
      BY <1>1 DEF Fresh
  <1>3. req[p].row.status \in {"approved", "submitted_to_government"}
      BY <1>2 DEF Governed
  <1>4. MovesBy(req[p])
      BY DEF MovesInv
  <1>5. CASE req[p].pc = "commit_version"
      BY <1>3, <1>4, <1>5 DEF MovesBy
  <1>6. CASE req[p].pc = "commit_status"
      BY <1>3, <1>4, <1>6 DEF MovesBy, StaffMoves, Status
  <1> QED  BY <1>1, <1>5, <1>6

LEMMA GovernedStep ==
    ASSUME GovernmentInv, [Next]_vars
    PROVE  Governed(doc', ver')
  <1> USE RequestAt DEF GovernmentInv, SerialInv, Inv
  <1>1. ASSUME UNCHANGED <<doc, ver>> PROVE Governed(doc', ver')
      BY <1>1
  <1>2. ASSUME NEW p \in Proc, NEW v \in Version, InsertFirstVersion(p, v) \/ InsertVersion(p, v)
        PROVE  Governed(doc', ver')
      <2>1. PICK w \in VerRow :
               /\ ver' = [ver EXCEPT ![v] = w] /\ doc' = doc
               /\ w.kind = "official" => doc[w.doc].status = "submitted_to_government"
          <3>1. CASE InsertFirstVersion(p, v)
              <4> DEFINE w == Intent(req[p].doc, req[p].kind, 1)
              <4>1. w \in VerRow /\ w.kind # "official"
                  BY <3>1 DEF InsertFirstVersion, Intent, VerRow, Applied, At
              <4>2. ver' = [ver EXCEPT ![v] = w] /\ doc' = doc
                  BY <3>1 DEF InsertFirstVersion
              <4> QED  BY <4>1, <4>2
          <3>2. CASE InsertVersion(p, v)
              <4> DEFINE w == Intent(req[p].doc, req[p].kind, req[p].no)
              <4>1. w \in VerRow /\ w.kind = req[p].kind /\ w.doc = req[p].doc
                  BY <3>2 DEF InsertVersion, Intent, VerRow
              <4>2. ver' = [ver EXCEPT ![v] = w] /\ doc' = doc
                  BY <3>2 DEF InsertVersion
              <4>3. req[p].kind = "official" => doc[req[p].doc].status = "submitted_to_government"
                  BY <3>2 DEF InsertVersion, Applied, At
              <4> QED  BY <4>1, <4>2, <4>3
          <3> QED  BY <1>2, <3>1, <3>2
      <2> QED  BY <2>1 DEF Governed, TypeOK
  <1>3. ASSUME NEW p \in Proc, CommitVersion(p) \/ CommitResult(p), NEW v \in Version,
               ver'[v] # None, ver'[v].kind = "official"
        PROVE  ver[v] # None /\ ver[v].kind = "official" /\ ver'[v].doc = ver[v].doc
      BY <1>3, ReadySerial, NoneAssumption DEF TypeOK
  <1>4. ASSUME NEW p \in Proc, CommitResult(p)
        PROVE  Governed(doc', ver')
      <2>1. doc' = doc
          BY <1>4 DEF CommitResult
      <2> QED  BY <1>3, <1>4, <2>1 DEF Governed
  <1>5. ASSUME NEW p \in Proc, CommitVersion(p) \/ CommitStatus(p)
        PROVE  Governed(doc', ver')
      <2> SUFFICES ASSUME NEW v \in Version, ver'[v] # None, ver'[v].kind = "official"
                   PROVE  doc'[ver'[v].doc].status \in {"approved", "submitted_to_government"}
          BY DEF Governed
      <2>1. ver[v] # None /\ ver[v].kind = "official" /\ ver'[v].doc = ver[v].doc
          <3>1. CASE CommitVersion(p)
              BY <1>3, <3>1
          <3>2. CASE CommitStatus(p)
              BY <3>2 DEF CommitStatus
          <3> QED  BY <1>5, <3>1, <3>2
      <2>2. PICK d \in Doc, x \in DocRow :
               d = req[p].doc /\ x.status = req[p].to /\ doc' = [doc EXCEPT ![d] = x]
          BY <1>5, CommitSaves
      <2>3. CASE ver[v].doc = d
          <3>1. req[p].to \in {"approved", "submitted_to_government"}
              BY <1>5, <2>1, <2>2, <2>3, GovernedMove
          <3> QED  BY <2>1, <2>2, <2>3, <3>1 DEF TypeOK
      <2>4. CASE ver[v].doc # d
          BY <2>1, <2>2, <2>4 DEF Governed, TypeOK, VerRow
      <2> QED  BY <2>3, <2>4
  <1>6. ASSUME NEW p \in Proc, NEW a \in Actor, NEW d \in Doc, CreateUploadTarget(p, a, d)
        PROVE  Governed(doc', ver')
      <2>1. \A v \in Version : ver[v] # None => ver[v].doc # d /\ ver[v].doc \in Doc
          BY <1>6 DEF CreateUploadTarget, Numbered, TypeOK, VerRow
      <2> QED  BY <1>6, <2>1 DEF CreateUploadTarget, Governed, TypeOK
  <1>7. ASSUME NEW p \in Proc, ReceiveBytes(p)
        PROVE  UNCHANGED <<doc, ver>>
      BY <1>7 DEF ReceiveBytes, Fresh, At, TypeOK
  <1>8. ASSUME NEW p \in Proc, Resume(p)
        PROVE  Governed(doc', ver')
      BY <1>1, <1>2, <1>4, <1>5, <1>7, <1>8 DEF Resume, NumberVersion, StoreBytes, ValidateVersion, Abandon
  <1>9. ASSUME NEW p \in Proc, NEW a \in Actor, NEW d \in Doc, DocumentCall(p, a, d)
        PROVE  Governed(doc', ver')
      BY <1>1, <1>6, <1>9
      DEF DocumentCall, CreateVersionIntent, UploadVersion, RequestVersion,
          CreatePhaseResultIntent, BeginUploadBytes, BeginConfirm, BeginConfirmResult,
          UpdateStatus, OverrideStatus, BeginStatus
  <1> QED  BY <1>1, <1>8, <1>9 DEF Next, vars, Lapse, PutObject

\* Files on record keep their kind, and only the two transactions add to the record.
LEMMA KindsOnRecordKept ==
    ASSUME SerialInv, [Next]_vars, NEW d \in Doc, NEW i \in DOMAIN hist[d], hist[d][i].ver # None
    PROVE  hist[d][i].ver \in Version /\ ver'[hist[d][i].ver].kind = ver[hist[d][i].ver].kind
  <1>1. hist[d] \in Seq(HistRow)
      BY DEF SerialInv, Inv, TypeOK
  <1>2. hist[d][i] \in HistRow
      BY <1>1, LenProperties, ElementOfSeq
  <1>3. hist[d][i].ver \in Version /\ ver[hist[d][i].ver] # None
      BY <1>2 DEF SerialInv, Referenced, HistRow
  <1>4. CASE Next
      BY <1>3, <1>4, NextKeepsVersions DEF SerialInv, VersionsKept
  <1>5. CASE UNCHANGED vars
      BY <1>3, <1>5 DEF vars
  <1> QED  BY <1>4, <1>5

LEMMA HistoryStands ==
    ASSUME [Next]_vars, ~\E p \in Proc : CommitVersion(p) \/ CommitStatus(p)
    PROVE  hist' = hist
  <1>1. ASSUME NEW p \in Proc, Resume(p), ~CommitVersion(p), ~CommitStatus(p)
        PROVE  hist' = hist
      BY <1>1 DEF Resume, InsertFirstVersion, InsertVersion, NumberVersion, ReceiveBytes, StoreBytes,
                  ValidateVersion, CommitResult, Abandon
  <1>2. ASSUME NEW p \in Proc, NEW a \in Actor, NEW d \in Doc, DocumentCall(p, a, d)
        PROVE  hist' = hist
      BY <1>2 DEF DocumentCall, CreateUploadTarget, CreateVersionIntent, UploadVersion,
                  RequestVersion, CreatePhaseResultIntent, BeginUploadBytes, BeginConfirm,
                  BeginConfirmResult, UpdateStatus, OverrideStatus, BeginStatus
  <1> QED  BY <1>1, <1>2 DEF Next, vars, Lapse, PutObject

LEMMA RecordStep ==
    ASSUME GovernmentInv, [Next]_vars
    PROVE  OfficialFromGovernment'
  <1> USE RequestAt DEF GovernmentInv, SerialInv, Inv
  <1> SUFFICES ASSUME NEW d \in Doc, NEW i \in DOMAIN hist'[d], hist'[d][i].ver # None,
                      ver'[hist'[d][i].ver].kind = "official"
               PROVE  hist'[d][i].from = "submitted_to_government"
      BY DEF OfficialFromGovernment
  <1>1. ASSUME i \in DOMAIN hist[d], hist'[d][i] = hist[d][i]
        PROVE  hist'[d][i].from = "submitted_to_government"
      <2>1. ver[hist[d][i].ver].kind = "official"
          BY <1>1, KindsOnRecordKept
      <2> QED  BY <1>1, <2>1 DEF OfficialFromGovernment
  <1>2. CASE ~\E p \in Proc : CommitVersion(p) \/ CommitStatus(p)
      BY <1>1, <1>2, HistoryStands
  <1>3. ASSUME NEW p \in Proc, CommitVersion(p) \/ CommitStatus(p)
        PROVE  hist'[d][i].from = "submitted_to_government"
      <2>1. PICK c \in Doc, e \in HistRow :
               /\ c = req[p].doc /\ e.from = req[p].row.status
               /\ e.ver = IF CommitVersion(p) THEN req[p].ver ELSE None
               /\ hist' = [hist EXCEPT ![c] = Append(@, e)]
          BY <1>3, CommitSaves
      <2>2. hist[d] \in Seq(HistRow) /\ Len(hist[d]) \in Nat
          BY LenProperties DEF TypeOK
      <2>3. CASE d # c
          <3>1. hist'[d] = hist[d]
              BY <2>1, <2>3 DEF TypeOK
          <3> QED  BY <1>1, <3>1
      <2>4. CASE d = c
          <3>1. hist'[d] = Append(hist[d], e)
              BY <2>1, <2>4 DEF TypeOK
          <3>2. i \in 1 .. Len(hist[d]) + 1
              BY <2>2, <3>1, AppendProperties, LenProperties
          <3>3. CASE i \in 1 .. Len(hist[d])
              <4>1. hist'[d][i] = hist[d][i] /\ i \in DOMAIN hist[d]
                  BY <2>2, <3>1, <3>3, AppendProperties, LenProperties
              <4> QED  BY <1>1, <4>1
          <3>4. CASE i = Len(hist[d]) + 1
              <4>1. hist'[d][i] = e
                  BY <2>2, <3>1, <3>4, AppendProperties
              <4>2. CommitVersion(p) /\ e.ver = req[p].ver
                  BY <2>1, <4>1
              <4>3. /\ req[p].vrow = ver[req[p].ver] /\ req[p].row = doc[d]
                    /\ req[p].vrow.doc = d /\ req[p].ver \in Version
                    /\ req[p].vrow \in VerRow
                  BY <2>1, <2>4, <4>2 DEF CommitVersion, At, Fresh, HeldSound, Held
              <4>4. ver[req[p].ver].kind = "official" /\ ver[req[p].ver] # None
                  BY <4>1, <4>2, <4>3, ReadySerial, NoneAssumption DEF TypeOK
              <4>5. doc[d].status \in {"approved", "submitted_to_government"}
                  BY <4>3, <4>4 DEF Governed
              <4>6. "approved" \in Flow[doc[d].status]
                  BY <4>2, <4>3, <4>4 DEF CommitVersion, At, MovesInv, MovesBy
              <4>7. e.from = doc[d].status
                  BY <2>1, <4>3
              <4> QED  BY <4>1, <4>5, <4>6, <4>7 DEF Flow, Status
          <3> QED  BY <3>2, <3>3, <3>4
      <2> QED  BY <2>3, <2>4
  <1> QED  BY <1>2, <1>3

\* Served one after the other, and with the admin override out of use, an official file
\* is confirmed only while its document is at the government: an upload admitted there
\* may be confirmed much later, and no move in between may bring it in from elsewhere.
THEOREM FromGovernment == OneAtATime /\ OverrideTo = {} => (Spec => []OfficialFromGovernment)
  <1> SUFFICES ASSUME OneAtATime, OverrideTo = {} PROVE Spec => []OfficialFromGovernment
      OBVIOUS
  <1>1. Init => GovernmentInv
      BY SerialStart, MovesStart
      DEF Init, GovernmentInv, Governed, Applied, OfficialFromGovernment, Idle
  <1>2. GovernmentInv /\ [Next]_vars => GovernmentInv'
      BY SerialStep, MovesStep, GovernedStep, AppliedStep, RecordStep DEF GovernmentInv
  <1>3. GovernmentInv => OfficialFromGovernment
      BY DEF GovernmentInv
  <1> QED  BY <1>1, <1>2, <1>3, PTL DEF Spec

-----------------------------------------------------------------------------
(* The files a document shows *)

\* The file of these kinds that the history of a document says was confirmed last.
Shown(d, kinds) == {hist[d][i].ver : i \in BroughtLast(d, kinds)}

\* The columns show it, and a document that does not exist has no history.
LastFiles ==
    \A d \in Doc :
        /\ doc[d] = None => hist[d] = <<>>
        /\ doc[d] # None => /\ {doc[d].approved} \ {None} = Shown(d, {"official"})
                            /\ {doc[d].current} \ {None} = Shown(d, Kind \ {"official"})

FilesInv == SerialInv /\ LastFiles

LEMMA ShownStays ==
    ASSUME SerialInv, [Next]_vars, NEW d \in Doc, NEW kinds, hist'[d] = hist[d]
    PROVE  Shown(d, kinds)' = Shown(d, kinds)
  <1>1. BroughtLast(d, kinds)' = BroughtLast(d, kinds)
      BY KindsOnRecordKept DEF BroughtLast
  <1> QED  BY <1>1 DEF Shown

\* A history row of another kind, or of no file, hides nothing; one of these kinds
\* is what is shown.
LEMMA ShownAfter ==
    ASSUME SerialInv, [Next]_vars, NEW d \in Doc, NEW kinds, NEW e \in HistRow,
           hist'[d] = Append(hist[d], e)
    PROVE  Shown(d, kinds)' = IF e.ver # None /\ ver'[e.ver].kind \in kinds THEN {e.ver}
                              ELSE Shown(d, kinds)
  <1> DEFINE h == hist[d]
             n == Len(hist[d])
  <1>1. h \in Seq(HistRow) /\ n \in Nat /\ DOMAIN h = 1 .. n
      BY LenProperties DEF SerialInv, Inv, TypeOK
  <1>2. /\ DOMAIN hist'[d] = 1 .. n + 1
        /\ hist'[d][n + 1] = e
        /\ \A i \in 1 .. n : hist'[d][i] = h[i]
      BY <1>1, AppendProperties, LenProperties
  <1>3. \A i \in 1 .. n : h[i].ver # None => ver'[h[i].ver].kind = ver[h[i].ver].kind
      BY <1>1, KindsOnRecordKept
  <1>4. CASE e.ver # None /\ ver'[e.ver].kind \in kinds
      <2>1. BroughtLast(d, kinds)' = {n + 1}
          <3>1. n + 1 \in BroughtLast(d, kinds)'
              BY <1>1, <1>2, <1>4 DEF BroughtLast
          <3>2. ASSUME NEW i \in 1 .. n PROVE i \notin BroughtLast(d, kinds)'
              BY <1>1, <1>2, <1>4, <3>2 DEF BroughtLast
          <3>3. BroughtLast(d, kinds)' \subseteq 1 .. n + 1
              BY <1>2 DEF BroughtLast
          <3> QED  BY <1>1, <3>1, <3>2, <3>3
      <2> QED  BY <1>2, <1>4, <2>1 DEF Shown
  <1>5. CASE ~(e.ver # None /\ ver'[e.ver].kind \in kinds)
      <2>1. BroughtLast(d, kinds)' = BroughtLast(d, kinds)
          <3>1. n + 1 \notin BroughtLast(d, kinds)'
              BY <1>2, <1>5 DEF BroughtLast
          <3>2. ASSUME NEW i \in 1 .. n
                PROVE  i \in BroughtLast(d, kinds)' <=> i \in BroughtLast(d, kinds)
              <4>1. i \in BroughtLast(d, kinds) => i \in BroughtLast(d, kinds)'
                  BY <1>1, <1>2, <1>3, <1>5, <3>2 DEF BroughtLast
              <4>2. i \in BroughtLast(d, kinds)' => i \in BroughtLast(d, kinds)
                  BY <1>1, <1>2, <1>3, <1>5, <3>2 DEF BroughtLast
              <4> QED  BY <4>1, <4>2
          <3>3. /\ BroughtLast(d, kinds)' \subseteq 1 .. n + 1
                /\ BroughtLast(d, kinds) \subseteq 1 .. n
              BY <1>1, <1>2 DEF BroughtLast
          <3>4. PICK m \in Nat : m = n
              BY <1>1
          <3>5. \A i \in 1 .. m + 1 : i \in 1 .. m \/ i = m + 1
              OBVIOUS
          <3>6. \A i \in 1 .. n : i \in BroughtLast(d, kinds)' <=> i \in BroughtLast(d, kinds)
              BY <3>2
          <3>7. ASSUME NEW i, i \in BroughtLast(d, kinds)' PROVE i \in BroughtLast(d, kinds)
              <4>1. i \in 1 .. n + 1 /\ i # n + 1
                  BY <3>1, <3>3, <3>7
              <4> QED  BY <3>4, <3>5, <3>6, <3>7, <4>1
          <3>8. ASSUME NEW i, i \in BroughtLast(d, kinds) PROVE i \in BroughtLast(d, kinds)'
              BY <3>3, <3>6, <3>8
          <3> QED  BY <3>7, <3>8
      <2>2. \A i \in BroughtLast(d, kinds) : hist'[d][i] = hist[d][i]
          BY <1>1, <1>2 DEF BroughtLast
      <2> QED  BY <1>5, <2>1, <2>2 DEF Shown
  <1> QED  BY <1>4, <1>5

LEMMA LastFilesCommit ==
    ASSUME FilesInv, [Next]_vars, NEW p \in Proc, CommitVersion(p) \/ CommitStatus(p)
    PROVE  LastFiles'
  <1> USE RequestAt DEF FilesInv, SerialInv, Inv
  <1>1. PICK c \in Doc, x \in DocRow, e \in HistRow :
           /\ c = req[p].doc
           /\ x = IF CommitVersion(p) THEN Mirrored(req[p].row, req[p].vrow, req[p].ver, req[p].to)
                                      ELSE [req[p].row EXCEPT !.status = req[p].to]
           /\ e.ver = IF CommitVersion(p) THEN req[p].ver ELSE None
           /\ doc' = [doc EXCEPT ![c] = x] /\ hist' = [hist EXCEPT ![c] = Append(@, e)]
      BY CommitSaves
  <1>2. req[p].row = doc[c] /\ doc[c] # None /\ doc[c] \in DocRow
      <2>1. Fresh(req[p], doc, ver) /\ req[p].pc \in {"commit_version", "commit_status"}
          BY DEF CommitVersion, CommitStatus, At
      <2> QED  BY <1>1, <2>1 DEF Fresh, TypeOK
  <1> SUFFICES ASSUME NEW d \in Doc
               PROVE  /\ doc'[d] = None => hist'[d] = <<>>
                      /\ doc'[d] # None =>
                            /\ {doc'[d].approved} \ {None} = Shown(d, {"official"})'
                            /\ {doc'[d].current} \ {None} = Shown(d, Kind \ {"official"})'
      BY DEF LastFiles
  <1>3. CASE d # c
      <2>1. doc'[d] = doc[d] /\ hist'[d] = hist[d]
          BY <1>1, <1>3 DEF TypeOK
      <2>2. /\ Shown(d, {"official"})' = Shown(d, {"official"})
            /\ Shown(d, Kind \ {"official"})' = Shown(d, Kind \ {"official"})
          BY <2>1, ShownStays
      <2> QED  BY <2>1, <2>2 DEF LastFiles
  <1>4. CASE d = c
      <2>1. doc'[d] = x /\ hist'[d] = Append(hist[d], e) /\ x # None
          BY <1>1, <1>4, NoneAssumption DEF TypeOK
      <2>2. /\ {doc[d].approved} \ {None} = Shown(d, {"official"})
            /\ {doc[d].current} \ {None} = Shown(d, Kind \ {"official"})
          BY <1>2, <1>4 DEF LastFiles
      <2>3. \A kinds : Shown(d, kinds)' = IF e.ver # None /\ ver'[e.ver].kind \in kinds THEN {e.ver}
                                          ELSE Shown(d, kinds)
          BY <2>1, ShownAfter
      <2>4. CASE ~CommitVersion(p)
          <3>1. x.approved = doc[d].approved /\ x.current = doc[d].current
              BY <1>1, <1>2, <1>4, <2>4 DEF DocRow
          <3>2. e.ver = None
              BY <1>1, <2>4
          <3> QED  BY <2>1, <2>2, <2>3, <3>1, <3>2
      <2>5. CASE CommitVersion(p)
          <3>1. /\ e.ver = req[p].ver /\ e.ver \in Version
                /\ req[p].vrow = ver[req[p].ver] /\ req[p].vrow \in VerRow
              BY <1>1, <2>5 DEF CommitVersion, Fresh, At
          <3>2. ver'[e.ver].kind = req[p].vrow.kind
              BY <2>5, <3>1, ReadySerial DEF TypeOK
          <3>3. e.ver # None
              BY <3>1, NoneAssumption
          <3>4. CASE req[p].vrow.kind = "official"
              <4>1. x.approved = e.ver /\ x.current = doc[d].current
                  BY <1>1, <1>2, <1>4, <2>5, <3>1, <3>4 DEF Mirrored, DocRow
              <4>2. Shown(d, {"official"})' = {e.ver}
                  BY <2>3, <3>2, <3>3, <3>4
              <4>3. Shown(d, Kind \ {"official"})' = Shown(d, Kind \ {"official"})
                  BY <2>3, <3>2, <3>4
              <4> QED  BY <2>1, <2>2, <3>3, <4>1, <4>2, <4>3
          <3>5. CASE req[p].vrow.kind # "official"
              <4>1. x.approved = doc[d].approved /\ x.current = e.ver
                  BY <1>1, <1>2, <1>4, <2>5, <3>1, <3>5 DEF Mirrored, DocRow
              <4>2. Shown(d, {"official"})' = Shown(d, {"official"})
                  BY <2>3, <3>2, <3>5
              <4>3. req[p].vrow.kind \in Kind \ {"official"}
                  BY <3>1, <3>5 DEF VerRow
              <4>4. Shown(d, Kind \ {"official"})' = {e.ver}
                  BY <2>3, <3>2, <3>3, <4>3
              <4> QED  BY <2>1, <2>2, <3>3, <4>1, <4>2, <4>4
          <3> QED  BY <3>4, <3>5
      <2> QED  BY <2>4, <2>5
  <1> QED  BY <1>3, <1>4

LEMMA LastFilesStep ==
    ASSUME FilesInv, [Next]_vars
    PROVE  LastFiles'
  <1>1. CASE \E p \in Proc : CommitVersion(p) \/ CommitStatus(p)
      BY <1>1, LastFilesCommit
  <1>2. CASE ~\E p \in Proc : CommitVersion(p) \/ CommitStatus(p)
      <2> USE DEF FilesInv, SerialInv, Inv
      <2> SUFFICES ASSUME NEW d \in Doc
                   PROVE  /\ doc'[d] = None => hist'[d] = <<>>
                          /\ doc'[d] # None =>
                                /\ {doc'[d].approved} \ {None} = Shown(d, {"official"})'
                                /\ {doc'[d].current} \ {None} = Shown(d, Kind \ {"official"})'
          BY DEF LastFiles
      <2>1. hist' = hist
          BY <1>2, HistoryStands
      <2>2. /\ Shown(d, {"official"})' = Shown(d, {"official"})
            /\ Shown(d, Kind \ {"official"})' = Shown(d, Kind \ {"official"})
          BY <2>1, ShownStays
      <2>3. CASE doc'[d] = doc[d]
          BY <2>1, <2>2, <2>3 DEF LastFiles
      <2>4. CASE /\ doc[d] = None
                 /\ doc'[d] = [status |-> "pending", current |-> None, approved |-> None]
          <3>1. hist[d] = <<>>
              BY <2>4 DEF LastFiles
          <3>2. Shown(d, {"official"}) = {} /\ Shown(d, Kind \ {"official"}) = {}
              BY <3>1 DEF Shown, BroughtLast
          <3>3. doc'[d].approved = None /\ doc'[d].current = None
              BY <2>4
          <3> QED  BY <2>1, <2>2, <3>1, <3>2, <3>3
      <2> QED  BY <1>2, <2>3, <2>4, RowsMade
  <1> QED  BY <1>1, <1>2

OwnersAreCustomers == \A d \in Doc : RoleOf[Owner[d]] = "customer"

\* The file shown as approved is a confirmed official version of the document.
LEMMA ApprovedLinkWorks ==
    ASSUME FilesInv, OwnersAreCustomers, NEW d \in Doc, doc[d] # None,
           doc[d].status = "approved", doc[d].approved # None
    PROVE  ApprovedTarget(Owner[d], d) \in ListedVersions(Owner[d], d) \cap DownloadTargets(Owner[d], d)
  <1> USE DEF FilesInv, SerialInv, Inv
  <1>1. doc[d].approved \in Shown(d, {"official"}) /\ doc[d].approved \in Version
      BY NoneAssumption DEF LastFiles, TypeOK, DocRow
  <1>2. PICK i \in DOMAIN hist[d] : doc[d].approved = hist[d][i].ver
      BY <1>1 DEF Shown, BroughtLast
  <1>3. LET v == doc[d].approved IN ver[v] # None /\ ver[v].doc = d /\ ver[v].status = "ready"
      BY <1>2 DEF Referenced
  <1>4. ver[doc[d].approved].kind = "official"
      BY DEF PointersSound, SoundRow, OfficialFile
  <1>5. CanRead(Owner[d], d)
      BY DEF OwnersAreCustomers, CanRead
  <1> QED
      BY <1>1, <1>3, <1>4, <1>5
      DEF ApprovedTarget, ListedVersions, DownloadTargets, CustomerMayDownload, VersionsOf

\* Served one after the other, a document shows the files its history says were
\* confirmed last, and the approved link of its customer gives a file the customer sees.
THEOREM ShownOnRecord == OneAtATime /\ OwnersAreCustomers => (Spec => []FilesOnRecord)
  <1> SUFFICES ASSUME OneAtATime, OwnersAreCustomers PROVE Spec => []FilesOnRecord
      OBVIOUS
  <1>1. Init => FilesInv
      BY SerialStart DEF Init, FilesInv, LastFiles
  <1>2. FilesInv /\ [Next]_vars => FilesInv'
      BY SerialStep, LastFilesStep DEF FilesInv
  <1>3. FilesInv => FilesOnRecord
      BY ApprovedLinkWorks DEF FilesInv, LastFiles, FilesOnRecord, Shown
  <1> QED  BY <1>1, <1>2, <1>3, PTL DEF Spec
=============================================================================
