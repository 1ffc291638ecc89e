------------------------- MODULE DocumentsProperties -------------------------
(***************************************************************************)
(* What Documents is checked for.  The first group holds however requests  *)
(* overlap; the second holds when calls are served one after the other;    *)
(* the third states what a comment says and the code does not do.          *)
(***************************************************************************)
EXTENDS Documents

\* The shape of every row and of every request in flight.
TypeOK ==
    /\ doc \in [Doc -> DocRow \cup {None}]
    /\ ver \in [Version -> VerRow \cup {None}]
    /\ hist \in [Doc -> Seq(HistRow)]
    /\ stored \subseteq Version
    /\ lapsed \subseteq Version
    /\ req \in [Proc -> Request]

-----------------------------------------------------------------------------
(* However requests overlap *)

\* A confirmed version stays confirmed when clients upload straight to S3.
Confirmed(v) == ver[v].status = "ready" \/ LocalUploads

Submission(d, v) == v \in VersionsOf(d) /\ ver[v].kind # "official" /\ Confirmed(v)

OfficialFile(d, v) == v \in VersionsOf(d) /\ ver[v].kind = "official" /\ Confirmed(v)

SoundRow(d, row) ==
    /\ row.current # None => Submission(d, row.current)
    /\ row.approved # None => OfficialFile(d, row.approved)

\* The file a document shows as the customer's is a confirmed version of that
\* very document and never an official one, and the file it offers as approved
\* is a confirmed official version of it: document rows are saved from stale
\* copies, and no interleaving of uploads, confirmations and reviews may cross
\* the two pointers, dangle one, or aim one at a file nobody validated.
PointersSound == \A d \in Doc : doc[d] # None => SoundRow(d, doc[d])

\* Why it holds: what a request carries is sound too.  A row read before an
\* await names the version it will write, and a version a request means to save
\* still has the document and the kind it was read with.
Keeps(v, w) == ver[v] # None /\ ver[v].doc = w.doc /\ ver[v].kind = w.kind

Held(r) ==
    /\ r.pc \in {"find_version", "commit_version", "commit_status"} => SoundRow(r.doc, r.row)
    /\ r.pc \in {"receive_bytes", "commit_version", "commit_result"} => Keeps(r.ver, r.vrow)
    /\ r.pc = "commit_version" => r.vrow.doc = r.doc
    /\ r.pc = "receive_bytes" => LocalUploads

HeldSound == \A p \in Proc : Held(req[p])

\* No official file becomes available off the record: every confirmed official
\* version has a history row of its own that moved the document to approved.
OfficialOnRecord ==
    \A d \in Doc : \A v \in VersionsOf(d) :
        ver[v].kind = "official" /\ ver[v].status = "ready"
            => \E i \in DOMAIN hist[d] : hist[d][i].to = "approved" /\ hist[d][i].ver = v

\* The pair (status, history) seen as an audit trail.
StatusOf == [d \in Doc |-> IF doc[d] = None THEN "pending" ELSE doc[d].status]
Entries(rows) == [i \in DOMAIN rows |-> [from |-> rows[i].from, to |-> rows[i].to]]
Logged == [d \in Doc |-> Entries(hist[d])]

Trail == INSTANCE AuditTrail
    WITH Subject <- Doc, Initial <- "pending", status <- StatusOf, log <- Logged

\* A document's status moves only together with a history row naming the new
\* status, and history is only appended to, whoever overwrites the row.
AuditedStatus == Trail!Spec

-----------------------------------------------------------------------------
(* Calls served one after the other *)

\* Every history row starts where the document really was.
ChainedHistory == Trail!ChainedSpec

\* No actor moves a document along an edge the base state machine lacks.
MovesFollowFlow ==
    [][\A d \in Doc : doc[d] # None /\ doc'[d].status # doc[d].status
          => doc'[d].status \in Flow[doc[d].status]]_vars

\* A government file counts only when the document comes back from the
\* government: official versions are confirmed from submitted_to_government.
OfficialFromGovernment ==
    \A d \in Doc : \A i \in DOMAIN hist[d] :
        hist[d][i].ver # None /\ ver[hist[d][i].ver].kind = "official"
            => hist[d][i].from = "submitted_to_government"

\* The history row that last brought a file of one of these kinds.
BroughtLast(d, kinds) ==
    {i \in DOMAIN hist[d] :
        /\ hist[d][i].ver # None /\ ver[hist[d][i].ver].kind \in kinds
        /\ \A j \in DOMAIN hist[d] :
              j > i => hist[d][j].ver = None \/ ver[hist[d][j].ver].kind \notin kinds}

\* The files a document shows are the ones its history says were confirmed last,
\* in whatever order their uploads were begun: no later save of the row loses or
\* brings back a file; and while the document is approved, the file its customer
\* gets by the approved link is one the list of versions shows and the version's
\* own link gives as well.
FilesOnRecord ==
    \A d \in {e \in Doc : doc[e] # None} :
        /\ {doc[d].approved} \ {None} = {hist[d][i].ver : i \in BroughtLast(d, {"official"})}
        /\ {doc[d].current} \ {None} = {hist[d][i].ver : i \in BroughtLast(d, Kind \ {"official"})}
        /\ doc[d].status = "approved" /\ doc[d].approved # None =>
              ApprovedTarget(Owner[d], d) \in ListedVersions(Owner[d], d) \cap DownloadTargets(Owner[d], d)

\* The versions of a document carry distinct numbers.
VersionNosDistinct ==
    \A d \in Doc : \A v, w \in VersionsOf(d) : v # w => ver[v].no # ver[w].no

-----------------------------------------------------------------------------
(* What a comment says and the code does not do *)

\* A status change with the fromStatus guard lands only on that status.
GuardedMoveHolds ==
    [][\A p \in Proc : At(p, "commit_status") /\ req[p].expected # None /\ hist' # hist /\ req'[p] = Idle
          => doc[req[p].doc].status = req[p].expected]_vars
=============================================================================
