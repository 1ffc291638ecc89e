-------------------------- MODULE PhasesProperties --------------------------
(***************************************************************************)
(* What Phases is checked for: first what holds however calls overlap,     *)
(* then what holds as long as they are served one after the other (calm).  *)
(***************************************************************************)
EXTENDS Phases

\* The shape of the rows and of the calls in flight.
PhaseTypeOK ==
    /\ phase \in [Phase -> PhaseRow \cup {None}]
    /\ phist \in [Phase -> Seq(PhaseHistRow)]
    /\ result \in [Version -> {"none", "intent", "ready"}]
    /\ call \in [Proc -> Call]

\* A status is on record in a list of history rows.
OnRecord(rows, s) == s = "not_started" \/ \E i \in DOMAIN rows : rows[i].to = s

-----------------------------------------------------------------------------
(* What has happened so far *)

VARIABLES
    calm,      \* no two calls have overlapped
    validated, \* the result versions that have been ready
    received   \* bytes were uploaded to the service itself, not to S3

calmVars == <<vars, calm, validated, received>>

Quiet == \E p \in Proc : \A r \in Proc \ {p} : call[r] = Idle

CalmInit ==
    /\ Init
    /\ calm = TRUE
    /\ validated = {}
    /\ received = FALSE

CalmNext ==
    /\ Next
    /\ calm' = (calm /\ Quiet /\ Quiet')
    /\ validated' = validated \cup {v \in Version : result'[v] = "ready"}
    /\ received' = (received \/ \E p \in Proc : call'[p].pc = "receive_bytes")

CalmSpec == CalmInit /\ [][CalmNext]_calmVars

-----------------------------------------------------------------------------
(* However calls overlap *)

\* The versions a phase may show: validated once, and still so unless an upload of
\* bytes has overlapped a confirmation.
Good == {v \in validated : calm \/ ~received => result[v] = "ready"}

\* A phase row may say what it says: the history rows, the good versions.
Vouched(rows, good, row) ==
    /\ OnRecord(rows, row.status)
    /\ row.result # None => row.result \in good /\ OnRecord(rows, "completed")

\* Whatever status a phase shows was once recorded for that phase, and a result file
\* it shows was validated once and completed it: stale saves can bring back an earlier
\* state of a phase, never one it was not in. The version shown is ready to this day
\* with S3 uploads, and with local ones as long as calls are served one by one; a
\* local upload begun before the confirmation may put it back to intent.
PhaseVouched == \A f \in Phase : phase[f] # None => Vouched(phist[f], Good, phase[f])

\* Why: the rows calls hold are vouched for as well ...
CallVouched(hist, good, c) ==
    /\ c.pc \in {"save_phase", "validate_result", "link_result"} =>
          Vouched(hist[c.phase], good, c.row)
    /\ c.pc = "link_result" => c.ver \in good
    /\ c.pc = "reorder" =>
          \A f \in Phase : c.rows[f] # None => Vouched(hist[f], good, c.rows[f])

CallsVouched == \A p \in Proc : CallVouched(phist, Good, call[p])

\* ... and bytes are received for a version that, served one by one, still awaits them.
Receiving ==
    \A p \in Proc : call[p].pc = "receive_bytes" =>
        received /\ (calm => result[call[p].ver] = "intent")

-----------------------------------------------------------------------------
(* As long as calls are served one after the other *)

StatusOf == [f \in Phase |-> IF phase[f] = None THEN "not_started" ELSE phase[f].status]

Trail == INSTANCE AuditTrail
    WITH Subject <- Phase, Status <- PhaseStatus, Initial <- "not_started",
         status <- StatusOf, log <- phist

\* Served one by one, a phase moves only together with a history row, from the
\* status it had, and history is only appended to.
PhasesAudited == [][calm' => Trail!ChainedNext \/ UNCHANGED Trail!vars]_calmVars

\* A completed phase is open again, and the history row says so.
Reopened(f) ==
    /\ Len(phist'[f]) = Len(phist[f]) + 1
    /\ phist'[f][Len(phist'[f])].from = "completed"

\* Served one by one, phases move along the flow; a linked result file is replaced,
\* never lost: not by a rename, a reorder, a rejection or a reopening; and the progress
\* a customer sees falls only by a reopening on the record, its total never.
PhaseMoves ==
    [][calm' =>
          /\ \A f \in Existing :
                /\ phase'[f].status \in {phase[f].status} \cup PhaseFlow[phase[f].status]
                /\ phase[f].result # None => phase'[f].result # None
          /\ Progress.completed > Progress'.completed => \E f \in Phase : Reopened(f)
          /\ Progress.total <= Progress'.total]_calmVars
=============================================================================
