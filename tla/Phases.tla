------------------------------- MODULE Phases -------------------------------
(***************************************************************************)
(* The approval phases of one document                                     *)
(* (modules/documents/phase.service.ts, phase-status.ts).                  *)
(*                                                                         *)
(* A call of the customer's manager or an admin (every caller is equal once*)
(* past assertCanManagePhases) reads phase rows and later saves the rows it*)
(* read, whole: a rename or a reorder saves the status it saw as well.     *)
(***************************************************************************)
EXTENDS Naturals, Sequences, FiniteSets

CONSTANTS
    Phase,     \* phase ids
    Version,   \* ids of the phase_result versions of the document
    Proc,      \* calls that can be in flight at once
    None,      \* a null column, a row that does not exist
    MaxHistory \* bound: history rows of the document's phases

VARIABLES
    phase,  \* document_phases: id -> row or None
    phist,  \* document_phase_history: phase -> rows in commit order
    result, \* the phase_result versions: none, intent or ready
    call    \* the calls in flight

vars == <<phase, phist, result, call>>

-----------------------------------------------------------------------------

PhaseStatus == {"not_started", "in_progress", "completed", "rejected"}

\* PHASE_STATUS_FLOW
PhaseFlow == [s \in PhaseStatus |->
    CASE s = "not_started" -> {"in_progress", "completed", "rejected"}
      [] s = "in_progress" -> {"completed", "rejected"}
      [] s = "rejected"    -> {"in_progress", "completed"}
      [] s = "completed"   -> {"in_progress"}]

\* canTransitionPhase
CanTransitionPhase_Any(from, to) == TRUE  \* mutant
CanTransitionPhase(from, to) == from = to \/ to \in PhaseFlow[from]

\* Names, dates and notes are left out; completedAt follows the status.
PhaseRow == [status: PhaseStatus, position: Nat, result: Version \cup {None}]

PhaseHistRow == [from: PhaseStatus, to: PhaseStatus]

ASSUME PhaseAssumption ==
    /\ None \notin Version \cup PhaseRow
    /\ MaxHistory \in Nat
    /\ IsFiniteSet(Phase)

Idle == [pc |-> "idle"]

Call ==
    {Idle}
    \cup [pc: {"append"}, position: Nat]
    \cup [pc: {"reorder"}, rows: [Phase -> PhaseRow \cup {None}]]
    \cup [pc: {"save_phase"}, phase: Phase, row: PhaseRow, to: PhaseStatus]
    \cup [pc: {"validate_result", "link_result"}, phase: Phase, row: PhaseRow, ver: Version]
    \cup [pc: {"receive_bytes"}, ver: Version]

At(p, label) == call[p].pc = label

Goto(p, c) == call' = [call EXCEPT ![p] = c]

Existing == {f \in Phase : phase[f] # None}

Init ==
    /\ phase = [f \in Phase |-> None]
    /\ phist = [f \in Phase |-> <<>>]
    /\ result = [v \in Version |-> "none"]
    /\ call = [p \in Proc |-> Idle]

-----------------------------------------------------------------------------
(* createOrReorder (a request with both parts is the two one after the other) *)

\* The position after the last one ...
BeginAppend(p) ==
    /\ At(p, "idle")
    /\ \E n \in {0} \cup {phase[f].position + 1 : f \in Existing} :
          /\ \A f \in Existing : phase[f].position < n
          /\ Goto(p, [pc |-> "append", position |-> n])
    /\ UNCHANGED <<phase, phist, result>>

\* ... is given to the new phase.
AppendPhase_Logged(p, f) ==  \* mutant
    /\ At(p, "append")
    /\ phase[f] = None
    /\ phase' = [phase EXCEPT ![f] = [status |-> "not_started", position |-> call[p].position,
                                      result |-> None]]
    /\ phist' = [phist EXCEPT ![f] = <<[from |-> None, to |-> "not_started"]>>]
    /\ Goto(p, Idle)
    /\ UNCHANGED result
AppendPhase(p, f) ==
    /\ At(p, "append")
    /\ phase[f] = None
    /\ phase' = [phase EXCEPT ![f] = [status |-> "not_started", position |-> call[p].position,
                                      result |-> None]]
    /\ Goto(p, Idle)
    /\ UNCHANGED <<phist, result>>

\* The rows of the document are read ...
BeginReorder(p) ==
    /\ At(p, "idle")
    /\ Existing # {}
    /\ Goto(p, [pc |-> "reorder", rows |-> phase])
    /\ UNCHANGED <<phase, phist, result>>

\* ... and those the caller lists, perhaps not all, saved at their place.
Moved(row, n) == [row EXCEPT !.position = n]

Reorder(p, places) ==
    /\ At(p, "reorder")
    /\ \A f \in DOMAIN places : call[p].rows[f] # None
    /\ phase' = [f \in Phase |-> IF f \in DOMAIN places THEN Moved(call[p].rows[f], places[f])
                                                        ELSE phase[f]]
    /\ Goto(p, Idle)
    /\ UNCHANGED <<phist, result>>

\* The places an order without repetition gives its phases: 0, 1, 2, ...
Orders ==
    UNION {{g \in [S -> 0..(Cardinality(S) - 1)] : \A a, b \in S : g[a] = g[b] => a = b} :
           S \in SUBSET Phase \ {{}}}

-----------------------------------------------------------------------------
(* updatePhase: to is the status asked for, or the one the row has *)

\* MaxHistory bounds the rows there are and those that calls may add.
Room ==
    LET rows == UNION {{<<f, i>> : i \in DOMAIN phist[f]} : f \in Phase}
        due  == {p \in Proc : \/ call[p].pc = "save_phase" /\ call[p].to # call[p].row.status
                              \/ call[p].pc \in {"validate_result", "link_result"}}
    IN  Cardinality(rows) + Cardinality(due) < MaxHistory

BeginUpdate(p, f, to) ==
    /\ At(p, "idle")
    /\ phase[f] # None
    /\ CanTransitionPhase(phase[f].status, to)
    /\ to # phase[f].status => Room
    /\ Goto(p, [pc |-> "save_phase", phase |-> f, row |-> phase[f], to |-> to])
    /\ UNCHANGED <<phase, phist, result>>


Recorded(f, from, to) ==
    phist' = [phist EXCEPT ![f] = Append(@, [from |-> from, to |-> to])]

\* The transaction; a history row only when the status changes.
SavePhase_Unrecorded(p) ==  \* mutant
    /\ At(p, "save_phase")
    /\ LET c == call[p]
       IN  /\ phase' = [phase EXCEPT ![c.phase] = [c.row EXCEPT !.status = c.to]]
           /\ IF c.to \in {"completed", "rejected"} THEN Recorded(c.phase, c.row.status, c.to)
              ELSE UNCHANGED phist
    /\ Goto(p, Idle)
    /\ UNCHANGED result
SavePhase(p) ==
    /\ At(p, "save_phase")
    /\ LET c == call[p]
       IN  /\ phase' = [phase EXCEPT ![c.phase] = [c.row EXCEPT !.status = c.to]]
           /\ IF c.to # c.row.status THEN Recorded(c.phase, c.row.status, c.to)
              ELSE UNCHANGED phist
    /\ Goto(p, Idle)
    /\ UNCHANGED result

-----------------------------------------------------------------------------
(* Result files *)

\* createResultIntent
CreateResultIntent(p, f, v) ==
    /\ At(p, "idle")
    /\ phase[f] # None
    /\ result[v] = "none"
    /\ result' = [result EXCEPT ![v] = "intent"]
    /\ UNCHANGED <<phase, phist, call>>

\* uploadVersionBytes, where the files are kept locally: a version that awaits its
\* bytes is read ...
BeginUploadBytes(p, v) ==
    /\ At(p, "idle")
    /\ result[v] = "intent"
    /\ Goto(p, [pc |-> "receive_bytes", ver |-> v])
    /\ UNCHANGED <<phase, phist, result>>

\* ... and saved once the bytes are stored: its status with it, when the save finds
\* another one in the row, and the size alone when it does not yet.
ReceiveBytes(p) ==
    /\ At(p, "receive_bytes")
    /\ \/ result' = [result EXCEPT ![call[p].ver] = "intent"]
       \/ UNCHANGED result
    /\ Goto(p, Idle)
    /\ UNCHANGED <<phase, phist>>

\* confirmResult reads the phase ...
BeginResult(p, f, v) ==
    /\ At(p, "idle")
    /\ phase[f] # None
    /\ result[v] # "none"
    /\ Room
    /\ Goto(p, [pc |-> "validate_result", phase |-> f, row |-> phase[f], ver |-> v])
    /\ UNCHANGED <<phase, phist, result>>

\* ... has the document service validate the file (again a no-op when ready) and
\* checks the move on the row read before ...
ValidateResult_Unready(p) ==  \* mutant
    /\ At(p, "validate_result")
    /\ CanTransitionPhase(call[p].row.status, "completed")
    /\ Goto(p, [pc |-> "link_result", phase |-> call[p].phase, row |-> call[p].row, ver |-> call[p].ver])
    /\ UNCHANGED <<phase, phist, result>>
ValidateResult(p) ==
    /\ At(p, "validate_result")
    /\ result' = [result EXCEPT ![call[p].ver] = "ready"]
    /\ CanTransitionPhase(call[p].row.status, "completed")
    /\ Goto(p, [pc |-> "link_result", phase |-> call[p].phase, row |-> call[p].row, ver |-> call[p].ver])
    /\ UNCHANGED <<phase, phist>>

\* ... and completes it with the file, history row included.
LinkResult(p) ==
    /\ At(p, "link_result")
    /\ LET c == call[p]
       IN  /\ phase' = [phase EXCEPT ![c.phase] = [c.row EXCEPT !.status = "completed", !.result = c.ver]]
           /\ Recorded(c.phase, c.row.status, "completed")
    /\ Goto(p, Idle)
    /\ UNCHANGED result

\* A failed check or validation, an error, or a process that dies.
Abandon(p) ==
    /\ call[p] # Idle
    /\ Goto(p, Idle)
    /\ UNCHANGED <<phase, phist, result>>

-----------------------------------------------------------------------------

\* computePhaseProgress, shown with the document to its customer and to staff.
Progress ==
    [completed |-> Cardinality({f \in Existing : phase[f].status = "completed"}),
     total     |-> Cardinality(Existing)]

Next ==
    \E p \in Proc :
        \/ BeginAppend(p) \/ BeginReorder(p)
        \/ \E f \in Phase : \/ AppendPhase(p, f)
                            \/ \E to \in PhaseStatus : BeginUpdate(p, f, to)
                            \/ \E v \in Version : CreateResultIntent(p, f, v) \/ BeginResult(p, f, v)
        \/ \E places \in Orders : Reorder(p, places)
        \/ SavePhase(p)
        \/ \E v \in Version : BeginUploadBytes(p, v)
        \/ ReceiveBytes(p)
        \/ ValidateResult(p)
        \/ LinkResult(p)
        \/ Abandon(p)

Spec == Init /\ [][Next]_vars
=============================================================================
