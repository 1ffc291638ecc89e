---------------------------- MODULE PhasesProofs ----------------------------
(***************************************************************************)
(* What Phases does for every set of phases, versions and overlapping      *)
(* calls: rows keep their shape; served one by one, phases follow the      *)
(* flow, on the record; and whatever stale save lands, a phase shows only  *)
(* a status that was recorded for it.                                      *)
(***************************************************************************)
EXTENDS PhasesProperties, FiniteSetTheorems, TLAPS

\* What a call of each label holds.
LEMMA CallAt ==
    ASSUME PhaseTypeOK, NEW p \in Proc
    PROVE  /\ At(p, "append") => call[p].position \in Nat
           /\ At(p, "reorder") => call[p].rows \in [Phase -> PhaseRow \cup {None}]
           /\ At(p, "save_phase") => /\ call[p].phase \in Phase /\ call[p].row \in PhaseRow
                                     /\ call[p].to \in PhaseStatus
           /\ At(p, "validate_result") \/ At(p, "link_result") =>
                 /\ call[p].phase \in Phase /\ call[p].row \in PhaseRow
                 /\ call[p].ver \in Version
           /\ At(p, "receive_bytes") => call[p].ver \in Version
  <1> call[p] \in Call
      BY DEF PhaseTypeOK
  <1> QED  BY DEF Call, At, Idle

LEMMA CallTypes ==
    /\ Idle \in Call
    /\ \A n \in Nat : [pc |-> "append", position |-> n] \in Call
    /\ \A rows \in [Phase -> PhaseRow \cup {None}] : [pc |-> "reorder", rows |-> rows] \in Call
    /\ \A v \in Version : [pc |-> "receive_bytes", ver |-> v] \in Call
    /\ \A f \in Phase, x \in PhaseRow, s \in PhaseStatus :
          [pc |-> "save_phase", phase |-> f, row |-> x, to |-> s] \in Call
    /\ \A f \in Phase, x \in PhaseRow, v \in Version :
          /\ [pc |-> "validate_result", phase |-> f, row |-> x, ver |-> v] \in Call
          /\ [pc |-> "link_result", phase |-> f, row |-> x, ver |-> v] \in Call
  BY DEF Call

LEMMA GotoType ==
    ASSUME PhaseTypeOK, NEW p \in Proc, NEW c \in Call, Goto(p, c)
    PROVE  call' \in [Proc -> Call]
  BY DEF PhaseTypeOK, Goto

\* A call that goes on to c leaves the others as they are.
LEMMA GotoCall ==
    ASSUME PhaseTypeOK, NEW p \in Proc, NEW c, Goto(p, c)
    PROVE  call'[p] = c /\ \A r \in Proc \ {p} : call'[r] = call[r]
  BY DEF PhaseTypeOK, Goto

\* The rows saves write.
LEMMA SavedRows ==
    \A x \in PhaseRow :
        /\ \A n \in Nat : Moved(x, n) \in PhaseRow
        /\ \A s \in PhaseStatus : [x EXCEPT !.status = s] \in PhaseRow
        /\ \A v \in Version : [x EXCEPT !.status = "completed", !.result = v] \in PhaseRow
  BY DEF PhaseRow, PhaseStatus, Moved

LEMMA RecordedType ==
    ASSUME PhaseTypeOK, NEW f \in Phase, NEW s \in PhaseStatus, NEW t \in PhaseStatus,
           Recorded(f, s, t)
    PROVE  phist' \in [Phase -> Seq(PhaseHistRow)]
  <1> [from |-> s, to |-> t] \in PhaseHistRow
      BY DEF PhaseHistRow
  <1> QED  BY DEF PhaseTypeOK, Recorded

\* An order gives the phases it lists natural numbers.
LEMMA OrderType ==
    ASSUME NEW places \in Orders, NEW f \in DOMAIN places
    PROVE  f \in Phase /\ places[f] \in Nat
  <1>1. PICK S \in SUBSET Phase : places \in [S -> 0..(Cardinality(S) - 1)]
      BY DEF Orders
  <1>2. Cardinality(S) \in Nat
      BY <1>1, PhaseAssumption, FS_Subset, FS_CardinalityType
  <1> QED  BY <1>1, <1>2

-----------------------------------------------------------------------------

LEMMA InitType == Init => PhaseTypeOK
  BY CallTypes DEF Init, PhaseTypeOK

LEMMA NextType ==
    ASSUME PhaseTypeOK, [Next]_vars
    PROVE  PhaseTypeOK'
  <1> USE CallTypes, CallAt, GotoType
  <1>1. ASSUME NEW p \in Proc, BeginAppend(p)
        PROVE  PhaseTypeOK'
      <2>1. PICK n \in {0} \cup {phase[f].position + 1 : f \in Existing} :
                Goto(p, [pc |-> "append", position |-> n])
          BY <1>1 DEF BeginAppend
      <2>2. n \in Nat
          BY DEF Existing, PhaseTypeOK, PhaseRow
      <2>3. call' \in [Proc -> Call]
          BY <2>1, <2>2
      <2> QED  BY <1>1, <2>3 DEF BeginAppend, PhaseTypeOK
  <1>2. ASSUME NEW p \in Proc, NEW f \in Phase, AppendPhase(p, f)
        PROVE  PhaseTypeOK'
      <2>1. [status |-> "not_started", position |-> call[p].position, result |-> None] \in PhaseRow
          BY <1>2 DEF AppendPhase, PhaseRow, PhaseStatus
      <2>2. call' \in [Proc -> Call]
          BY <1>2 DEF AppendPhase
      <2> QED  BY <1>2, <2>1, <2>2 DEF AppendPhase, PhaseTypeOK
  <1>3. ASSUME NEW p \in Proc, BeginReorder(p)
        PROVE  PhaseTypeOK'
      <2>1. call' \in [Proc -> Call]
          BY <1>3 DEF BeginReorder, PhaseTypeOK
      <2> QED  BY <1>3, <2>1 DEF BeginReorder, PhaseTypeOK
  <1>4. ASSUME NEW p \in Proc, NEW places \in Orders, Reorder(p, places)
        PROVE  PhaseTypeOK'
      <2>1. \A f \in DOMAIN places : Moved(call[p].rows[f], places[f]) \in PhaseRow
          BY <1>4, SavedRows, OrderType DEF Reorder
      <2>2. call' \in [Proc -> Call]
          BY <1>4 DEF Reorder
      <2>3. phase' \in [Phase -> PhaseRow \cup {None}]
          BY <1>4, <2>1 DEF Reorder, PhaseTypeOK
      <2> QED  BY <1>4, <2>2, <2>3 DEF Reorder, PhaseTypeOK
  <1>5. ASSUME NEW p \in Proc, NEW f \in Phase, NEW to \in PhaseStatus, BeginUpdate(p, f, to)
        PROVE  PhaseTypeOK'
      <2>1. phase[f] \in PhaseRow
          BY <1>5 DEF BeginUpdate, PhaseTypeOK
      <2>2. call' \in [Proc -> Call]
          BY <1>5, <2>1 DEF BeginUpdate
      <2> QED  BY <1>5, <2>2 DEF BeginUpdate, PhaseTypeOK
  <1>6. ASSUME NEW p \in Proc, SavePhase(p)
        PROVE  PhaseTypeOK'
      <2>1. /\ call[p].phase \in Phase /\ call[p].row \in PhaseRow /\ call[p].to \in PhaseStatus
            /\ call[p].row.status \in PhaseStatus
          BY <1>6 DEF SavePhase, PhaseRow
      <2>2. [call[p].row EXCEPT !.status = call[p].to] \in PhaseRow
          BY <2>1, SavedRows
      <2>3. phist' \in [Phase -> Seq(PhaseHistRow)]
          BY <1>6, <2>1, RecordedType DEF SavePhase, PhaseTypeOK
      <2>4. call' \in [Proc -> Call]
          BY <1>6 DEF SavePhase
      <2>5. phase' \in [Phase -> PhaseRow \cup {None}]
          BY <1>6, <2>1, <2>2 DEF SavePhase, PhaseTypeOK
      <2> QED  BY <1>6, <2>3, <2>4, <2>5 DEF SavePhase, PhaseTypeOK
  <1>7. ASSUME NEW p \in Proc, NEW f \in Phase, NEW v \in Version, CreateResultIntent(p, f, v)
        PROVE  PhaseTypeOK'
      BY <1>7 DEF CreateResultIntent, PhaseTypeOK
  <1>8. ASSUME NEW p \in Proc, NEW f \in Phase, NEW v \in Version, BeginResult(p, f, v)
        PROVE  PhaseTypeOK'
      <2>1. phase[f] \in PhaseRow
          BY <1>8 DEF BeginResult, PhaseTypeOK
      <2>2. call' \in [Proc -> Call]
          BY <1>8, <2>1 DEF BeginResult
      <2> QED  BY <1>8, <2>2 DEF BeginResult, PhaseTypeOK
  <1>9. ASSUME NEW p \in Proc, ValidateResult(p)
        PROVE  PhaseTypeOK'
      <2>1. call' \in [Proc -> Call]
          BY <1>9 DEF ValidateResult
      <2> QED  BY <1>9, <2>1 DEF ValidateResult, PhaseTypeOK
  <1>10. ASSUME NEW p \in Proc, LinkResult(p)
         PROVE  PhaseTypeOK'
      <2>1. /\ call[p].phase \in Phase /\ call[p].row \in PhaseRow /\ call[p].ver \in Version
            /\ call[p].row.status \in PhaseStatus
          BY <1>10 DEF LinkResult, PhaseRow
      <2>2. [call[p].row EXCEPT !.status = "completed", !.result = call[p].ver] \in PhaseRow
          BY <2>1, SavedRows
      <2>3. phist' \in [Phase -> Seq(PhaseHistRow)]
          BY <1>10, <2>1, RecordedType DEF LinkResult, PhaseStatus
      <2>4. call' \in [Proc -> Call]
          BY <1>10 DEF LinkResult
      <2>5. phase' \in [Phase -> PhaseRow \cup {None}]
          BY <1>10, <2>1, <2>2 DEF LinkResult, PhaseTypeOK
      <2> QED  BY <1>10, <2>3, <2>4, <2>5 DEF LinkResult, PhaseTypeOK
  <1>11. ASSUME NEW p \in Proc, Abandon(p)
         PROVE  PhaseTypeOK'
      <2>1. call' \in [Proc -> Call]
          BY <1>11 DEF Abandon
      <2> QED  BY <1>11, <2>1 DEF Abandon, PhaseTypeOK
  <1>12. ASSUME NEW p \in Proc, NEW v \in Version, BeginUploadBytes(p, v)
         PROVE  PhaseTypeOK'
      <2>1. call' \in [Proc -> Call]
          BY <1>12 DEF BeginUploadBytes
      <2> QED  BY <1>12, <2>1 DEF BeginUploadBytes, PhaseTypeOK
  <1>13. ASSUME NEW p \in Proc, ReceiveBytes(p)
         PROVE  PhaseTypeOK'
      <2>1. call' \in [Proc -> Call]
          BY <1>13 DEF ReceiveBytes
      <2> QED  BY <1>13, <2>1 DEF ReceiveBytes, PhaseTypeOK
  <1>14. CASE UNCHANGED vars
      BY <1>14 DEF vars, PhaseTypeOK
  <1> QED
      BY <1>1, <1>2, <1>3, <1>4, <1>5, <1>6, <1>7, <1>8, <1>9, <1>10, <1>11, <1>12, <1>13, <1>14
         DEF Next

\* Rows and calls in flight keep their shape.
THEOREM PhaseTypeCorrect == Spec => []PhaseTypeOK
  <1>1. Init => PhaseTypeOK
      BY InitType
  <1>2. PhaseTypeOK /\ [Next]_vars => PhaseTypeOK'
      BY NextType
  <1> QED  BY <1>1, <1>2, PTL DEF Spec
-----------------------------------------------------------------------------
(* Calls served one after the other *)

\* The rows a call holds are the rows the table has, and the move it is about to save
\* was allowed from there.
Fresh(c, rows) ==
    /\ c.pc = "reorder" => c.rows = rows
    /\ c.pc \in {"save_phase", "validate_result", "link_result"} =>
          rows[c.phase] # None /\ c.row = rows[c.phase]
    /\ c.pc = "save_phase" => CanTransitionPhase(c.row.status, c.to)
    /\ c.pc = "link_result" => CanTransitionPhase(c.row.status, "completed")

CalmInv ==
    /\ PhaseTypeOK
    /\ calm \in BOOLEAN
    /\ calm => \A p \in Proc : Fresh(call[p], phase)

LEMMA CalmBefore ==
    ASSUME calm \in BOOLEAN, CalmNext
    PROVE  calm' \in BOOLEAN /\ (calm' => calm /\ Quiet)
  <1>1. CASE calm /\ Quiet /\ Quiet'
      BY <1>1 DEF CalmNext
  <1>2. CASE ~(calm /\ Quiet /\ Quiet')
      <2>1. calm' = FALSE
          BY <1>2 DEF CalmNext
      <2> QED  BY <2>1
  <1> QED  BY <1>1, <1>2

\* While it is quiet, whoever is in the middle of a call is alone.
LEMMA Alone ==
    ASSUME Quiet, NEW p \in Proc, call[p] # Idle, NEW r \in Proc \ {p}
    PROVE  call[r] = Idle
  BY DEF Quiet

\* What a step of a quiet system does to the phases: it leaves the statuses and the
\* files it finds ...
Stays ==
    /\ phist' = phist
    /\ \A f \in Phase : phase[f] # None =>
          phase'[f] # None /\ phase'[f].status = phase[f].status /\ phase'[f].result = phase[f].result
    /\ \A f \in Phase : phase[f] = None => phase'[f] = None \/ phase'[f].status = "not_started"

\* ... or moves one phase along the flow, on the record, and keeps its file.
Moves(f, x) ==
    /\ phase[f] # None
    /\ CanTransitionPhase(phase[f].status, x.status)
    /\ phase[f].result # None => x.result # None
    /\ phase' = [phase EXCEPT ![f] = x]
    /\ phist' = [phist EXCEPT ![f] = Append(@, [from |-> phase[f].status, to |-> x.status])]

Orderly == Stays \/ \E f \in Phase, x \in PhaseRow : Moves(f, x)

\* A call begins, or goes on without a save.
LEMMA BeginFresh ==
    ASSUME CalmInv, calm, NEW p \in Proc, UNCHANGED <<phase, phist>>, NEW c, Goto(p, c),
           Fresh(c, phase)
    PROVE  Orderly /\ \A r \in Proc : Fresh(call'[r], phase')
  <1>1. Orderly
      BY DEF Orderly, Stays
  <1>2. \A r \in Proc : Fresh(call'[r], phase')
      BY GotoCall DEF CalmInv
  <1> QED  BY <1>1, <1>2

\* A call that ends leaves nobody with a row it has changed.
LEMMA EndFresh ==
    ASSUME CalmInv, calm, Quiet, NEW p \in Proc, call[p] # Idle, Goto(p, Idle)
    PROVE  \A r \in Proc : Fresh(call'[r], phase')
  <1> SUFFICES ASSUME NEW r \in Proc PROVE Fresh(call'[r], phase')
      OBVIOUS
  <1>1. call'[r] = Idle
      BY Alone, GotoCall DEF CalmInv
  <1> QED  BY <1>1 DEF Fresh, Idle

LEMMA BeginStep ==
    ASSUME CalmInv, calm, NEW p \in Proc,
           \/ BeginAppend(p) \/ BeginReorder(p) \/ ValidateResult(p) \/ Abandon(p)
           \/ ReceiveBytes(p) \/ \E v \in Version : BeginUploadBytes(p, v)
           \/ \E f \in Phase, to \in PhaseStatus : BeginUpdate(p, f, to)
           \/ \E f \in Phase, v \in Version : CreateResultIntent(p, f, v) \/ BeginResult(p, f, v)
    PROVE  Orderly /\ \A r \in Proc : Fresh(call'[r], phase')
  <1>1. ASSUME NEW c, c.pc \in {"append", "receive_bytes"} \/ c = Idle, Goto(p, c), UNCHANGED <<phase, phist>>
        PROVE  Orderly /\ \A r \in Proc : Fresh(call'[r], phase')
      <2>1. Fresh(c, phase)
          BY <1>1 DEF Fresh, Idle
      <2> QED  BY <1>1, <2>1, BeginFresh
  <1>2. CASE BeginAppend(p)
      <2>1. PICK n : Goto(p, [pc |-> "append", position |-> n])
          BY <1>2 DEF BeginAppend
      <2> QED  BY <1>1, <1>2, <2>1 DEF BeginAppend
  <1>3. CASE BeginReorder(p)
      <2> DEFINE c == [pc |-> "reorder", rows |-> phase]
      <2>1. Goto(p, c) /\ Fresh(c, phase) /\ UNCHANGED <<phase, phist>>
          BY <1>3 DEF BeginReorder, Fresh
      <2> HIDE DEF c
      <2> QED  BY <2>1, BeginFresh
  <1>4. CASE ValidateResult(p)
      <2> DEFINE c == [pc |-> "link_result", phase |-> call[p].phase, row |-> call[p].row,
                       ver |-> call[p].ver]
      <2>1. Goto(p, c) /\ Fresh(c, phase) /\ UNCHANGED <<phase, phist>>
          BY <1>4 DEF ValidateResult, Fresh, CalmInv, At
      <2> HIDE DEF c
      <2> QED  BY <2>1, BeginFresh
  <1>5. CASE Abandon(p)
      BY <1>1, <1>5 DEF Abandon
  <1>6. ASSUME NEW f \in Phase, NEW to \in PhaseStatus, BeginUpdate(p, f, to)
        PROVE  Orderly /\ \A r \in Proc : Fresh(call'[r], phase')
      <2> DEFINE c == [pc |-> "save_phase", phase |-> f, row |-> phase[f], to |-> to]
      <2>1. Goto(p, c) /\ Fresh(c, phase) /\ UNCHANGED <<phase, phist>>
          BY <1>6 DEF BeginUpdate, Fresh
      <2> HIDE DEF c
      <2> QED  BY <2>1, BeginFresh
  <1>7. ASSUME NEW f \in Phase, NEW v \in Version, BeginResult(p, f, v)
        PROVE  Orderly /\ \A r \in Proc : Fresh(call'[r], phase')
      <2> DEFINE c == [pc |-> "validate_result", phase |-> f, row |-> phase[f], ver |-> v]
      <2>1. Goto(p, c) /\ Fresh(c, phase) /\ UNCHANGED <<phase, phist>>
          BY <1>7 DEF BeginResult, Fresh
      <2> HIDE DEF c
      <2> QED  BY <2>1, BeginFresh
  <1>8. ASSUME NEW f \in Phase, NEW v \in Version, CreateResultIntent(p, f, v)
        PROVE  Orderly /\ \A r \in Proc : Fresh(call'[r], phase')
      BY <1>8 DEF CreateResultIntent, Orderly, Stays, CalmInv
  <1>9. CASE ReceiveBytes(p)
      BY <1>1, <1>9 DEF ReceiveBytes
  <1>10. ASSUME NEW v \in Version, BeginUploadBytes(p, v)
         PROVE  Orderly /\ \A r \in Proc : Fresh(call'[r], phase')
      <2> DEFINE c == [pc |-> "receive_bytes", ver |-> v]
      <2>1. Goto(p, c) /\ c.pc = "receive_bytes" /\ UNCHANGED <<phase, phist>>
          BY <1>10 DEF BeginUploadBytes
      <2> HIDE DEF c
      <2> QED  BY <1>1, <2>1
  <1> QED  BY <1>2, <1>3, <1>4, <1>5, <1>6, <1>7, <1>8, <1>9, <1>10

LEMMA SaveStep ==
    ASSUME CalmInv, calm, Quiet, NEW p \in Proc,
           \/ \E f \in Phase : AppendPhase(p, f)
           \/ \E places \in Orders : Reorder(p, places)
           \/ SavePhase(p) \/ LinkResult(p)
    PROVE  Orderly /\ \A r \in Proc : Fresh(call'[r], phase')
  <1> USE CallAt DEF CalmInv, PhaseTypeOK
  <1>1. \A r \in Proc : Fresh(call'[r], phase')
      <2>1. call[p] # Idle /\ Goto(p, Idle)
          BY DEF AppendPhase, Reorder, SavePhase, LinkResult, At, Idle
      <2> QED  BY <2>1, EndFresh
  <1>2. ASSUME NEW f \in Phase, AppendPhase(p, f) PROVE Orderly
      <2>1. Stays
          BY <1>2 DEF AppendPhase, Stays
      <2> QED  BY <2>1 DEF Orderly
  <1>3. ASSUME NEW places \in Orders, Reorder(p, places) PROVE Orderly
      <2>1. call[p].rows = phase
          BY <1>3 DEF Reorder, Fresh, At
      <2>2. ASSUME NEW f \in Phase
            PROVE  \/ phase'[f] = phase[f]
                   \/ /\ phase[f] # None /\ phase'[f] # None
                      /\ phase'[f].status = phase[f].status /\ phase'[f].result = phase[f].result
          <3>1. CASE f \in DOMAIN places
              <4>1. phase[f] \in PhaseRow /\ phase'[f] = Moved(phase[f], places[f]) /\ places[f] \in Nat
                  BY <1>3, <2>1, <3>1, OrderType DEF Reorder
              <4>2. Moved(phase[f], places[f]) \in PhaseRow
                  BY <4>1, SavedRows
              <4>3. phase[f] # None /\ phase'[f] # None
                  BY <4>1, <4>2, PhaseAssumption
              <4> QED  BY <4>1, <4>3 DEF Moved, PhaseRow
          <3>2. CASE f \notin DOMAIN places
              BY <1>3, <3>2 DEF Reorder
          <3> QED  BY <3>1, <3>2
      <2>3. phist' = phist
          BY <1>3 DEF Reorder
      <2> QED  BY <2>2, <2>3 DEF Orderly, Stays
  <1>4. ASSUME SavePhase(p) PROVE Orderly
      <2> DEFINE c == call[p]
      <2>1. /\ c.phase \in Phase /\ c.row = phase[c.phase] /\ c.row \in PhaseRow
            /\ phase[c.phase] # None /\ c.to \in PhaseStatus
            /\ CanTransitionPhase(c.row.status, c.to)
          BY <1>4 DEF SavePhase, Fresh, At
      <2>2. PICK f \in Phase, x \in PhaseRow : f = c.phase /\ x = [c.row EXCEPT !.status = c.to]
          BY <2>1, SavedRows
      <2>3. /\ phase' = [phase EXCEPT ![f] = x]
            /\ x.status = c.to /\ x.result = phase[f].result
          BY <1>4, <2>1, <2>2 DEF SavePhase, PhaseRow
      <2>4. CASE c.to = c.row.status
          <3>1. phist' = phist
              BY <1>4, <2>4 DEF SavePhase
          <3>2. x # None
              BY PhaseAssumption
          <3>3. Stays
              BY <2>1, <2>2, <2>3, <2>4, <3>1, <3>2 DEF Stays
          <3> QED  BY <3>3 DEF Orderly
      <2>5. CASE c.to # c.row.status
          <3>1. phist' = [phist EXCEPT ![f] = Append(@, [from |-> phase[f].status, to |-> x.status])]
              BY <1>4, <2>1, <2>2, <2>3, <2>5 DEF SavePhase, Recorded
          <3>2. Moves(f, x)
              BY <2>1, <2>2, <2>3, <3>1 DEF Moves
          <3> QED  BY <3>2 DEF Orderly
      <2> QED  BY <2>4, <2>5
  <1>5. ASSUME LinkResult(p) PROVE Orderly
      <2> DEFINE c == call[p]
      <2>1. /\ c.phase \in Phase /\ c.row = phase[c.phase] /\ c.row \in PhaseRow
            /\ phase[c.phase] # None /\ c.ver \in Version
            /\ CanTransitionPhase(c.row.status, "completed")
          BY <1>5 DEF LinkResult, Fresh, At
      <2>2. PICK f \in Phase, x \in PhaseRow :
               f = c.phase /\ x = [c.row EXCEPT !.status = "completed", !.result = c.ver]
          BY <2>1, SavedRows
      <2>3. /\ phase' = [phase EXCEPT ![f] = x]
            /\ x.status = "completed" /\ x.result # None
          BY <1>5, <2>1, <2>2, PhaseAssumption DEF LinkResult, PhaseRow
      <2>4. phist' = [phist EXCEPT ![f] = Append(@, [from |-> phase[f].status, to |-> x.status])]
          BY <1>5, <2>1, <2>2, <2>3 DEF LinkResult, Recorded
      <2>5. Moves(f, x)
          BY <2>1, <2>2, <2>3, <2>4 DEF Moves
      <2> QED  BY <2>5 DEF Orderly
  <1> QED  BY <1>1, <1>2, <1>3, <1>4, <1>5

LEMMA CalmStep ==
    ASSUME CalmInv, [CalmNext]_calmVars
    PROVE  CalmInv' /\ (calm' => Orderly)
  <1>1. CASE UNCHANGED calmVars
      BY <1>1 DEF calmVars, vars, CalmInv, PhaseTypeOK, Quiet, Orderly, Stays
  <1>2. CASE CalmNext
      <2>1. PhaseTypeOK'
          BY <1>2, NextType DEF CalmNext, CalmInv
      <2>2. calm' \in BOOLEAN /\ (calm' => calm /\ Quiet)
          BY <1>2, CalmBefore DEF CalmInv
      <2>3. ASSUME calm'
            PROVE  Orderly /\ \A r \in Proc : Fresh(call'[r], phase')
          BY <1>2, <2>2, <2>3, BeginStep, SaveStep DEF CalmNext, Next
      <2> QED  BY <2>1, <2>2, <2>3 DEF CalmInv
  <1> QED  BY <1>1, <1>2

LEMMA CalmStart == CalmInit => CalmInv
  BY InitType DEF CalmInit, CalmInv, Init, Fresh, Idle

\* Served one by one, the phases of a document implement the audit trail whose entries
\* say where the phase really was, although every save writes back a row read before.
THEOREM PhasesAuditedTheorem == CalmSpec => PhasesAudited
  <1>1. CalmInv /\ [CalmNext]_calmVars
           => [calm' => Trail!ChainedNext \/ UNCHANGED Trail!vars]_calmVars
      <2> SUFFICES ASSUME CalmInv, [CalmNext]_calmVars, calm'
                   PROVE  Trail!ChainedNext \/ UNCHANGED Trail!vars
          OBVIOUS
      <2> USE DEF CalmInv, PhaseTypeOK
      <2>1. Orderly
          BY CalmStep
      <2>2. CASE Stays
          <3>1. StatusOf' = StatusOf
              BY <2>2 DEF Stays, StatusOf
          <3> QED  BY <2>2, <3>1 DEF Stays, Trail!vars
      <2>3. ASSUME NEW f \in Phase, NEW x \in PhaseRow, Moves(f, x)
            PROVE  Trail!ChainedNext
          <3> DEFINE e == [from |-> phase[f].status, to |-> x.status]
          <3>1. phase[f] \in PhaseRow /\ phase[f] # None
              BY <2>3 DEF Moves
          <3>2. e \in Trail!Entry
              BY <3>1 DEF Trail!Entry, PhaseRow
          <3>3. e.from = StatusOf[f] /\ e.to = x.status
              BY <3>1 DEF StatusOf
          <3>4. StatusOf' = [StatusOf EXCEPT ![f] = e.to]
              BY <2>3, PhaseAssumption DEF StatusOf, Moves
          <3>5. phist' = [phist EXCEPT ![f] = Append(@, e)]
              BY <2>3 DEF Moves
          <3> HIDE DEF e
          <3> QED  BY <3>2, <3>3, <3>4, <3>5 DEF Trail!ChainedNext, Trail!RecordChained, Trail!Record
      <2> QED  BY <2>1, <2>2, <2>3 DEF Orderly
  <1>2. CalmInv /\ [CalmNext]_calmVars => CalmInv'
      BY CalmStep
  <1> QED  BY <1>1, <1>2, CalmStart, PTL DEF CalmSpec, PhasesAudited

LEMMA SmallerSubset ==
    ASSUME NEW S, NEW T \in SUBSET Phase, S \subseteq T
    PROVE  ~(Cardinality(S) > Cardinality(T))
  <1>1. IsFiniteSet(T)
      BY PhaseAssumption, FS_Subset
  <1>2. Cardinality(S) \in Nat /\ Cardinality(T) \in Nat /\ Cardinality(S) <= Cardinality(T)
      BY <1>1, FS_Subset, FS_CardinalityType
  <1> QED  BY <1>2

\* Served one by one, phases follow the flow and keep their result files, their number
\* never falls, and the completed ones become fewer only by a reopening on the record.
THEOREM PhaseMovesTheorem == CalmSpec => PhaseMoves
  <1> DEFINE Step ==
        /\ \A f \in Existing :
              /\ phase'[f].status \in {phase[f].status} \cup PhaseFlow[phase[f].status]
              /\ phase[f].result # None => phase'[f].result # None
        /\ Progress.completed > Progress'.completed => \E f \in Phase : Reopened(f)
        /\ Progress.total <= Progress'.total
  <1>1. CalmInv /\ [CalmNext]_calmVars => [calm' => Step]_calmVars
      <2> SUFFICES ASSUME CalmInv, [CalmNext]_calmVars, calm'
                   PROVE  Step
          OBVIOUS
      <2> USE DEF CalmInv, PhaseTypeOK
      <2>1. Orderly
          BY CalmStep
      <2> DEFINE done == {f \in Existing : phase[f].status = "completed"}
      <2>2. ASSUME NEW f \in Existing
            PROVE  /\ f \in Existing'
                   /\ phase'[f].status \in {phase[f].status} \cup PhaseFlow[phase[f].status]
                   /\ phase[f].result # None => phase'[f].result # None
                   /\ f \in done /\ f \notin done' => Reopened(f)
          <3>1. CASE Stays
              BY <2>2, <3>1 DEF Stays, Existing
          <3>2. ASSUME NEW g \in Phase, NEW x \in PhaseRow, Moves(g, x), f # g
                PROVE  phase'[f] = phase[f]
              BY <3>2 DEF Moves, Existing
          <3>3. ASSUME NEW x \in PhaseRow, Moves(f, x)
                PROVE  /\ f \in Existing'
                       /\ phase'[f].status \in {phase[f].status} \cup PhaseFlow[phase[f].status]
                       /\ phase[f].result # None => phase'[f].result # None
                       /\ f \in done /\ f \notin done' => Reopened(f)
              <4>1. phase'[f] = x /\ x # None
                  BY <3>3, PhaseAssumption DEF Moves, Existing
              <4>2. phist'[f] = Append(phist[f], [from |-> phase[f].status, to |-> x.status])
                  BY <3>3 DEF Moves, Existing
              <4>3. /\ Len(phist'[f]) = Len(phist[f]) + 1
                    /\ phist'[f][Len(phist'[f])].from = phase[f].status
                  <5>1. phist[f] \in Seq(PhaseHistRow) /\ Len(phist[f]) \in Nat
                      BY DEF Existing
                  <5> QED  BY <4>2, <5>1
              <4> QED  BY <3>3, <4>1, <4>3 DEF Moves, Existing, CanTransitionPhase, Reopened
          <3> QED  BY <2>1, <2>2, <3>1, <3>2, <3>3 DEF Orderly, Existing
      <2>3. Existing \subseteq Existing' /\ Existing' \in SUBSET Phase
          BY <2>2 DEF Existing
      <2>4. Progress.total <= Progress'.total
          <3>1. Cardinality(Existing) \in Nat /\ Cardinality(Existing') \in Nat
              BY PhaseAssumption, FS_Subset, FS_CardinalityType DEF Existing
          <3>2. ~(Cardinality(Existing) > Cardinality(Existing'))
              BY <2>3, SmallerSubset
          <3> QED  BY <3>1, <3>2 DEF Progress
      <2>5. ASSUME ~\E f \in Phase : Reopened(f)
            PROVE  ~(Progress.completed > Progress'.completed)
          <3>1. done \subseteq done' /\ done' \in SUBSET Phase
              BY <2>2, <2>5 DEF Existing
          <3>2. ~(Cardinality(done) > Cardinality(done'))
              BY <3>1, SmallerSubset
          <3> QED  BY <3>2 DEF Progress
      <2> QED  BY <2>2, <2>4, <2>5
  <1>2. CalmInv /\ [CalmNext]_calmVars => CalmInv'
      BY CalmStep
  <1> QED  BY <1>1, <1>2, CalmStart, PTL DEF CalmSpec, PhaseMoves
-----------------------------------------------------------------------------
(* Stale saves *)

\* What a step of p does to the result versions.
Results(p) ==
    \/ UNCHANGED result /\ call'[p].pc # "receive_bytes"
    \/ \E v \in Version : BeginUploadBytes(p, v)
    \/ \E f \in Phase, v \in Version : CreateResultIntent(p, f, v)
    \/ ValidateResult(p)
    \/ ReceiveBytes(p)

LEMMA ResultStep ==
    ASSUME PhaseTypeOK, Next
    PROVE  \E p \in Proc : Results(p) /\ \A r \in Proc \ {p} : call'[r] = call[r]
  <1>1. ASSUME NEW p \in Proc, BeginAppend(p)
        PROVE  Results(p) /\ \A r \in Proc \ {p} : call'[r] = call[r]
      BY <1>1, GotoCall DEF BeginAppend, Results
  <1>2. ASSUME NEW p \in Proc, NEW f \in Phase, AppendPhase(p, f)
        PROVE  Results(p) /\ \A r \in Proc \ {p} : call'[r] = call[r]
      BY <1>2, GotoCall DEF AppendPhase, Results, Idle
  <1>3. ASSUME NEW p \in Proc, BeginReorder(p)
        PROVE  Results(p) /\ \A r \in Proc \ {p} : call'[r] = call[r]
      BY <1>3, GotoCall DEF BeginReorder, Results
  <1>4. ASSUME NEW p \in Proc, NEW places \in Orders, Reorder(p, places)
        PROVE  Results(p) /\ \A r \in Proc \ {p} : call'[r] = call[r]
      BY <1>4, GotoCall DEF Reorder, Results, Idle
  <1>5. ASSUME NEW p \in Proc, NEW f \in Phase, NEW to \in PhaseStatus, BeginUpdate(p, f, to)
        PROVE  Results(p) /\ \A r \in Proc \ {p} : call'[r] = call[r]
      BY <1>5, GotoCall DEF BeginUpdate, Results
  <1>6. ASSUME NEW p \in Proc, SavePhase(p)
        PROVE  Results(p) /\ \A r \in Proc \ {p} : call'[r] = call[r]
      BY <1>6, GotoCall DEF SavePhase, Results, Idle
  <1>7. ASSUME NEW p \in Proc, NEW f \in Phase, NEW v \in Version, CreateResultIntent(p, f, v)
        PROVE  Results(p) /\ \A r \in Proc \ {p} : call'[r] = call[r]
      BY <1>7 DEF CreateResultIntent, Results
  <1>8. ASSUME NEW p \in Proc, NEW f \in Phase, NEW v \in Version, BeginResult(p, f, v)
        PROVE  Results(p) /\ \A r \in Proc \ {p} : call'[r] = call[r]
      BY <1>8, GotoCall DEF BeginResult, Results
  <1>9. ASSUME NEW p \in Proc, ValidateResult(p)
        PROVE  Results(p) /\ \A r \in Proc \ {p} : call'[r] = call[r]
      <2>1. PICK c : Goto(p, c)
          BY <1>9 DEF ValidateResult
      <2> QED  BY <1>9, <2>1, GotoCall DEF Results
  <1>10. ASSUME NEW p \in Proc, LinkResult(p)
         PROVE  Results(p) /\ \A r \in Proc \ {p} : call'[r] = call[r]
      BY <1>10, GotoCall DEF LinkResult, Results, Idle
  <1>11. ASSUME NEW p \in Proc, Abandon(p)
         PROVE  Results(p) /\ \A r \in Proc \ {p} : call'[r] = call[r]
      BY <1>11, GotoCall DEF Abandon, Results, Idle
  <1>12. ASSUME NEW p \in Proc, NEW v \in Version, BeginUploadBytes(p, v)
         PROVE  Results(p) /\ \A r \in Proc \ {p} : call'[r] = call[r]
      BY <1>12, GotoCall DEF BeginUploadBytes, Results
  <1>13. ASSUME NEW p \in Proc, ReceiveBytes(p)
         PROVE  Results(p) /\ \A r \in Proc \ {p} : call'[r] = call[r]
      BY <1>13, GotoCall DEF ReceiveBytes, Results
  <1> QED
      BY <1>1, <1>2, <1>3, <1>4, <1>5, <1>6, <1>7, <1>8, <1>9, <1>10, <1>11, <1>12, <1>13 DEF Next

\* What has happened to the result versions.
IReceived ==
    /\ CalmInv
    /\ validated \in SUBSET Version
    /\ received \in BOOLEAN
    /\ Receiving

LEMMA InitReceived == CalmInit => IReceived
  <1> SUFFICES ASSUME CalmInit PROVE IReceived
      OBVIOUS
  <1>1. CalmInv
      BY CalmStart
  <1>2. \A p \in Proc : call[p].pc = "idle"
      BY DEF CalmInit, Init, Idle
  <1>3. Receiving
      BY <1>2 DEF Receiving
  <1> QED  BY <1>1, <1>3 DEF CalmInit, IReceived

\* Whoever receives bytes went on from a version that awaits them, and nothing but
\* another call has taken it away since.
LEMMA ReceivingKept ==
    ASSUME IReceived, CalmNext
    PROVE  Receiving'
  <1> USE DEF IReceived, CalmInv, PhaseTypeOK
  <1>1. calm' => calm /\ Quiet
      BY CalmBefore
  <1>2. PICK p \in Proc : Results(p) /\ \A r \in Proc \ {p} : call'[r] = call[r]
      BY ResultStep DEF CalmNext
  <1> SUFFICES ASSUME NEW r \in Proc, call'[r].pc = "receive_bytes"
               PROVE  received' /\ (calm' => result'[call'[r].ver] = "intent")
      BY DEF Receiving
  <1>3. received'
      BY DEF CalmNext
  <1>4. ASSUME calm'
        PROVE  result'[call'[r].ver] = "intent"
      <2>1. CASE UNCHANGED result /\ call'[p].pc # "receive_bytes"
          BY <1>1, <1>2, <1>4, <2>1 DEF Receiving
      <2>2. ASSUME NEW v \in Version, BeginUploadBytes(p, v)
            PROVE  result'[call'[r].ver] = "intent"
          <3>1. CASE r = p
              BY <2>2, <3>1, GotoCall DEF BeginUploadBytes
          <3>2. CASE r # p
              BY <1>1, <1>2, <1>4, <2>2, <3>2 DEF BeginUploadBytes, Receiving
          <3> QED  BY <3>1, <3>2
      <2>3. ASSUME NEW f \in Phase, NEW v \in Version, CreateResultIntent(p, f, v)
            PROVE  result'[call'[r].ver] = "intent"
          BY <1>1, <1>4, <2>3 DEF CreateResultIntent, Receiving
      <2>4. CASE ValidateResult(p)
          <3>1. call[p] # Idle /\ call'[p].pc # "receive_bytes"
              BY <2>4, GotoCall DEF ValidateResult, At, Idle
          <3>2. r # p /\ call'[r] = Idle
              BY <1>1, <1>2, <1>4, <3>1, Alone
          <3> QED  BY <3>2 DEF Idle
      <2>5. CASE ReceiveBytes(p)
          <3>1. call'[p] = Idle
              BY <2>5, GotoCall DEF ReceiveBytes
          <3>2. r # p /\ call'[r] = call[r]
              BY <1>2, <3>1 DEF Idle
          <3>3. result[call[r].ver] = "intent" /\ call[r].ver \in Version
              BY <1>1, <1>4, <3>2, CallAt DEF Receiving, At
          <3> QED  BY <2>5, <3>2, <3>3 DEF ReceiveBytes
      <2> QED  BY <1>2, <2>1, <2>2, <2>3, <2>4, <2>5 DEF Results
  <1> QED  BY <1>3, <1>4

\* A good version stays good.
LEMMA GoodStays ==
    ASSUME IReceived, CalmNext
    PROVE  Good \subseteq Good'
  <1> USE DEF IReceived, CalmInv, PhaseTypeOK
  <1>1. calm' => calm
      BY CalmBefore
  <1>2. PICK p \in Proc : Results(p)
      BY ResultStep DEF CalmNext
  <1>3. ASSUME NEW v \in Version, result[v] = "ready", calm' \/ ~received'
        PROVE  result'[v] = "ready"
      <2>1. CASE ReceiveBytes(p)
          <3>1. received' /\ (calm => result[call[p].ver] = "intent")
              BY <2>1 DEF ReceiveBytes, Receiving, At, CalmNext
          <3> QED  BY <1>1, <1>3, <2>1, <3>1 DEF ReceiveBytes
      <2>2. CASE ValidateResult(p)
          BY <1>3, <2>2 DEF ValidateResult
      <2> QED  BY <1>2, <1>3, <2>1, <2>2 DEF Results, BeginUploadBytes, CreateResultIntent
  <1>4. ~received' => ~received
      BY DEF CalmNext
  <1>5. validated \subseteq validated'
      BY DEF CalmNext
  <1> QED  BY <1>1, <1>3, <1>4, <1>5 DEF Good

LEMMA NextReceived ==
    ASSUME IReceived, [CalmNext]_calmVars
    PROVE  IReceived' /\ Good \subseteq Good'
  <1>1. CalmInv'
      BY CalmStep DEF IReceived
  <1>2. CASE CalmNext
      BY <1>1, <1>2, ReceivingKept, GoodStays DEF IReceived, CalmNext
  <1>3. CASE UNCHANGED calmVars
      BY <1>1, <1>3 DEF IReceived, Receiving, Good, calmVars, vars
  <1> QED  BY <1>2, <1>3

-----------------------------------------------------------------------------
(* Rows that are vouched for *)

\* Nothing is unsaid: history is only appended to, a good version stays so.
Grows ==
    /\ \A f \in Phase, s \in PhaseStatus : OnRecord(phist[f], s) => OnRecord(phist'[f], s)
    /\ Good \subseteq Good'

\* Then a row that was vouched for still is ...
LEMMA VouchedStays ==
    ASSUME Grows, NEW f \in Phase, NEW x \in PhaseRow, Vouched(phist[f], Good, x)
    PROVE  Vouched(phist'[f], Good', x)
  <1> x.status \in PhaseStatus /\ x.result \in Version \cup {None} /\ "completed" \in PhaseStatus
      BY DEF PhaseRow, PhaseStatus
  <1> QED  BY DEF Vouched, Grows

\* ... and so is a call.
LEMMA CallStays ==
    ASSUME Grows, NEW c \in Call, CallVouched(phist, Good, c)
    PROVE  CallVouched(phist', Good', c)
  <1>1. CASE c.pc \in {"save_phase", "validate_result", "link_result"}
      <2>1. c.phase \in Phase /\ c.row \in PhaseRow
          BY <1>1 DEF Call, Idle
      <2>2. c.pc = "link_result" => c.ver \in Version
          BY <1>1 DEF Call, Idle
      <2>3. Vouched(phist'[c.phase], Good', c.row)
          BY <1>1, <2>1, VouchedStays DEF CallVouched
      <2> QED  BY <1>1, <2>2, <2>3 DEF CallVouched, Grows
  <1>2. CASE c.pc = "reorder"
      <2>1. c.rows \in [Phase -> PhaseRow \cup {None}]
          BY <1>2 DEF Call, Idle
      <2>2. \A f \in Phase : c.rows[f] # None => Vouched(phist'[f], Good', c.rows[f])
          BY <1>2, <2>1, VouchedStays DEF CallVouched
      <2> QED  BY <1>2, <2>2 DEF CallVouched
  <1>3. CASE c.pc \notin {"save_phase", "validate_result", "link_result", "reorder"}
      BY <1>3 DEF CallVouched
  <1> QED  BY <1>1, <1>2, <1>3

\* A transaction that records a move makes the new status one on record.
LEMMA RecordedGrows ==
    ASSUME PhaseTypeOK, NEW f \in Phase, NEW s, NEW t, Recorded(f, s, t), Good \subseteq Good'
    PROVE  Grows /\ OnRecord(phist'[f], t)
  <1> DEFINE e == [from |-> s, to |-> t]
  <1>1. phist' = [phist EXCEPT ![f] = Append(phist[f], e)]
      BY DEF Recorded
  <1>2. phist[f] \in Seq(PhaseHistRow)
      BY DEF PhaseTypeOK
  <1>3. /\ phist'[f] = Append(phist[f], e)
        /\ \A g \in Phase \ {f} : phist'[g] = phist[g]
      BY <1>1 DEF PhaseTypeOK
  <1>4. /\ DOMAIN phist'[f] = 1..(Len(phist[f]) + 1)
        /\ DOMAIN phist[f] = 1..Len(phist[f])
        /\ Len(phist[f]) \in Nat
        /\ \A i \in DOMAIN phist[f] : phist'[f][i] = phist[f][i]
        /\ phist'[f][Len(phist[f]) + 1] = e
      BY <1>2, <1>3
  <1>5. ASSUME NEW g \in Phase, NEW u \in PhaseStatus, OnRecord(phist[g], u), u # "not_started"
        PROVE  OnRecord(phist'[g], u)
    <2>1. PICK i \in DOMAIN phist[g] : phist[g][i].to = u
        BY <1>5 DEF OnRecord
    <2>2. CASE g = f
        <3>1. i \in DOMAIN phist'[f] /\ phist'[f][i].to = u
            BY <2>1, <2>2, <1>4
        <3> QED  BY <2>2, <3>1 DEF OnRecord
    <2>3. CASE g # f
        BY <2>1, <2>3, <1>3 DEF OnRecord
    <2> QED  BY <2>2, <2>3
  <1>6. OnRecord(phist'[f], t)
      <2>1. Len(phist[f]) + 1 \in DOMAIN phist'[f] /\ phist'[f][Len(phist[f]) + 1].to = t
          BY <1>4
      <2> QED  BY <2>1 DEF OnRecord
  <1> QED  BY <1>5, <1>6 DEF Grows, OnRecord

\* What holds of the rows holds of the rows calls hold.
IVouched == IReceived /\ PhaseVouched /\ CallsVouched

LEMMA InitVouched == CalmInit => IVouched
  BY InitReceived DEF CalmInit, Init, IVouched, PhaseVouched, CallsVouched, CallVouched, Idle

\* A step of p whose saved rows and new call are vouched for.
LEMMA StepVouched ==
    ASSUME PhaseTypeOK, PhaseVouched, CallsVouched, Grows, NEW p \in Proc,
           NEW c \in Call, Goto(p, c), CallVouched(phist', Good', c),
           \A f \in Phase : \/ phase'[f] = phase[f]
                            \/ Vouched(phist'[f], Good', phase'[f])
    PROVE  PhaseVouched' /\ CallsVouched'
  <1>1. \A f \in Phase : phase[f] # None => Vouched(phist'[f], Good', phase[f])
      BY VouchedStays DEF PhaseVouched, PhaseTypeOK
  <1>2. PhaseVouched'
      BY <1>1 DEF PhaseVouched
  <1>3. \A r \in Proc : CallVouched(phist', Good', call[r])
      BY CallStays DEF CallsVouched, PhaseTypeOK
  <1> QED  BY <1>2, <1>3, GotoCall DEF CallsVouched

\* A step of p that saves nothing and goes on to c.
LEMMA BeginVouched ==
    ASSUME PhaseTypeOK, PhaseVouched, CallsVouched, Good \subseteq Good', NEW p \in Proc,
           NEW c \in Call, Goto(p, c), CallVouched(phist, Good, c), UNCHANGED <<phase, phist>>
    PROVE  PhaseVouched' /\ CallsVouched'
  <1>1. Grows
      BY DEF Grows
  <1>2. CallVouched(phist', Good', c)
      BY <1>1, CallStays
  <1> QED  BY <1>1, <1>2, StepVouched

\* The steps that save phases.
LEMMA SaveVouched ==
    ASSUME PhaseTypeOK, PhaseVouched, CallsVouched, Good \subseteq Good', NEW p \in Proc,
           \/ \E f \in Phase : AppendPhase(p, f)
           \/ \E places \in Orders : Reorder(p, places)
           \/ SavePhase(p) \/ LinkResult(p)
    PROVE  PhaseVouched' /\ CallsVouched'
  <1>1. Goto(p, Idle) /\ Idle \in Call /\ CallVouched(phist', Good', Idle)
      BY CallTypes DEF AppendPhase, Reorder, SavePhase, LinkResult, CallVouched, Idle
  <1>2. UNCHANGED phist => Grows
      BY DEF Grows
  <1>3. ASSUME Grows, \A g \in Phase : phase'[g] = phase[g] \/ Vouched(phist'[g], Good', phase'[g])
        PROVE  PhaseVouched' /\ CallsVouched'
      BY <1>1, <1>3, StepVouched
  <1>4. ASSUME NEW f \in Phase, AppendPhase(p, f)
        PROVE  PhaseVouched' /\ CallsVouched'
      <2>1. \A g \in Phase : phase'[g] = phase[g] \/ Vouched(phist'[g], Good', phase'[g])
          BY <1>4 DEF AppendPhase, PhaseTypeOK, Vouched, OnRecord
      <2>2. Grows
          BY <1>2, <1>4 DEF AppendPhase
      <2> QED  BY <1>3, <2>1, <2>2
  <1>5. ASSUME NEW places \in Orders, Reorder(p, places)
        PROVE  PhaseVouched' /\ CallsVouched'
      <2>1. At(p, "reorder") /\ CallVouched(phist, Good, call[p]) /\ Grows
          BY <1>2, <1>5 DEF Reorder, CallsVouched
      <2>2. ASSUME NEW f \in DOMAIN places
            PROVE  Vouched(phist'[f], Good', Moved(call[p].rows[f], places[f]))
          <3>1. f \in Phase /\ places[f] \in Nat /\ call[p].rows[f] # None
              BY <1>5, OrderType DEF Reorder
          <3>2. call[p].rows[f] \in PhaseRow /\ Vouched(phist[f], Good, call[p].rows[f])
              BY <2>1, <3>1, CallAt DEF CallVouched, At
          <3>3. Vouched(phist'[f], Good', call[p].rows[f])
              BY <2>1, <3>1, <3>2, VouchedStays
          <3> QED  BY <3>1, <3>2, <3>3 DEF Moved, Vouched, PhaseRow
      <2>3. \A f \in Phase : phase'[f] = phase[f] \/ Vouched(phist'[f], Good', phase'[f])
          BY <1>5, <2>2 DEF Reorder
      <2> QED  BY <1>3, <2>1, <2>3
  <1>6. CASE SavePhase(p)
      <2> DEFINE c == call[p]
      <2>1. /\ c.phase \in Phase /\ c.row \in PhaseRow /\ c.to \in PhaseStatus
            /\ Vouched(phist[c.phase], Good, c.row)
          BY <1>6, CallAt DEF SavePhase, CallsVouched, CallVouched, At
      <2>2. Grows /\ OnRecord(phist'[c.phase], c.to)
          <3>1. CASE c.to # c.row.status
              BY <1>6, <2>1, <3>1, RecordedGrows DEF SavePhase
          <3>2. CASE c.to = c.row.status
              BY <1>2, <1>6, <2>1, <3>2 DEF SavePhase, Vouched
          <3> QED  BY <3>1, <3>2
      <2>3. Vouched(phist'[c.phase], Good', c.row)
          BY <2>1, <2>2, VouchedStays
      <2>4. Vouched(phist'[c.phase], Good', [c.row EXCEPT !.status = c.to])
          BY <2>1, <2>2, <2>3 DEF Vouched, PhaseRow
      <2>5. \A g \in Phase : phase'[g] = phase[g] \/ Vouched(phist'[g], Good', phase'[g])
          BY <1>6, <2>1, <2>4 DEF SavePhase, PhaseTypeOK
      <2> QED  BY <1>3, <2>2, <2>5
  <1>7. CASE LinkResult(p)
      <2> DEFINE c == call[p]
      <2>1. c.phase \in Phase /\ c.row \in PhaseRow /\ c.ver \in Good
          BY <1>7, CallAt DEF LinkResult, CallsVouched, CallVouched, At
      <2>2. Grows /\ OnRecord(phist'[c.phase], "completed")
          BY <1>7, <2>1, RecordedGrows DEF LinkResult
      <2>3. Vouched(phist'[c.phase], Good', [c.row EXCEPT !.status = "completed", !.result = c.ver])
          BY <2>1, <2>2 DEF Vouched, PhaseRow, Grows
      <2>4. \A g \in Phase : phase'[g] = phase[g] \/ Vouched(phist'[g], Good', phase'[g])
          BY <1>7, <2>1, <2>3 DEF LinkResult, PhaseTypeOK
      <2> QED  BY <1>3, <2>2, <2>4
  <1> QED  BY <1>4, <1>5, <1>6, <1>7

LEMMA NextVouched ==
    ASSUME IVouched, [CalmNext]_calmVars
    PROVE  IVouched'
  <1> USE DEF IVouched, IReceived, CalmInv
  <1>1. IReceived' /\ Good \subseteq Good'
      BY NextReceived
  <1>2. ASSUME CalmNext
        PROVE  PhaseVouched' /\ CallsVouched'
    <2>1. ASSUME NEW p \in Proc, BeginAppend(p)
          PROVE  PhaseVouched' /\ CallsVouched'
        <3>1. PICK n \in {0} \cup {phase[f].position + 1 : f \in Existing} :
                  Goto(p, [pc |-> "append", position |-> n])
            BY <2>1 DEF BeginAppend
        <3>2. PICK c : c = [pc |-> "append", position |-> n]
            OBVIOUS
        <3>3. n \in Nat
            BY DEF Existing, PhaseTypeOK, PhaseRow
        <3>4. c \in Call /\ CallVouched(phist, Good, c) /\ Goto(p, c)
            BY <3>1, <3>2, <3>3, CallTypes DEF CallVouched
        <3> QED  BY <1>1, <2>1, <3>4, BeginVouched DEF BeginAppend
    <2>2. ASSUME NEW p \in Proc, BeginReorder(p)
          PROVE  PhaseVouched' /\ CallsVouched'
        <3>1. PICK c : c = [pc |-> "reorder", rows |-> phase]
            OBVIOUS
        <3>2. c \in Call /\ CallVouched(phist, Good, c) /\ Goto(p, c)
            BY <2>2, <3>1, CallTypes DEF BeginReorder, CallVouched, PhaseVouched, PhaseTypeOK
        <3> QED  BY <1>1, <2>2, <3>2, BeginVouched DEF BeginReorder
    <2>3. ASSUME NEW p \in Proc, NEW f \in Phase, NEW to \in PhaseStatus, BeginUpdate(p, f, to)
          PROVE  PhaseVouched' /\ CallsVouched'
        <3>1. PICK c : c = [pc |-> "save_phase", phase |-> f, row |-> phase[f], to |-> to]
            OBVIOUS
        <3>2. phase[f] \in PhaseRow /\ Vouched(phist[f], Good, phase[f])
            BY <2>3 DEF BeginUpdate, PhaseVouched, PhaseTypeOK
        <3>3. c \in Call /\ CallVouched(phist, Good, c) /\ Goto(p, c)
            BY <2>3, <3>1, <3>2, CallTypes DEF BeginUpdate, CallVouched
        <3> QED  BY <1>1, <2>3, <3>3, BeginVouched DEF BeginUpdate
    <2>4. ASSUME NEW p \in Proc, NEW f \in Phase, NEW v \in Version, CreateResultIntent(p, f, v)
          PROVE  PhaseVouched' /\ CallsVouched'
        <3>1. Grows /\ UNCHANGED <<phase, phist, call>>
            BY <1>1, <2>4 DEF CreateResultIntent, Grows
        <3>2. \A r \in Proc : CallVouched(phist', Good', call[r])
            BY <3>1, CallStays DEF CallsVouched, PhaseTypeOK
        <3>3. \A g \in Phase : phase[g] # None => Vouched(phist'[g], Good', phase[g])
            BY <3>1, VouchedStays DEF PhaseVouched, PhaseTypeOK
        <3> QED  BY <3>1, <3>2, <3>3 DEF PhaseVouched, CallsVouched
    <2>5. ASSUME NEW p \in Proc, NEW f \in Phase, NEW v \in Version, BeginResult(p, f, v)
          PROVE  PhaseVouched' /\ CallsVouched'
        <3>1. PICK c : c = [pc |-> "validate_result", phase |-> f, row |-> phase[f], ver |-> v]
            OBVIOUS
        <3>2. phase[f] \in PhaseRow /\ Vouched(phist[f], Good, phase[f])
            BY <2>5 DEF BeginResult, PhaseVouched, PhaseTypeOK
        <3>3. c \in Call /\ CallVouched(phist, Good, c) /\ Goto(p, c)
            BY <2>5, <3>1, <3>2, CallTypes DEF BeginResult, CallVouched
        <3> QED  BY <1>1, <2>5, <3>3, BeginVouched DEF BeginResult
    <2>6. ASSUME NEW p \in Proc, NEW v \in Version, BeginUploadBytes(p, v)
          PROVE  PhaseVouched' /\ CallsVouched'
        <3>1. PICK c : c = [pc |-> "receive_bytes", ver |-> v]
            OBVIOUS
        <3>2. c \in Call /\ CallVouched(phist, Good, c) /\ Goto(p, c)
            BY <2>6, <3>1, CallTypes DEF BeginUploadBytes, CallVouched
        <3> QED  BY <1>1, <2>6, <3>2, BeginVouched DEF BeginUploadBytes
    <2>7. ASSUME NEW p \in Proc, ReceiveBytes(p) \/ Abandon(p)
          PROVE  PhaseVouched' /\ CallsVouched'
        <3>1. Idle \in Call /\ CallVouched(phist, Good, Idle) /\ Goto(p, Idle)
            BY <2>7, CallTypes DEF ReceiveBytes, Abandon, CallVouched, Idle
        <3> QED  BY <1>1, <2>7, <3>1, BeginVouched DEF ReceiveBytes, Abandon
    <2>8. ASSUME NEW p \in Proc, ValidateResult(p)
          PROVE  PhaseVouched' /\ CallsVouched'
        <3>1. PICK c : c = [pc |-> "link_result", phase |-> call[p].phase, row |-> call[p].row,
                            ver |-> call[p].ver]
            OBVIOUS
        <3>2. /\ call[p].phase \in Phase /\ call[p].row \in PhaseRow /\ call[p].ver \in Version
              /\ Vouched(phist[call[p].phase], Good, call[p].row)
            BY <2>8, CallAt DEF ValidateResult, CallsVouched, CallVouched, At
        <3>3. Grows /\ UNCHANGED <<phase, phist>>
            BY <1>1, <2>8 DEF ValidateResult, Grows
        <3>4. call[p].ver \in Good'
            <4>1. result'[call[p].ver] = "ready"
                BY <2>8, <3>2 DEF ValidateResult, PhaseTypeOK
            <4> QED  BY <1>2, <3>2, <4>1 DEF CalmNext, Good
        <3>5. c \in Call /\ CallVouched(phist', Good', c) /\ Goto(p, c)
            <4>1. Vouched(phist'[call[p].phase], Good', call[p].row)
                BY <3>2, <3>3, VouchedStays
            <4> QED  BY <2>8, <3>1, <3>2, <3>4, <4>1, CallTypes DEF ValidateResult, CallVouched
        <3> QED  BY <3>3, <3>5, StepVouched
    <2> QED
        BY <1>1, <1>2, <2>1, <2>2, <2>3, <2>4, <2>5, <2>6, <2>7, <2>8, SaveVouched
           DEF Next, CalmNext
  <1>3. ASSUME UNCHANGED calmVars
        PROVE  PhaseVouched' /\ CallsVouched'
      BY <1>3 DEF calmVars, vars, PhaseVouched, CallsVouched, Good
  <1> QED  BY <1>1, <1>2, <1>3

\* Whatever stale save lands, a phase shows only a status recorded for it and a file that
\* was validated for it, still ready unless a local upload overlapped its confirmation.
THEOREM PhasesVouched == CalmSpec => []PhaseVouched
  <1>1. CalmInit => IVouched
      BY InitVouched
  <1>2. IVouched /\ [CalmNext]_calmVars => IVouched'
      BY NextVouched
  <1>3. IVouched => PhaseVouched
      BY DEF IVouched
  <1> QED  BY <1>1, <1>2, <1>3, PTL DEF CalmSpec

=============================================================================
