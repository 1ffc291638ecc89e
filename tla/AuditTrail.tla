----------------------------- MODULE AuditTrail -----------------------------
(***************************************************************************)
(* What the status-and-history pairs of this system promise: a row whose   *)
(* status only ever moves together with a history row that names the new   *)
(* status, and a history that is only ever appended to.                    *)
(*                                                                         *)
(* Documents, phases and quotations each keep such a pair; a component     *)
(* implements the promise when its specification refines Spec.  ChainedSpec*)
(* adds that the row's "from" is the status the subject really had.        *)
(***************************************************************************)
EXTENDS Sequences

CONSTANTS Subject,  \* what has a status
          Status,   \* the statuses
          Initial   \* the status a subject has before its first history row

VARIABLES status,   \* Subject -> Status
          log       \* Subject -> sequence of [from, to]

vars == <<status, log>>

Entry == [from: Status, to: Status]

Init == /\ status = [s \in Subject |-> Initial]
        /\ log = [s \in Subject |-> <<>>]

\* One committed change: the entry and the status land together.
Record(s, e) ==
    /\ log' = [log EXCEPT ![s] = Append(@, e)]
    /\ status' = [status EXCEPT ![s] = e.to]

RecordChained(s, e) == e.from = status[s] /\ Record(s, e)

Next == \E s \in Subject, e \in Entry : Record(s, e)

ChainedNext == \E s \in Subject, e \in Entry : RecordChained(s, e)

Spec == Init /\ [][Next]_vars

ChainedSpec == Init /\ [][ChainedNext]_vars
=============================================================================
