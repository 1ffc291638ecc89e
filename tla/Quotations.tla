----------------------------- MODULE Quotations -----------------------------
(***************************************************************************)
(* Quotations and their lazy expiry                                        *)
(* (modules/quotations/quotation.service.ts, quotation-status.ts).         *)
(*                                                                         *)
(* A call reads the row, waits, and saves the status it computed; the      *)
(* history row is saved after that, on its own.  Every read of a quotation *)
(* past its expiresAt, whoever asks, saves it as expired.  Raising an      *)
(* invoice locks the row (module Billing): saves wait for it, reads do not.*)
(***************************************************************************)
EXTENDS Naturals, FiniteSets

CONSTANTS
    Quotation,   \* quotation ids
    Proc,        \* calls that can be in flight at once
    None,        \* no row
    Asked,       \* bound: the statuses callers ask for
    HistoryFails \* TRUE when a call may fail before it has saved its history row

VARIABLES
    quo,   \* quotations: id -> status or None (the columns that never change left out)
    qhist, \* quotation_status_history: id -> the statuses its rows move to
    ended, \* quotations whose expiresAt has passed
    call   \* the calls in flight

qvars == <<quo, qhist, ended>>

-----------------------------------------------------------------------------

QStatus == {"draft", "sent", "under_review", "accepted", "rejected", "expired",
            "converted", "cancelled"}

\* FLOW
QFlow == [s \in QStatus |->
    CASE s = "draft"        -> {"sent", "rejected", "cancelled"}
      [] s = "sent"         -> {"under_review", "accepted", "rejected", "expired", "cancelled"}
      [] s = "under_review" -> {"accepted", "rejected", "expired"}
      [] s = "accepted"     -> {"converted"}
      [] OTHER              -> {}]

ASSUME QuotationAssumption == Asked \subseteq QStatus /\ HistoryFails \in BOOLEAN

Idle == [pc |-> "idle"]

QuotationCall ==
    [pc: {"log_first", "get"}, quo: Quotation]
    \cup [pc: {"move", "log_move"}, quo: Quotation, to: QStatus]

At(p, label) == call[p].pc = label

Goto(p, c) == call' = [call EXCEPT ![p] = c]

\* The lock createFromQuotation holds on a quotation until it commits, seen by
\* another call: SELECT ... FOR UPDATE and UPDATE wait for it.
RowLocked_Never(p, q) == FALSE  \* mutant
RowLocked(p, q) ==
    \E r \in Proc \ {p} : call[r].pc \in {"number_invoice", "issue_invoice"} /\ call[r].quo = q

QInit ==
    /\ quo = [q \in Quotation |-> None]
    /\ qhist = [q \in Quotation |-> {}]
    /\ ended = {}

-----------------------------------------------------------------------------

\* create and staffCreate: the row is saved, then its history row, then read back.
CreateQuotation(p, q) ==
    /\ At(p, "idle")
    /\ quo[q] = None
    /\ quo' = [quo EXCEPT ![q] = "draft"]
    /\ Goto(p, [pc |-> "log_first", quo |-> q])
    /\ UNCHANGED <<qhist, ended>>

LogFirst(p) ==
    /\ At(p, "log_first")
    /\ qhist' = [qhist EXCEPT ![call[p].quo] = @ \cup {"draft"}]
    /\ Goto(p, [pc |-> "get", quo |-> call[p].quo])
    /\ UNCHANGED <<quo, ended>>

\* The validity of an offer runs out.
Lapse(q) ==
    /\ quo[q] # None /\ q \notin ended
    /\ ended' = ended \cup {q}
    /\ UNCHANGED <<quo, qhist, call>>

\* expireIfNeeded
Expirable(q) == q \in ended /\ quo[q] # "expired"

\* get, and every row of list: the row is read and, past its validity, is going
\* to be saved as expired.
Read(p, q) ==
    /\ quo[q] # None
    /\ Goto(p, IF Expirable(q) THEN [pc |-> "move", quo |-> q, to |-> "expired"] ELSE Idle)
    /\ UNCHANGED qvars

GetQuotation(p, q) == At(p, "idle") /\ Read(p, q)

\* The read that ends create, staffCreate and transition.
Respond(p) == At(p, "get") /\ Read(p, call[p].quo)

\* transition checks the move on the row it has read.  Past its validity the
\* read has made it expired, from where FLOW allows nothing (GetQuotation).
Transition(p, q, to) ==
    /\ At(p, "idle")
    /\ quo[q] # None /\ ~Expirable(q)
    /\ to \in QFlow[quo[q]]
    /\ Goto(p, [pc |-> "move", quo |-> q, to |-> to])
    /\ UNCHANGED qvars

\* The save; transition and expireIfNeeded overwrite whatever is there.
SaveMove(p) ==
    /\ At(p, "move")
    /\ ~RowLocked(p, call[p].quo)
    /\ quo' = [quo EXCEPT ![call[p].quo] = call[p].to]
    /\ Goto(p, [pc |-> "log_move", quo |-> call[p].quo, to |-> call[p].to])
    /\ UNCHANGED <<qhist, ended>>

\* The history row.  A transition then answers with a fresh read, a read with
\* what it has.
LogMove_ExpiryForgotten(p) ==  \* mutant
    /\ At(p, "log_move")
    /\ qhist' = [qhist EXCEPT ![call[p].quo] = @ \cup ({call[p].to} \ {"expired"})]
    /\ Goto(p, Idle)
    /\ UNCHANGED <<quo, ended>>
LogMove(p) ==
    /\ At(p, "log_move")
    /\ qhist' = [qhist EXCEPT ![call[p].quo] = @ \cup {call[p].to}]
    /\ \/ Goto(p, [pc |-> "get", quo |-> call[p].quo])
       \/ call[p].to = "expired" /\ Goto(p, Idle)
    /\ UNCHANGED <<quo, ended>>

-----------------------------------------------------------------------------

QuotationRequest(p, q) ==
    \/ CreateQuotation(p, q)
    \/ GetQuotation(p, q)
    \/ \E to \in Asked : Transition(p, q, to)

QuotationResume(p) == LogFirst(p) \/ Respond(p) \/ SaveMove(p) \/ LogMove(p)
=============================================================================
