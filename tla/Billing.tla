------------------------------- MODULE Billing -------------------------------
(***************************************************************************)
(* Invoices and payments (modules/payments/invoice.service.ts) together    *)
(* with the quotations they are raised from.                               *)
(*                                                                         *)
(* createFromQuotation, recordPayment and cancel are transactions that     *)
(* first lock a row with SELECT ... FOR UPDATE: the locking step and the   *)
(* commit are separate steps, and a save of the same row by another call   *)
(* waits.  applyOverdue, run on every read of an invoice, takes no lock.   *)
(***************************************************************************)
EXTENDS Quotations

CONSTANTS
    Invoice, \* invoice ids
    Price,   \* quotation -> totalPrice in cents, the invoice's subtotal
    Amount   \* the amounts payments are recorded for, in cents

ASSUME MoneyAssumption ==
    /\ Price \in [Quotation -> Nat]
    /\ Amount \subseteq Nat \ {0}

VARIABLES
    inv,     \* invoices: id -> row or None
    paid,    \* payments: id of the invoice -> the sum of its rows
    counter, \* invoice_number_counters: last_number (one year)
    late     \* invoices whose due date is past

vars == <<quo, qhist, ended, call, inv, paid, counter, late>>

ivars == <<inv, paid, counter, late>>

-----------------------------------------------------------------------------

\* draft is declared in the code and given to no invoice.
InvoiceStatus == {"draft", "issued", "partially_paid", "paid", "overdue", "cancelled"}

InvRow == [quo: Quotation, no: Nat \ {0}, status: InvoiceStatus]

ASSUME NoneAssumption == None \notin QStatus \cup InvRow

BillingCall ==
    [pc: {"number_invoice"}, quo: Quotation]
    \cup [pc: {"issue_invoice"}, quo: Quotation, no: Nat \ {0}]
    \cup [pc: {"commit_payment"}, inv: Invoice, sum: Nat, amount: Amount]
    \cup [pc: {"commit_cancel", "mark_overdue"}, inv: Invoice]

Call == {Idle} \cup QuotationCall \cup BillingCall

InvoicesOf(q) == {i \in Invoice : inv[i] # None /\ inv[i].quo = q}

Total(i) == Price[inv[i].quo]

\* The row lock recordPayment and cancel hold until they commit.
InvoiceLocked_Own(p, i) ==  \* mutant
    \E r \in Proc : call[r].pc \in {"commit_payment", "commit_cancel"} /\ call[r].inv = i
InvoiceLocked_Never(p, i) == FALSE  \* mutant
InvoiceLocked(p, i) ==
    \E r \in Proc \ {p} : call[r].pc \in {"commit_payment", "commit_cancel"} /\ call[r].inv = i

\* The counter row stays locked from its upsert to the commit.
CounterLocked(p) == \E r \in Proc \ {p} : At(r, "issue_invoice")

Init ==
    /\ QInit
    /\ call = [p \in Proc |-> Idle]
    /\ inv = [i \in Invoice |-> None]
    /\ paid = [i \in Invoice |-> 0]
    /\ counter = 0
    /\ late = {}

-----------------------------------------------------------------------------
(* createFromQuotation *)

\* The quotation row is locked, read and checked.
BeginInvoice(p, q) ==
    /\ At(p, "idle")
    /\ ~RowLocked(p, q)
    /\ quo[q] = "accepted"
    /\ InvoicesOf(q) = {}
    /\ Goto(p, [pc |-> "number_invoice", quo |-> q])
    /\ UNCHANGED <<qvars, ivars>>

\* The counter is bumped inside the transaction: a rollback takes the number back.
NumberInvoice_OwnTransaction(p) ==  \* mutant
    /\ At(p, "number_invoice")
    /\ ~CounterLocked(p)
    /\ counter' = counter + 1
    /\ Goto(p, [pc |-> "issue_invoice", quo |-> call[p].quo, no |-> counter + 1])
    /\ UNCHANGED <<qvars, inv, paid, late>>
NumberInvoice_FromZero(p) ==  \* mutant
    /\ At(p, "number_invoice")
    /\ ~CounterLocked(p)
    /\ Goto(p, [pc |-> "issue_invoice", quo |-> call[p].quo, no |-> counter])
    /\ UNCHANGED <<qvars, ivars>>
NumberInvoice(p) ==
    /\ At(p, "number_invoice")
    /\ ~CounterLocked(p)
    /\ Goto(p, [pc |-> "issue_invoice", quo |-> call[p].quo, no |-> counter + 1])
    /\ UNCHANGED <<qvars, ivars>>

\* Commit: counter, invoice and converted quotation together, no history row.
\* Both quotation_id and invoice_number have unique indexes.
IssueInvoice(p, i) ==
    /\ At(p, "issue_invoice")
    /\ inv[i] = None
    /\ InvoicesOf(call[p].quo) = {}
    /\ \A j \in Invoice : inv[j] # None => inv[j].no # call[p].no
    /\ counter' = call[p].no
    /\ inv' = [inv EXCEPT ![i] = [quo |-> call[p].quo, no |-> call[p].no, status |-> "issued"]]
    /\ quo' = [quo EXCEPT ![call[p].quo] = "converted"]
    /\ Goto(p, Idle)
    /\ UNCHANGED <<qhist, ended, paid, late>>

-----------------------------------------------------------------------------
(* Reads of an invoice, and the due date *)

FallDue(i) ==
    /\ inv[i] # None /\ i \notin late
    /\ late' = late \cup {i}
    /\ UNCHANGED <<qvars, call, inv, paid, counter>>

\* applyOverdue, behind getAdmin, getCustomer, listAdmin and listCustomer (any
\* other read changes nothing) ...
ReadInvoice(p, i) ==
    /\ At(p, "idle")
    /\ inv[i] # None
    /\ i \in late /\ inv[i].status \in {"issued", "partially_paid"}
    /\ Goto(p, [pc |-> "mark_overdue", inv |-> i])
    /\ UNCHANGED <<qvars, ivars>>

SetStatus(i, s) == inv' = [inv EXCEPT ![i].status = s]

\* ... saves the row it has read as overdue.
MarkOverdue(p) ==
    /\ At(p, "mark_overdue")
    /\ ~InvoiceLocked(p, call[p].inv)
    /\ SetStatus(call[p].inv, "overdue")
    /\ Goto(p, Idle)
    /\ UNCHANGED <<qvars, paid, counter, late>>

-----------------------------------------------------------------------------
(* recordPayment and cancel *)

\* The invoice is locked, its payments are read and the balance is checked.
BeginPayment(p, i, amount) ==
    /\ At(p, "idle")
    /\ inv[i] # None
    /\ ~InvoiceLocked(p, i)
    /\ inv[i].status \notin {"paid", "cancelled", "draft"}
    /\ amount <= Total(i) - paid[i]
    /\ Goto(p, [pc |-> "commit_payment", inv |-> i, sum |-> paid[i], amount |-> amount])
    /\ UNCHANGED <<qvars, ivars>>

\* A payment row, and the status from the payments as they were read.  The lock
\* is the call's own: its saves go through the transaction that holds it.
CommitPayment(p) ==
    /\ At(p, "commit_payment")
    /\ ~InvoiceLocked(p, call[p].inv)
    /\ LET c == call[p]
       IN  /\ paid' = [paid EXCEPT ![c.inv] = @ + c.amount]
           /\ SetStatus(c.inv, IF c.sum + c.amount = Total(c.inv) THEN "paid" ELSE "partially_paid")
    /\ Goto(p, Idle)
    /\ UNCHANGED <<qvars, counter, late>>

\* A cancellation refuses an invoice that has payments.
BeginCancel(p, i) ==
    /\ At(p, "idle")
    /\ inv[i] # None
    /\ ~InvoiceLocked(p, i)
    /\ paid[i] = 0
    /\ inv[i].status \notin {"paid", "cancelled"}
    /\ Goto(p, [pc |-> "commit_cancel", inv |-> i])
    /\ UNCHANGED <<qvars, ivars>>

CommitCancel(p) ==
    /\ At(p, "commit_cancel")
    /\ ~InvoiceLocked(p, call[p].inv)
    /\ SetStatus(call[p].inv, "cancelled")
    /\ Goto(p, Idle)
    /\ UNCHANGED <<qvars, paid, counter, late>>

\* A call that fails or dies: a transaction is rolled back, a save already made
\* stays.  A quotation's history row is lost only when HistoryFails.
Abandon(p) ==
    /\ call[p] # Idle
    /\ At(p, "log_first") \/ At(p, "log_move") => HistoryFails
    /\ Goto(p, Idle)
    /\ UNCHANGED <<qvars, ivars>>

-----------------------------------------------------------------------------

Request(p) ==
    \/ \E q \in Quotation : QuotationRequest(p, q) /\ UNCHANGED ivars
    \/ \E q \in Quotation : BeginInvoice(p, q)
    \/ \E i \in Invoice : \/ ReadInvoice(p, i)
                          \/ \E amount \in Amount : BeginPayment(p, i, amount)
                          \/ BeginCancel(p, i)

Resume(p) ==
    \/ QuotationResume(p) /\ UNCHANGED ivars
    \/ NumberInvoice(p)
    \/ \E i \in Invoice : IssueInvoice(p, i)
    \/ MarkOverdue(p)
    \/ CommitPayment(p)
    \/ CommitCancel(p)

Next ==
    \/ \E p \in Proc : Request(p) \/ Resume(p) \/ Abandon(p)
    \/ (\E q \in Quotation : Lapse(q)) /\ UNCHANGED ivars
    \/ \E i \in Invoice : FallDue(i)

Spec == Init /\ [][Next]_vars

\* The database runs what it is sent, and waiters get a row lock in turn.
Fairness == \A p \in Proc : SF_vars(Resume(p))

FairSpec == Spec /\ Fairness
=============================================================================
