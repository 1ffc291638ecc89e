-------------------------- MODULE BillingProperties --------------------------
(***************************************************************************)
(* What Billing is checked for, and why its safety properties hold.        *)
(***************************************************************************)
EXTENDS Billing

\* The shape of the rows and of the calls in flight.
BillingTypeOK ==
    /\ quo \in [Quotation -> QStatus \cup {None}]
    /\ qhist \in [Quotation -> SUBSET QStatus]
    /\ ended \subseteq Quotation
    /\ call \in [Proc -> Call]
    /\ inv \in [Invoice -> InvRow \cup {None}]
    /\ paid \in [Invoice -> Nat]
    /\ counter \in Nat
    /\ late \subseteq Invoice

\* No interleaving of payments, cancellations and reads collects more than the
\* invoice is for, shows an invoice as paid before it is, or cancels one that
\* money has been taken for.
BalanceKept ==
    \A i \in Invoice : inv[i] # None =>
        /\ paid[i] <= Total(i)
        /\ inv[i].status = "paid" => paid[i] = Total(i)
        /\ inv[i].status = "cancelled" => paid[i] = 0

\* Invoice numbers run from 1 with no gap and no repetition, whatever calls
\* overlap, fail or roll back.
NumbersGapless ==
    /\ {inv[i].no : i \in {j \in Invoice : inv[j] # None}} = 1..counter
    /\ \A i, j \in Invoice : inv[i] # None /\ inv[j] # None /\ inv[i].no = inv[j].no => i = j

\* A transaction that has passed createFromQuotation's checks still has an
\* accepted quotation without an invoice when it writes: neither an expiry, a
\* status change nor a second click comes between, and the unique indexes are
\* never what stops it.
InvoicedFromAccepted ==
    \A p \in Proc : call[p].pc \in {"number_invoice", "issue_invoice"} =>
        /\ quo[call[p].quo] = "accepted"
        /\ InvoicesOf(call[p].quo) = {}
        /\ call[p].pc = "issue_invoice"
             => \A i \in Invoice : inv[i] # None => inv[i].no # call[p].no

\* Row locks and waits never leave a call hanging.
CallsEnd == \A p \in Proc : []<>(call[p] = Idle)

\* Every status a quotation takes, except by being invoiced, gets its history
\* row, unless a call fails between the two saves.
StatusGetsRecorded ==
    \A q \in Quotation, s \in QStatus \ {"converted"} : quo[q] = s ~> s \in qhist[q]

-----------------------------------------------------------------------------
(* Why the safety properties hold *)

\* Two calls never hold the same quotation, the same invoice or the counter.
LocksExclusive ==
    \A p, r \in Proc : p # r =>
        /\ {call[p].pc, call[r].pc} \subseteq {"number_invoice", "issue_invoice"}
             => call[p].quo # call[r].quo
        /\ {call[p].pc, call[r].pc} \subseteq {"commit_payment", "commit_cancel"}
             => call[p].inv # call[r].inv
        /\ ~(At(p, "issue_invoice") /\ At(r, "issue_invoice"))

\* What a transaction has read under its lock is still so.
Holds(c) ==
    /\ c.pc \in {"number_invoice", "issue_invoice"} =>
          quo[c.quo] = "accepted" /\ InvoicesOf(c.quo) = {}
    /\ c.pc = "issue_invoice" => c.no = counter + 1
    /\ c.pc \in {"commit_payment", "commit_cancel", "mark_overdue"} => inv[c.inv] # None
    /\ c.pc = "commit_payment" => c.sum = paid[c.inv] /\ c.sum + c.amount <= Total(c.inv)
    /\ c.pc = "commit_cancel" => paid[c.inv] = 0

ReadsHold ==
    /\ \A p \in Proc : Holds(call[p])
    /\ \A i \in Invoice : inv[i] = None => paid[i] = 0
=============================================================================
