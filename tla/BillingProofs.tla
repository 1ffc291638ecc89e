---------------------------- MODULE BillingProofs ----------------------------
(***************************************************************************)
(* What Billing does for every set of quotations, invoices, prices,        *)
(* amounts and overlapping calls.                                          *)
(***************************************************************************)
EXTENDS BillingProperties, TLAPS

\* What a call of each label holds.
LEMMA CallAt ==
    ASSUME BillingTypeOK, NEW p \in Proc
    PROVE  /\ call[p].pc \in {"log_first", "get", "move", "log_move", "number_invoice", "issue_invoice"}
                => call[p].quo \in Quotation
           /\ call[p].pc \in {"move", "log_move"} => call[p].to \in QStatus
           /\ At(p, "issue_invoice") => call[p].no \in Nat \ {0}
           /\ call[p].pc \in {"commit_payment", "commit_cancel", "mark_overdue"}
                => call[p].inv \in Invoice
           /\ At(p, "commit_payment") => call[p].sum \in Nat /\ call[p].amount \in Amount
  <1> call[p] \in Call
      BY DEF BillingTypeOK
  <1> QED  BY DEF Call, QuotationCall, BillingCall, At, Idle

LEMMA CallTypes ==
    /\ Idle \in Call
    /\ \A q \in Quotation : /\ [pc |-> "log_first", quo |-> q] \in Call
                            /\ [pc |-> "get", quo |-> q] \in Call
                            /\ [pc |-> "number_invoice", quo |-> q] \in Call
    /\ \A q \in Quotation, s \in QStatus : /\ [pc |-> "move", quo |-> q, to |-> s] \in Call
                                           /\ [pc |-> "log_move", quo |-> q, to |-> s] \in Call
    /\ \A q \in Quotation, n \in Nat \ {0} : [pc |-> "issue_invoice", quo |-> q, no |-> n] \in Call
    /\ \A i \in Invoice : /\ [pc |-> "commit_cancel", inv |-> i] \in Call
                          /\ [pc |-> "mark_overdue", inv |-> i] \in Call
    /\ \A i \in Invoice, n \in Nat, a \in Amount :
          [pc |-> "commit_payment", inv |-> i, sum |-> n, amount |-> a] \in Call
  BY DEF Call, QuotationCall, BillingCall

\* A row whose status is set stays a row, of the same quotation and number.
LEMMA StatusSet ==
    ASSUME NEW x \in InvRow, NEW s \in InvoiceStatus
    PROVE  /\ [x EXCEPT !.status = s] \in InvRow
           /\ [x EXCEPT !.status = s].quo = x.quo
           /\ [x EXCEPT !.status = s].no = x.no
           /\ [x EXCEPT !.status = s].status = s
  BY DEF InvRow

LEMMA GotoType ==
    ASSUME BillingTypeOK, NEW p \in Proc, NEW c \in Call, Goto(p, c)
    PROVE  call' \in [Proc -> Call]
  BY DEF BillingTypeOK, Goto

\* Setting the status of an invoice that exists.
LEMMA SetStatusType ==
    ASSUME BillingTypeOK, NEW i \in Invoice, inv[i] # None, NEW s \in InvoiceStatus, SetStatus(i, s)
    PROVE  /\ inv' \in [Invoice -> InvRow \cup {None}]
           /\ \A j \in Invoice : /\ inv'[j] = None <=> inv[j] = None
                                 /\ inv[j] # None => inv'[j].quo = inv[j].quo /\ inv'[j].no = inv[j].no
                                 /\ j # i => inv'[j] = inv[j]
           /\ inv'[i].status = s
  <1>1. inv[i] \in InvRow /\ [inv[i] EXCEPT !.status = s] # None
        BY StatusSet, NoneAssumption DEF BillingTypeOK
  <1> QED  BY <1>1, StatusSet DEF SetStatus, BillingTypeOK

LEMMA InitType == Init => BillingTypeOK
  BY CallTypes DEF Init, QInit, BillingTypeOK

\* Calls that start: quotations first.
LEMMA QuotationRequestType ==
    ASSUME BillingTypeOK, NEW p \in Proc, NEW q \in Quotation, QuotationRequest(p, q), UNCHANGED ivars
    PROVE  BillingTypeOK'
  <1> USE CallTypes, GotoType
  <1>1. CASE CreateQuotation(p, q)
        BY <1>1 DEF CreateQuotation, BillingTypeOK, ivars, QStatus
  <1>2. CASE GetQuotation(p, q)
    <2>1. "expired" \in QStatus
          BY DEF QStatus
    <2> QED  BY <1>2, <2>1 DEF GetQuotation, Read, BillingTypeOK, ivars, qvars
  <1>3. ASSUME NEW to \in Asked, Transition(p, q, to)
        PROVE  BillingTypeOK'
    <2>1. to \in QStatus
          BY QuotationAssumption
    <2> QED  BY <1>3, <2>1 DEF Transition, BillingTypeOK, ivars, qvars
  <1> QED  BY <1>1, <1>2, <1>3 DEF QuotationRequest

LEMMA RequestType ==
    ASSUME BillingTypeOK, NEW p \in Proc, Request(p)
    PROVE  BillingTypeOK'
  <1> USE CallTypes, GotoType
  <1>1. ASSUME NEW q \in Quotation, BeginInvoice(p, q)
        PROVE  BillingTypeOK'
        BY <1>1 DEF BeginInvoice, BillingTypeOK, ivars, qvars
  <1>2. ASSUME NEW i \in Invoice, ReadInvoice(p, i)
        PROVE  BillingTypeOK'
        BY <1>2 DEF ReadInvoice, BillingTypeOK, ivars, qvars
  <1>3. ASSUME NEW i \in Invoice, NEW a \in Amount, BeginPayment(p, i, a)
        PROVE  BillingTypeOK'
    <2>1. paid[i] \in Nat
          BY DEF BillingTypeOK
    <2> QED  BY <1>3, <2>1 DEF BeginPayment, BillingTypeOK, ivars, qvars
  <1>4. ASSUME NEW i \in Invoice, BeginCancel(p, i)
        PROVE  BillingTypeOK'
        BY <1>4 DEF BeginCancel, BillingTypeOK, ivars, qvars
  <1> QED  BY <1>1, <1>2, <1>3, <1>4, QuotationRequestType DEF Request

\* Calls that go on.
LEMMA QuotationResumeType ==
    ASSUME BillingTypeOK, NEW p \in Proc, QuotationResume(p), UNCHANGED ivars
    PROVE  BillingTypeOK'
  <1> USE CallTypes, GotoType, CallAt
  <1> "expired" \in QStatus /\ "draft" \in QStatus
      BY DEF QStatus
  <1>1. CASE LogFirst(p)
        BY <1>1 DEF LogFirst, At, BillingTypeOK, ivars
  <1>2. CASE Respond(p)
        BY <1>2 DEF Respond, Read, At, BillingTypeOK, ivars, qvars
  <1>3. CASE SaveMove(p)
        BY <1>3 DEF SaveMove, At, BillingTypeOK, ivars
  <1>4. CASE LogMove(p)
        BY <1>4 DEF LogMove, At, BillingTypeOK, ivars
  <1> QED  BY <1>1, <1>2, <1>3, <1>4 DEF QuotationResume

LEMMA ResumeType ==
    ASSUME BillingTypeOK, ReadsHold, NEW p \in Proc, Resume(p)
    PROVE  BillingTypeOK'
  <1> USE CallTypes, GotoType, CallAt
  <1>1. CASE NumberInvoice(p)
        BY <1>1 DEF NumberInvoice, At, BillingTypeOK, ivars, qvars
  <1>2. ASSUME NEW i \in Invoice, IssueInvoice(p, i)
        PROVE  BillingTypeOK'
    <2>1. /\ call[p].quo \in Quotation /\ call[p].no \in Nat \ {0}
          /\ call' \in [Proc -> Call]
          BY <1>2 DEF IssueInvoice, At
    <2>2. [quo |-> call[p].quo, no |-> call[p].no, status |-> "issued"] \in InvRow
          BY <2>1 DEF InvRow, InvoiceStatus
    <2> QED  BY <1>2, <2>1, <2>2 DEF IssueInvoice, BillingTypeOK, QStatus
  <1>0. call[p].pc \in {"commit_payment", "commit_cancel", "mark_overdue"}
          => call[p].inv \in Invoice /\ inv[call[p].inv] # None
        BY DEF ReadsHold, Holds
  <1>3. CASE MarkOverdue(p)
    <2>1. inv' \in [Invoice -> InvRow \cup {None}]
          BY <1>3, <1>0, SetStatusType DEF MarkOverdue, At, InvoiceStatus
    <2> QED  BY <1>3, <2>1 DEF MarkOverdue, BillingTypeOK, qvars
  <1>4. CASE CommitPayment(p)
    <2>1. call[p].inv \in Invoice /\ call[p].amount \in Nat
          BY <1>4, MoneyAssumption DEF CommitPayment, At
    <2>2. inv' \in [Invoice -> InvRow \cup {None}]
      <3>1. ASSUME NEW s \in {"paid", "partially_paid"}, SetStatus(call[p].inv, s)
            PROVE  inv' \in [Invoice -> InvRow \cup {None}]
            BY <1>4, <1>0, <3>1, SetStatusType DEF CommitPayment, At, InvoiceStatus
      <3> QED  BY <1>4, <3>1 DEF CommitPayment
    <2>3. paid' \in [Invoice -> Nat]
      <3>1. paid[call[p].inv] + call[p].amount \in Nat
            BY <2>1 DEF BillingTypeOK
      <3> QED  BY <1>4, <2>1, <3>1 DEF CommitPayment, BillingTypeOK
    <2> QED  BY <1>4, <2>2, <2>3 DEF CommitPayment, BillingTypeOK, qvars
  <1>5. CASE CommitCancel(p)
    <2>1. inv' \in [Invoice -> InvRow \cup {None}]
          BY <1>5, <1>0, SetStatusType DEF CommitCancel, At, InvoiceStatus
    <2> QED  BY <1>5, <2>1 DEF CommitCancel, BillingTypeOK, qvars
  <1> QED  BY <1>1, <1>2, <1>3, <1>4, <1>5, QuotationResumeType DEF Resume

LEMMA NextType ==
    ASSUME BillingTypeOK, ReadsHold, [Next]_vars
    PROVE  BillingTypeOK'
  <1>1. ASSUME NEW p \in Proc, Abandon(p)
        PROVE  BillingTypeOK'
        BY <1>1, CallTypes, GotoType DEF Abandon, BillingTypeOK, qvars, ivars
  <1>2. ASSUME NEW q \in Quotation, Lapse(q), UNCHANGED ivars
        PROVE  BillingTypeOK'
        BY <1>2 DEF Lapse, BillingTypeOK, ivars
  <1>3. ASSUME NEW i \in Invoice, FallDue(i)
        PROVE  BillingTypeOK'
        BY <1>3 DEF FallDue, BillingTypeOK, qvars
  <1>4. CASE UNCHANGED vars
        BY <1>4 DEF vars, BillingTypeOK
  <1> QED  BY <1>1, <1>2, <1>3, <1>4, RequestType, ResumeType DEF Next

-----------------------------------------------------------------------------
(* Locks, and what is read under them *)

\* Two calls that may be in flight together.
Compatible(c, d) ==
    /\ {c.pc, d.pc} \subseteq {"number_invoice", "issue_invoice"} => c.quo # d.quo
    /\ {c.pc, d.pc} \subseteq {"commit_payment", "commit_cancel"} => c.inv # d.inv
    /\ ~(c.pc = "issue_invoice" /\ d.pc = "issue_invoice")

Safe == BillingTypeOK /\ LocksExclusive /\ ReadsHold /\ BalanceKept /\ NumbersGapless

\* A step of p keeps the locks apart when what p goes on to holds no row of
\* another call.
LEMMA GotoLocks ==
    ASSUME BillingTypeOK, LocksExclusive, NEW p \in Proc, NEW c \in Call, Goto(p, c),
           \A r \in Proc \ {p} : Compatible(c, call[r])
    PROVE  LocksExclusive'
  <1>1. \A r \in Proc : call'[r] = IF r = p THEN c ELSE call[r]
        BY DEF Goto, BillingTypeOK
  <1>2. \A a, b \in Proc : a # b => Compatible(call'[a], call'[b])
    <2>1. \A a, b \in Proc : a # b => Compatible(call[a], call[b])
          BY DEF LocksExclusive, Compatible, At
    <2>2. \A d \in Call : Compatible(c, d) => Compatible(d, c)
          BY DEF Compatible
    <2>3. \A r \in Proc : call[r] \in Call
          BY DEF BillingTypeOK
    <2> QED  BY <1>1, <2>1, <2>2, <2>3
  <1> QED  BY <1>2 DEF LocksExclusive, Compatible, At

\* A step that only changes what p is doing.
LEMMA GotoSafe ==
    ASSUME Safe, BillingTypeOK', NEW p \in Proc, NEW c \in Call, Goto(p, c), Holds(c),
           \A r \in Proc \ {p} : Compatible(c, call[r]),
           UNCHANGED <<quo, inv, paid, counter>>
    PROVE  Safe'
  <1>1. LocksExclusive'
        BY GotoLocks DEF Safe
  <1>2. ReadsHold'
    <2>1. \A r \in Proc : call'[r] = c \/ call'[r] = call[r]
          BY DEF Goto, Safe, BillingTypeOK
    <2> QED  BY <2>1 DEF Safe, ReadsHold, Holds, InvoicesOf, Total
  <1>3. BalanceKept' /\ NumbersGapless'
        BY DEF Safe, BalanceKept, NumbersGapless, Total
  <1> QED  BY <1>1, <1>2, <1>3 DEF Safe

\* Labels that hold no lock and rely on no row.
FreeLabel == {"idle", "log_first", "get", "move", "log_move"}

LEMMA FreeCall ==
    ASSUME NEW c, c.pc \in FreeLabel
    PROVE  Holds(c) /\ \A d : Compatible(c, d)
  BY DEF FreeLabel, Holds, Compatible

LEMMA FreeSafe ==
    ASSUME Safe, BillingTypeOK', NEW p \in Proc, NEW c \in Call, Goto(p, c), c.pc \in FreeLabel,
           UNCHANGED <<quo, inv, paid, counter>>
    PROVE  Safe'
  BY FreeCall, GotoSafe

LEMMA ReadSafe ==
    ASSUME Safe, BillingTypeOK', NEW p \in Proc, NEW q \in Quotation, Read(p, q), UNCHANGED ivars
    PROVE  Safe'
  <1>1. UNCHANGED <<quo, inv, paid, counter>>
        BY DEF Read, qvars, ivars
  <1>2. CASE Goto(p, [pc |-> "move", quo |-> q, to |-> "expired"])
    <2>1. [pc |-> "move", quo |-> q, to |-> "expired"] \in Call
          BY CallTypes DEF QStatus
    <2> QED  BY <1>1, <1>2, <2>1, FreeSafe DEF FreeLabel
  <1>3. CASE Goto(p, Idle)
        BY <1>1, <1>3, CallTypes, FreeSafe DEF FreeLabel, Idle
  <1> QED  BY <1>2, <1>3 DEF Read

LEMMA QuotationRequestSafe ==
    ASSUME Safe, BillingTypeOK', NEW p \in Proc, NEW q \in Quotation,
           QuotationRequest(p, q), UNCHANGED ivars
    PROVE  Safe'
  <1> USE CallTypes
  <1>1. CASE CreateQuotation(p, q)
    <2> DEFINE c == [pc |-> "log_first", quo |-> q]
    <2>0. c.pc \in FreeLabel
          BY DEF FreeLabel
    <2>1. quo[q] # "accepted"
          BY <1>1, NoneAssumption DEF CreateQuotation, QStatus
    <2>2. LocksExclusive'
          BY <1>1, <2>0, FreeCall, GotoLocks DEF CreateQuotation, Safe
    <2>3. ReadsHold'
      <3>1. \A r \in Proc : call'[r] = [pc |-> "log_first", quo |-> q] \/ call'[r] = call[r]
            BY <1>1 DEF CreateQuotation, Goto, Safe, BillingTypeOK
      <3>2. \A r \in Proc : Holds(call[r])'
        <4> TAKE r \in Proc
        <4>1. CASE call'[r] = call[r]
              BY <1>1, <2>1, <4>1 DEF CreateQuotation, ivars, Safe, BillingTypeOK, ReadsHold, Holds,
                                      InvoicesOf, Total
        <4>2. CASE call'[r] = [pc |-> "log_first", quo |-> q]
              BY <4>2 DEF Holds
        <4> QED  BY <3>1, <4>1, <4>2
      <3> QED  BY <3>2 DEF ivars, Safe, ReadsHold
    <2>4. BalanceKept' /\ NumbersGapless'
          BY DEF ivars, Safe, BalanceKept, NumbersGapless, Total
    <2> QED  BY <2>2, <2>3, <2>4 DEF Safe
  <1>2. CASE GetQuotation(p, q)
    <2> QED  BY <1>2, ReadSafe DEF GetQuotation
  <1>3. ASSUME NEW to \in Asked, Transition(p, q, to)
        PROVE  Safe'
    <2> DEFINE c == [pc |-> "move", quo |-> q, to |-> to]
    <2>1. c \in Call /\ c.pc \in FreeLabel
          BY QuotationAssumption DEF FreeLabel
    <2>2. Goto(p, c) /\ UNCHANGED <<quo, inv, paid, counter>>
          BY <1>3 DEF Transition, qvars, ivars
    <2> QED  BY <2>1, <2>2, FreeSafe
  <1> QED  BY <1>1, <1>2, <1>3 DEF QuotationRequest

LEMMA RequestSafe ==
    ASSUME Safe, BillingTypeOK', NEW p \in Proc, Request(p)
    PROVE  Safe'
  <1> USE CallTypes, GotoSafe
  <1>1. ASSUME NEW q \in Quotation, BeginInvoice(p, q)
        PROVE  Safe'
    <2> DEFINE c == [pc |-> "number_invoice", quo |-> q]
    <2>1. \A r \in Proc \ {p} : Compatible(c, call[r])
          BY <1>1 DEF BeginInvoice, RowLocked, Compatible
    <2>2. Holds(c)
          BY <1>1 DEF BeginInvoice, Holds
    <2> QED  BY <1>1, <2>1, <2>2 DEF BeginInvoice, qvars, ivars
  <1>2. ASSUME NEW i \in Invoice, ReadInvoice(p, i)
        PROVE  Safe'
    <2> DEFINE c == [pc |-> "mark_overdue", inv |-> i]
    <2>1. Holds(c) /\ \A r \in Proc \ {p} : Compatible(c, call[r])
          BY <1>2 DEF ReadInvoice, Holds, Compatible
    <2> QED  BY <1>2, <2>1 DEF ReadInvoice, qvars, ivars
  <1>3. ASSUME NEW i \in Invoice, NEW a \in Amount, BeginPayment(p, i, a)
        PROVE  Safe'
    <2> DEFINE c == [pc |-> "commit_payment", inv |-> i, sum |-> paid[i], amount |-> a]
    <2>1. \A r \in Proc \ {p} : Compatible(c, call[r])
          BY <1>3 DEF BeginPayment, InvoiceLocked, Compatible
    <2>2. paid[i] \in Nat /\ a \in Nat /\ Total(i) \in Nat
          BY <1>3, MoneyAssumption DEF BeginPayment, Total, Safe, BillingTypeOK, InvRow
    <2>3. Holds(c)
          BY <1>3, <2>2 DEF BeginPayment, Holds
    <2> QED  BY <1>3, <2>1, <2>2, <2>3 DEF BeginPayment, qvars, ivars
  <1>4. ASSUME NEW i \in Invoice, BeginCancel(p, i)
        PROVE  Safe'
    <2> DEFINE c == [pc |-> "commit_cancel", inv |-> i]
    <2>1. Holds(c) /\ \A r \in Proc \ {p} : Compatible(c, call[r])
          BY <1>4 DEF BeginCancel, InvoiceLocked, Holds, Compatible
    <2> QED  BY <1>4, <2>1 DEF BeginCancel, qvars, ivars
  <1> QED  BY <1>1, <1>2, <1>3, <1>4, QuotationRequestSafe DEF Request

\* A save of a quotation no other call has locked.
LEMMA SaveMoveSafe ==
    ASSUME Safe, BillingTypeOK', NEW p \in Proc, SaveMove(p), UNCHANGED ivars
    PROVE  Safe'
  <1> DEFINE q == call[p].quo
             c == [pc |-> "log_move", quo |-> q, to |-> call[p].to]
  <1>1. /\ c \in Call /\ Goto(p, c) /\ c.pc \in FreeLabel
        /\ q \in Quotation
        BY CallTypes, CallAt DEF SaveMove, At, FreeLabel, Safe
  <1>2. LocksExclusive'
        BY <1>1, FreeCall, GotoLocks DEF Safe
  <1>3. ReadsHold'
    <2>1. \A r \in Proc : call'[r] = IF r = p THEN c ELSE call[r]
          BY <1>1 DEF Goto, Safe, BillingTypeOK
    <2>2. ASSUME NEW r \in Proc, r # p
          PROVE  Holds(call[r])'
      <3>1. call[r].pc \in {"number_invoice", "issue_invoice"} => call[r].quo # q
            BY <2>2 DEF SaveMove, RowLocked
      <3>2. \A x \in Quotation \ {q} : quo'[x] = quo[x]
            BY <1>1 DEF SaveMove, Safe, BillingTypeOK
      <3>3. call'[r] = call[r]
            BY <2>1, <2>2
      <3> QED  BY <3>1, <3>2, <3>3, CallAt DEF ivars, Safe, ReadsHold, Holds, InvoicesOf, Total
    <2>3. Holds(call[p])'
          BY <2>1 DEF Holds
    <2> QED  BY <2>2, <2>3 DEF ivars, Safe, ReadsHold
  <1>4. BalanceKept' /\ NumbersGapless'
        BY DEF ivars, Safe, BalanceKept, NumbersGapless, Total
  <1> QED  BY <1>2, <1>3, <1>4 DEF Safe

\* A commit that writes one existing invoice i, of which no other call has the
\* lock: the others' reads still hold.
LEMMA CommitKeeps ==
    ASSUME Safe, BillingTypeOK', NEW p \in Proc, NEW i \in Invoice, inv[i] # None,
           NEW s \in InvoiceStatus, SetStatus(i, s), Goto(p, Idle), ~InvoiceLocked(p, i),
           \A j \in Invoice \ {i} : paid'[j] = paid[j],
           UNCHANGED <<quo, counter>>,
           /\ paid'[i] <= Total(i)
           /\ s = "paid" => paid'[i] = Total(i)
           /\ s = "cancelled" => paid'[i] = 0
    PROVE  Safe'
  <1>1. /\ \A j \in Invoice : /\ inv'[j] = None <=> inv[j] = None
                              /\ inv[j] # None => inv'[j].quo = inv[j].quo /\ inv'[j].no = inv[j].no
                              /\ j # i => inv'[j] = inv[j]
        /\ inv'[i].status = s
        BY SetStatusType DEF Safe
  <1>2. LocksExclusive'
        BY CallTypes, FreeCall, GotoLocks DEF Safe, FreeLabel, Idle
  <1>3. \A j \in Invoice : inv[j] # None => Total(j)' = Total(j)
        BY <1>1 DEF Total
  <1>4. \A q \in Quotation : InvoicesOf(q)' = InvoicesOf(q)
        BY <1>1 DEF InvoicesOf
  <1>5. ReadsHold'
    <2>1. \A r \in Proc : call'[r] = IF r = p THEN Idle ELSE call[r]
          BY DEF Goto, Safe, BillingTypeOK
    <2>2. ASSUME NEW r \in Proc, r # p
          PROVE  Holds(call[r])'
      <3>1. call[r].pc \in {"commit_payment", "commit_cancel"} => call[r].inv # i
            BY <2>2 DEF InvoiceLocked
      <3>2. Holds(call[r]) /\ call'[r] = call[r]
            BY <2>1, <2>2 DEF Safe, ReadsHold
      <3>3. call[r].pc = "commit_payment"
              => paid'[call[r].inv] = paid[call[r].inv] /\ Total(call[r].inv)' = Total(call[r].inv)
            BY <3>1, <3>2, <1>3, CallAt DEF Safe, At, Holds
      <3>4. call[r].pc = "commit_cancel" => paid'[call[r].inv] = paid[call[r].inv]
            BY <3>1, CallAt DEF Safe
      <3>5. call[r].pc \in {"commit_payment", "commit_cancel", "mark_overdue"} => inv'[call[r].inv] # None
            BY <3>2, <1>1, CallAt DEF Safe, Holds
      <3>6. call[r].pc \in {"number_invoice", "issue_invoice"}
              => InvoicesOf(call[r].quo)' = InvoicesOf(call[r].quo)
            BY <3>2, <1>4, CallAt DEF Safe, InvoicesOf
      <3> QED  BY <3>2, <3>3, <3>4, <3>5, <3>6 DEF Holds
    <2>3. Holds(call[p])'
          BY <2>1 DEF Holds, Idle
    <2>4. \A j \in Invoice : inv'[j] = None => paid'[j] = 0
          BY <1>1 DEF Safe, ReadsHold
    <2> QED  BY <2>2, <2>3, <2>4 DEF ReadsHold
  <1>6. BalanceKept'
    <2>1. ASSUME NEW j \in Invoice, inv'[j] # None
          PROVE  /\ paid'[j] <= Total(j)'
                 /\ inv'[j].status = "paid" => paid'[j] = Total(j)'
                 /\ inv'[j].status = "cancelled" => paid'[j] = 0
      <3>1. CASE j = i
            BY <3>1, <1>1, <1>3
      <3>2. CASE j # i
            BY <2>1, <3>2, <1>1, <1>3 DEF Safe, BalanceKept
      <3> QED  BY <3>1, <3>2
    <2> QED  BY <2>1 DEF BalanceKept
  <1>7. NumbersGapless'
        BY <1>1 DEF Safe, NumbersGapless
  <1> QED  BY <1>2, <1>5, <1>6, <1>7 DEF Safe

\* A new invoice takes the number after the last and the quotation it locks.
LEMMA IssueSafe ==
    ASSUME Safe, BillingTypeOK', NEW p \in Proc, NEW i \in Invoice, IssueInvoice(p, i)
    PROVE  Safe'
  <1> DEFINE q == call[p].quo
             row == [quo |-> q, no |-> call[p].no, status |-> "issued"]
  <1>1. /\ q \in Quotation /\ call[p].no = counter + 1 /\ counter' = counter + 1
        /\ inv[i] = None /\ paid[i] = 0 /\ counter \in Nat
        BY CallAt DEF IssueInvoice, At, Safe, ReadsHold, Holds, BillingTypeOK
  <1>2. \A j \in Invoice : inv'[j] = IF j = i THEN row ELSE inv[j]
        BY DEF IssueInvoice, Safe, BillingTypeOK
  <1>3. row # None
    <2>1. row \in InvRow
          BY CallAt DEF IssueInvoice, At, Safe, InvRow, InvoiceStatus
    <2> QED  BY <2>1, NoneAssumption
  <1>4. LocksExclusive'
        BY CallTypes, FreeCall, GotoLocks DEF Safe, FreeLabel, Idle, IssueInvoice
  <1>5. ReadsHold'
    <2>1. \A r \in Proc : call'[r] = IF r = p THEN Idle ELSE call[r]
          BY DEF IssueInvoice, Goto, Safe, BillingTypeOK
    <2>2. ASSUME NEW r \in Proc, r # p
          PROVE  Holds(call[r])'
      <3>1. /\ call[r].pc \in {"number_invoice", "issue_invoice"} => call[r].quo # q
            /\ call[r].pc # "issue_invoice"
            BY <2>2 DEF Safe, LocksExclusive, IssueInvoice, At
      <3>2. Holds(call[r]) /\ call'[r] = call[r]
            BY <2>1, <2>2 DEF Safe, ReadsHold
      <3>3. call[r].pc = "number_invoice"
              => quo'[call[r].quo] = quo[call[r].quo] /\ InvoicesOf(call[r].quo)' = {}
            BY <3>1, <3>2, <1>2, <1>3, CallAt DEF IssueInvoice, Safe, BillingTypeOK, Holds, InvoicesOf
      <3>4. call[r].pc \in {"commit_payment", "commit_cancel", "mark_overdue"}
              => /\ inv[call[r].inv] # None /\ inv'[call[r].inv] = inv[call[r].inv]
                 /\ paid'[call[r].inv] = paid[call[r].inv]
            BY <3>2, <1>1, <1>2, CallAt DEF Safe, Holds, IssueInvoice
      <3> QED  BY <3>1, <3>2, <3>3, <3>4 DEF Holds, Total
    <2>3. Holds(call[p])'
          BY <2>1 DEF Holds, Idle
    <2>4. \A j \in Invoice : inv'[j] = None => paid'[j] = 0
          BY <1>2, <1>3 DEF Safe, ReadsHold, IssueInvoice
    <2> QED  BY <2>2, <2>3, <2>4 DEF ReadsHold
  <1>6. BalanceKept'
    <2>1. Price[q] \in Nat
          BY <1>1, MoneyAssumption
    <2> QED  BY <1>1, <1>2, <2>1 DEF Safe, BalanceKept, Total, IssueInvoice
  <1>7. NumbersGapless'
    <2>1. {inv'[j].no : j \in {k \in Invoice : inv'[k] # None}}
            = {inv[j].no : j \in {k \in Invoice : inv[k] # None}} \cup {counter + 1}
          BY <1>1, <1>2, <1>3
    <2>2. 1..(counter + 1) = 1..counter \cup {counter + 1}
          BY <1>1
    <2>3. \A j \in Invoice : inv[j] # None => inv[j].no # counter + 1
          BY <1>1 DEF IssueInvoice
    <2>4. \A j, k \in Invoice : inv'[j] # None /\ inv'[k] # None /\ inv'[j].no = inv'[k].no => j = k
          BY <1>1, <1>2, <2>3 DEF Safe, NumbersGapless
    <2> QED  BY <1>1, <2>1, <2>2, <2>4 DEF Safe, NumbersGapless
  <1> QED  BY <1>4, <1>5, <1>6, <1>7 DEF Safe

LEMMA ResumeSafe ==
    ASSUME Safe, BillingTypeOK', NEW p \in Proc, Resume(p)
    PROVE  Safe'
  <1> USE CallTypes, CallAt
  <1>1. ASSUME LogFirst(p), UNCHANGED ivars
        PROVE  Safe'
        BY <1>1, FreeSafe DEF LogFirst, At, FreeLabel, ivars, Safe
  <1>2. ASSUME Respond(p), UNCHANGED ivars
        PROVE  Safe'
        BY <1>2, ReadSafe DEF Respond, At, Safe
  <1>3. ASSUME LogMove(p), UNCHANGED ivars
        PROVE  Safe'
        BY <1>3, FreeSafe DEF LogMove, At, FreeLabel, Idle, ivars, Safe
  <1>4. CASE NumberInvoice(p)
    <2> DEFINE c == [pc |-> "issue_invoice", quo |-> call[p].quo, no |-> counter + 1]
    <2>1. c \in Call /\ Goto(p, c)
          BY <1>4 DEF NumberInvoice, At, Safe, BillingTypeOK
    <2>2. Holds(c)
          BY <1>4 DEF NumberInvoice, At, Safe, ReadsHold, Holds
    <2>3. \A r \in Proc \ {p} : Compatible(c, call[r])
          BY <1>4 DEF NumberInvoice, CounterLocked, At, Safe, LocksExclusive, Compatible
    <2> QED  BY <1>4, <2>1, <2>2, <2>3, GotoSafe DEF NumberInvoice, qvars, ivars
  <1>5. call[p].pc \in {"commit_payment", "commit_cancel", "mark_overdue"}
          => call[p].inv \in Invoice /\ inv[call[p].inv] # None
        BY DEF Safe, ReadsHold, Holds
  <1>6. CASE MarkOverdue(p)
    <2>1. paid[call[p].inv] <= Total(call[p].inv)
          BY <1>5, <1>6 DEF MarkOverdue, At, Safe, BalanceKept
    <2> QED  BY <1>5, <1>6, <2>1, CommitKeeps DEF MarkOverdue, At, InvoiceStatus, qvars
  <1>7. CASE CommitPayment(p)
    <2> DEFINE i == call[p].inv
    <2>1. /\ i \in Invoice /\ inv[i] # None /\ call[p].sum = paid[i]
          /\ paid[i] + call[p].amount <= Total(i)
          /\ paid' = [paid EXCEPT ![i] = @ + call[p].amount]
          BY <1>5, <1>7 DEF CommitPayment, At, Safe, ReadsHold, Holds
    <2>2. /\ paid'[i] = paid[i] + call[p].amount
          /\ \A j \in Invoice \ {i} : paid'[j] = paid[j]
          BY <2>1 DEF Safe, BillingTypeOK
    <2>3. \E s \in {"paid", "partially_paid"} :
             SetStatus(i, s) /\ (s = "paid" => paid[i] + call[p].amount = Total(i))
          BY <1>7, <2>1 DEF CommitPayment
    <2> QED  BY <1>7, <2>1, <2>2, <2>3, CommitKeeps DEF CommitPayment, InvoiceStatus, qvars
  <1>8. CASE CommitCancel(p)
    <2>1. paid[call[p].inv] = 0 /\ paid[call[p].inv] <= Total(call[p].inv)
          BY <1>5, <1>8 DEF CommitCancel, At, Safe, ReadsHold, Holds, BalanceKept
    <2> QED  BY <1>5, <1>8, <2>1, CommitKeeps DEF CommitCancel, At, InvoiceStatus, qvars
  <1> QED  BY <1>1, <1>2, <1>3, <1>4, <1>6, <1>7, <1>8, SaveMoveSafe, IssueSafe
           DEF Resume, QuotationResume

LEMMA NextSafe ==
    ASSUME Safe, [Next]_vars
    PROVE  Safe'
  <1>0. BillingTypeOK'
        BY NextType DEF Safe
  <1>1. ASSUME NEW p \in Proc, Abandon(p)
        PROVE  Safe'
        BY <1>0, <1>1, CallTypes, FreeSafe DEF Abandon, FreeLabel, Idle, qvars, ivars
  <1>2. CASE UNCHANGED <<quo, call, inv, paid, counter>>
        BY <1>0, <1>2 DEF Safe, LocksExclusive, At, ReadsHold, Holds, InvoicesOf, Total, BalanceKept,
                          NumbersGapless
  <1>3. ASSUME NEW q \in Quotation, Lapse(q), UNCHANGED ivars
        PROVE  Safe'
        BY <1>2, <1>3 DEF Lapse, ivars
  <1>4. ASSUME NEW i \in Invoice, FallDue(i)
        PROVE  Safe'
        BY <1>2, <1>4 DEF FallDue, qvars
  <1>5. CASE UNCHANGED vars
        BY <1>2, <1>5 DEF vars
  <1> QED  BY <1>0, <1>1, <1>3, <1>4, <1>5, RequestSafe, ResumeSafe DEF Next

LEMMA InitSafe == Init => Safe
  <1> SUFFICES ASSUME Init
               PROVE  Safe
      OBVIOUS
  <1>1. LocksExclusive /\ ReadsHold
        BY DEF Init, QInit, LocksExclusive, ReadsHold, Holds, At, Idle
  <1>2. NumbersGapless
        BY DEF Init, NumbersGapless
  <1> QED  BY <1>1, <1>2, InitType DEF Init, BalanceKept, Safe

\* Types, locks, reads under them, balance and numbers hold together, whatever calls overlap.
THEOREM Safety == Spec => []Safe
  <1> QED  BY InitSafe, NextSafe, PTL DEF Spec

\* Rows and calls in flight keep their shape: a save never meets a row that is
\* not there, whatever calls overlap.
THEOREM BillingTypeCorrect == Spec => []BillingTypeOK
  <1>1. Safe => BillingTypeOK
        BY DEF Safe
  <1> QED  BY <1>1, Safety, PTL

\* recordPayment and cancel keep the balance: no overpayment, no early "paid",
\* no cancelled invoice with money on it.
THEOREM BalanceTheorem == Spec => []BalanceKept
  <1>1. Safe => BalanceKept
        BY DEF Safe
  <1> QED  BY <1>1, Safety, PTL

\* createFromQuotation numbers invoices 1, 2, 3, ... with no gap.
THEOREM NumbersTheorem == Spec => []NumbersGapless
  <1>1. Safe => NumbersGapless
        BY DEF Safe
  <1> QED  BY <1>1, Safety, PTL

\* What createFromQuotation checks under its lock is still so when it commits.
THEOREM InvoicingTheorem == Spec => []InvoicedFromAccepted
  <1>1. Safe => InvoicedFromAccepted
    <2> SUFFICES ASSUME Safe, NEW p \in Proc, call[p].pc \in {"number_invoice", "issue_invoice"}
                 PROVE  /\ quo[call[p].quo] = "accepted"
                        /\ InvoicesOf(call[p].quo) = {}
                        /\ call[p].pc = "issue_invoice"
                             => \A i \in Invoice : inv[i] # None => inv[i].no # call[p].no
        BY DEF InvoicedFromAccepted
    <2>1. call[p].pc = "issue_invoice" => call[p].no = counter + 1
          BY DEF Safe, ReadsHold, Holds
    <2>2. \A i \in Invoice : inv[i] # None => inv[i].no \in 1..counter
          BY DEF Safe, NumbersGapless
    <2>3. counter \in Nat
          BY DEF Safe, BillingTypeOK
    <2> QED  BY <2>1, <2>2, <2>3 DEF Safe, ReadsHold, Holds
  <1> QED  BY <1>1, Safety, PTL
=============================================================================
