SPECIFICATION Spec
CONSTANTS
  Quotation = {q1, q2}
  Invoice = {i1, i2}
  Proc = {p1, p2}
  None = None
  Asked = {"sent", "accepted", "converted"}
  HistoryFails = FALSE
  Price <- MCPrice
  Amount = {1, 2}
SYMMETRY Ids
INVARIANTS BillingTypeOK BalanceKept NumbersGapless InvoicedFromAccepted
