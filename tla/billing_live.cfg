SPECIFICATION FairSpec
CONSTANTS
  Quotation = {q1}
  Invoice = {i1}
  Proc = {p1, p2}
  None = None
  Asked = {"sent", "under_review", "accepted", "rejected", "expired", "converted", "cancelled"}
  HistoryFails = FALSE
  Price <- MCPrice
  Amount = {1, 2}
PROPERTIES CallsEnd StatusGetsRecorded
