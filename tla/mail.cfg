SPECIFICATION MailSpec
CONSTANTS
  c1 = c1
  a1 = a1
  a2 = a2
  e1 = e1
  e2 = e2
  e3 = e3
  Note = {n1}
  User = {c1}
  Address = {a1, a2}
  Subscription = {s1, s2}
  Event = {e1, e2, e3}
  None = None
  Login <- MCLogin
  AddressLists <- MCAddressLists
  Company = a2
  Reported <- MCReported
  Genuine = {e1, e2}
  Subscriber <- MCSubscriber
  Concurrency = 1
  MaxStalled = 1
  MaxStarts = 3
  MaxDeaths = 2
  MaxOutages = 1
INVARIANTS SentOncePerDeath DeadLetters EventAbsorbed RemindersGoOut
PROPERTIES SuppressedStays Settled
CHECK_DEADLOCK FALSE
