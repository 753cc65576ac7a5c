\* One of the two sources reports without signatures.
CONSTANTS
  t1 = t1  t2 = t2  w1 = w1  m1 = m1  raw = raw  deshred = deshred
  Transactions = {t1, t2}
  Sources = {raw, deshred}
  Signing = {raw}
  Sellers = {w1}
  Mints = {m1}
  SellerOf <- OneSeller
  MintOf <- OneMint
  Deduplicate = TRUE
  Alike <- Close
  TTL = 1
  Skew = 1
  MaxTime = 2
SPECIFICATION Spec
INVARIANTS Accounting PendingReportsDiffer PendingTracked Truthful ArmedHasReason
PROPERTIES AnswerBeatsExpiry SettledOnce
CHECK_DEADLOCK FALSE
