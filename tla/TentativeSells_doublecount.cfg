\* Two reports of one sell.
CONSTANTS
  t1 = t1  t2 = t2  w1 = w1  m1 = m1  raw = raw  deshred = deshred
  Transactions = {t1, t2}
  Sources = {raw, deshred}
  Signing = {raw, deshred}
  Sellers = {w1}
  Mints = {m1}
  SellerOf <- OneSeller
  MintOf <- OneMint
  Deduplicate = TRUE
  Alike <- Close
  TTL = 1
  Skew = 0
  MaxTime = 2
SPECIFICATION Spec
INVARIANT CountedOnce
CHECK_DEADLOCK FALSE
