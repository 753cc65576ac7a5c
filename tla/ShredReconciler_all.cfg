\* Repeated keys, late confirmations, expiry, and a clock that runs.
SPECIFICATION FairReconcilerSpec
CONSTANTS
  s1 = s1
  s2 = s2
  u1 = u1
  Keys <- McKeys
  Signed <- McSigned
  Ttl = 2
  MaxTentative = 4
  MaxCanonical = 3
CHECK_DEADLOCK FALSE
INVARIANT RecordsAreQueued
INVARIANT OutcomesAreDisjoint
INVARIANT LateConfirmationsAreFailures
PROPERTY RecordsSettle
PROPERTY OverdueIsShielded
