\* Four transactions in one or two slots, delivered in any order and again,
\* past a deduplicator of two keys.
SPECIFICATION Spec
CONSTANTS
  vault = vault
  a1 = a1
  a2 = a2
  program = program
  o1 = o1
  o2 = o2
  Accounts <- McAccounts
  Owners <- McOwners
  Vault = vault
  Program = program
  Supply = 2
  Capacity = 2
  MaxTx = 4
  MaxSlot = 2
  MaxPassed = 5
SYMMETRY McSymmetry
CHECK_DEADLOCK FALSE
INVARIANT RepeatsNeedAFlood
INVARIANT CurveIsNewest
INVARIANT HoldersAreTrue
