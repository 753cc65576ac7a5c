\* A run that may call, with limits that bind in turn: a method's, the month's,
\* the reserve.
SPECIFICATION Spec
CONSTANTS
  Methods = {"getBlockhash", "sendTransaction"}
  Requests <- McRequests
  StreamOnly = FALSE
  Allow = {}
  FailOnUnbudgeted = TRUE
  DenyWhenUnknown = TRUE
  DailyLimit = 6
  MonthlyLimit = 5
  MethodLimit <- McMethodLimit
  Reserve = 2
  LiveEnabled = TRUE
  DryRun = FALSE
  MaxCredit = 7
  MaxLedger = 5
CHECK_DEADLOCK FALSE
INVARIANT LimitsKept
INVARIANT LedgerExplainsCounters
PROPERTY SendsArePaid
