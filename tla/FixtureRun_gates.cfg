\* Two scenarios, overflow of both buses, gaps and resumptions.
SPECIFICATION Spec
CONSTANTS
  m1 = m1
  m2 = m2
  s1 = s1
  s2 = s2
  Mints = {m1, m2}
  Keys = {s1, s2}
  Trades <- McTrades
  Gaps <- McGaps
  CanonicalCapacity = 2
  TentativeCapacity = 1
  MaxScenarios = 2
  MaxTentative = 2
  MaxEvents = 4
CHECK_DEADLOCK FALSE
INVARIANT ReplayGatesAgree
INVARIANT OverflowBlocks
INVARIANT GapsDoNotPoison
INVARIANT NothingLeftBehind
PROPERTY ReconcilerBehaves
