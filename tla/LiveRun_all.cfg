\* Both sources, an optional deshred stream, outages, missing slots and fairness.
SPECIFICATION FairSpec
CONSTANTS
  Mints = {m1}
  NoMint = NoMint
  Geyser = Geyser
  Deshred = Deshred
  Sources = {Geyser, Deshred}
  DeshredRequired = FALSE
  ChannelCapacity = 2
  SlotGapTolerance = 1
  MaxReconnectAttempts = 2
  LiquidateOnFinalize = TRUE
  MaxSlot = 4
CHECK_DEADLOCK FALSE
INVARIANT OutagesFollowStreams
PROPERTY NoEntryUnderGap
PROPERTY NoEntryOnRejectedToken
PROPERTY OutagesEnd
PROPERTY DeadSourcesEndRun
