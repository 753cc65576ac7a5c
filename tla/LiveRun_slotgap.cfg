\* One jump over more slots than tolerated, then a healthy stream.
SPECIFICATION FairSpec
CONSTANTS
  Mints = {m1}
  NoMint = NoMint
  Geyser = Geyser
  Deshred = Deshred
  Sources = {Geyser}
  DeshredRequired = FALSE
  ChannelCapacity = 1
  SlotGapTolerance = 1
  MaxReconnectAttempts = 2
  LiquidateOnFinalize = FALSE
  MaxSlot = 4
CHECK_DEADLOCK FALSE
PROPERTY HealthySourceUnblocks
