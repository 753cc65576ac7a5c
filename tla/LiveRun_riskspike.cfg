\* A position whose token turns risky.
SPECIFICATION Spec
CONSTANTS
  Mints = {m1}
  NoMint = NoMint
  Geyser = Geyser
  Deshred = Deshred
  Sources = {Geyser}
  DeshredRequired = FALSE
  ChannelCapacity = 1
  SlotGapTolerance = 1
  MaxReconnectAttempts = 2
  LiquidateOnFinalize = FALSE
  MaxSlot = 1
CHECK_DEADLOCK FALSE
INVARIANT RiskSpikeExits
