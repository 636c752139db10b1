CONSTANTS
  ann = ann
  bob = bob
  None = None
  Loop = loop
  Player <- TwoPlayers
  Scan <- Room
  Layout <- Everything
  Builder <- OnlyBob
  Site <- Sites
  Placeable <- Handful
  Full = 4
  R = 2
  PushLimit = 12
  ButtonTicks = 2
  DelayTicks = 1
  FluidRange <- Ranges
  QueueCap = 5
  Drain = 6
  Ripe = 1
  TreeHeight = 2
  Fuse = 1
  Blast = 1
  MaxClicks = 2
SPECIFICATION Spec
INVARIANT SettledIsPowered PowerIsReleased FlowsOn SandKept
PROPERTY ComesUp
