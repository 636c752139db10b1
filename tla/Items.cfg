CONSTANTS
  ann = ann
  bob = bob
  hotbar = hotbar
  main = main
  bucket = bucket
  milk = milk
  dirt = dirt
  pick = pick
  None = None
  Player <- TwoPlayers
  Exposed <- OneExposed
  Carried <- BobHasDirt
  FillOrder <- HotbarFirst
  WindowOrder <- MainFirst
  Held = hotbar
  Item <- FourItems
  MaxStack <- Pairs
  Tool <- Picks
  WrittenBack <- Buckets
  Remainder <- MilkAndEmpty
  Offer <- DirtForPick
  MaxUses = 1
  KeepInventory = FALSE
  MaxUnits = 4
SPECIFICATION Spec
INVARIANT Accounted StockNearlyKept
