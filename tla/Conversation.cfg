CONSTANTS
  ann = ann
  bob = bob
  smith = smith
  first = first
  second = second
  third = third
  None = None
  Player <- TwoPlayers
  Villager <- OneVillager
  Request <- ThreeRequests
  HistoryLimit = 2
SPECIFICATION FairSpec
INVARIANT TypeOK HistoryIsDialogue BusyIsAnswered SecondFlightByRush GhostsByRace
PROPERTY ComesRound
