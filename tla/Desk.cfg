CONSTANTS
  ann = ann
  bob = bob
  Mods = Mods
  NoEvent = NoEvent
  Clients = {ann, bob}
  Setups <- AllSetups
  FeedbackWidth = 2
  Texts <- AllTexts
  Ops = {ann}
  Items = {1, 2}
  Recipe <- Dishes
  Handlers <- AllHandlers
  Orders <- AllOrders
  Requests <- AllRequests
SPECIFICATION Spec
INVARIANT HeardAsTold TakenAsSaid PeersAgree AnswersFollow ReactionsKept SettingsKept
PROPERTY EverythingArrives
CHECK_DEADLOCK FALSE
