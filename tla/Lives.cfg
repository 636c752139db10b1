CONSTANTS
  ann = ann
  again = again
  bob = bob
  Ann = Ann
  Bob = Bob
  gem = gem
  bone = bone
  b1 = b1
  b2 = b2
  b3 = b3
  boat = boat
  raft = raft
  Loop = Loop
  Torn = Torn
  None = None
  Player = {ann, again, bob}
  User = {Ann, Bob}
  user <- Users
  Body = {b1, b2, b3}
  Boat = {boat, raft}
  Thing = {gem, bone}
  Scenes <- AllScenes
  Kind <- Kinds
  Hostile = {"zombie", "skeleton", "creeper"}
  Shooter = {"skeleton"}
  Bomber = {"creeper"}
  Tame = {"cow"}
  MaxHealth = 2
  MaxFood = 2
  MaxSat = 1
  WellFed = 2
  Starving = 1
  MobHealth <- Healths
  Blow = {1, 2}
  EffectTime = 1
  DyingTicks = 1
  AttackRest = 1
  LoveTicks = 2
  BreedRest = 2
  GrowTicks = 2
  FeedGrow = 1
  PerPlayer = 2
  MostMobs = 3
  Day = 3
  Night = {2}
  Morning = 1
  KeepInventory = FALSE
SPECIFICATION Spec
INVARIANT DeadOrAlive NothingIsLost ShownIsTrue TablesAgree
CHECK_DEADLOCK FALSE
