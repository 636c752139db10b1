CONSTANTS
  ann = ann
  bob = bob
  over = over
  nether = nether
  east = east
  west = west
  log = log
  plank = plank
  ore = ore
  ingot = ingot
  water = water
  potion = potion
  wart = wart
  pick = pick
  None = None
  Throwing = throwing
  Player <- TwoPlayers
  Dim = {over, nether}
  Overworld = over
  Spot = {east, west}
  HomeDim <- AtHome
  Scenes <- AllScenes
  Item <- AllItems
  MaxStack <- Stacks
  Smelted <- Smelting
  FuelTicks <- Fuels
  Brewed <- Brews
  Brewing <- Wart
  Recipe <- Planks
  Mended <- Picks
  CookTime = 2
  BrewTime = 2
  MaxSent = 2
SPECIFICATION Spec
INVARIANT ItemsKept ViewIsTrue
CHECK_DEADLOCK FALSE
