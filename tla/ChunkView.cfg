CONSTANTS
  ann = ann
  loop = loop
  overworld = overworld
  nether = nether
  near = near
  far = far
  stone = stone
  air = air
  Nowhere = Nowhere
  Player <- OnePlayer
  Engine <- OneEngine
  Dim <- TwoDims
  Overworld = overworld
  Chunk <- TwoChunks
  Contents <- TwoContents
  Generated <- MCGenerated
  View <- MCView
  Changing = {overworld}
SPECIFICATION FairSpec
INVARIANT ClientsShowTheWorld LoadedIsShown LightIsCurrent
PROPERTY ChangeReachesClients
