CONSTANTS
  low = low
  far = far
  high = high
  near = near
  away = away
  air = air
  stone = stone
  None = None
  Block <- TwoBlocks
  InRange <- BuildLimit
  Chunk <- TwoChunks
  ChunkOf <- MCChunkOf
  State <- TwoStates
  Generated <- MCGenerated
  Saver = {"loop", "final"}
  Format = "delta"
SPECIFICATION Spec
PROPERTY SavesAreAtomic
