CONSTANTS
  low = low
  far = far
  high = high
  near = near
  away = away
  air = air
  stone = stone
  None = None
  Block <- ThreeBlocks
  InRange <- BuildLimit
  Chunk <- TwoChunks
  ChunkOf <- MCChunkOf
  State <- TwoStates
  Generated <- MCGenerated
  Saver = {"loop", "final"}
  Format = "region"
SPECIFICATION Spec
INVARIANT NoForgottenDebt
PROPERTY CleanEvictionIsInvisible
