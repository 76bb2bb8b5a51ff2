SPECIFICATION SysFairSpec
CONSTANTS
  TsCyc = 3
  CycleLimits <- AnyLimits
  BufferBytes <- Buffers
  ExactEnds = FALSE
  Word = 24
  Half = 12
  WrapBy = 15
  Tick = 3
  MaxGrant = 3
  Opcodes <- SmallOps
  Cost <- SmallCost
  MaxCost = 7
INVARIANTS BufferRespected CyclesHonoured MixLeftIsTimeToSample NotBehind NeverAhead
PROPERTIES SampleClockSpec SameStream HostIndependent CallsReturn SongGoesOn
