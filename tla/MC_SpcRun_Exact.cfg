SPECIFICATION Spec
CONSTANTS
  TsCyc = 4
  CycleLimits <- AnyLimits
  BufferBytes <- Buffers
  ExactEnds = TRUE
INVARIANT MixLeftIsTimeToSample
