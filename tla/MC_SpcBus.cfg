SPECIFICATION Spec
CONSTANTS
  Addresses <- SomeAddresses
  Inputs <- SomeInputs
  DspIndexes <- SomeIndexes
  DspValues = {0, 1}
  Counts = {1}
  Images <- SomeImages
  Erasures <- SomeErasures
  EchoCells <- SomeEchoCells
INVARIANT ControlHolds
PROPERTY WritesAreLocal
