SPECIFICATION Spec
CONSTANTS
  Radix = 8
  Bits = 3
  BitArea = 22
  VectorBase = 60
  Vectors = 2
  Suites <- AllSuites
  EchoCells <- Cells
  Scribbles = {1}
  MaxScribbles = 1
INVARIANTS RunsAsOneStep ReturnsToCaller
CHECK_DEADLOCK FALSE
