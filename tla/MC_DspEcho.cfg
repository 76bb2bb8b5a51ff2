SPECIFICATION Spec
CONSTANTS
  Sample = {0, 1}
  Zero = 0
  Cells = 6
  PageCells = 2
  StepCells = 2
  Steps = 3
  EdlValues = {0, 1, 2, 4}
  RingTaps = 3
  Images <- TwoImages
INVARIANTS TypeOK PtrInRegion
PROPERTIES OnlyRegionWritten DelayLine
