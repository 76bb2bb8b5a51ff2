SPECIFICATION Spec
CONSTANTS
  Word = 32
  Half = 16
  WrapBy = 24
  Tick = 4
  TargetMax = 4
  CounterMod = 4
  ResetCycles = 2
  NoRead = NoRead
  LowerTargets = TRUE
PROPERTY LikeHardware
