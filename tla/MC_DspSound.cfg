SPECIFICATION SoundSpec
CONSTANTS
  Gauss <- gauss
  Headers <- LoudHeaders
  BlockSamples = 2
  Nibbles <- ExtremeNibbles
  Histories <- Pasts
  Positions <- SomePositions
  MaxDue = 1
  MaxAge = 5
  NoiseCounts <- SomeCounts
  Voices = 2
  Taps = 8
  Samples <- SampleEnds
  Envs <- EnvEnds
  Pitches <- PitchEnds
  Volumes <- VolumeEnds
  Products <- ExtremeProducts
INVARIANTS SoundTypeOK HistoryForgotten FilterAccurate WithinWindow
  NoiseFullPeriod EchoExact
