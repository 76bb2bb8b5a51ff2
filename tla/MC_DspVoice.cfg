SPECIFICATION FairSpec
CONSTANTS
  OnDelay = 3
  BlockBytes = 2
  Unit = 2
  Pitches <- SmallPitches
  MaxLevel = 2
INVARIANTS TypeOK KeyOffWins EnvxFollowsVoice GaussIndex GaussWindow
PROPERTIES KeyOffSilences KeyOnSounds
