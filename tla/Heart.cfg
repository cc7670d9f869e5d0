CONSTANTS
  MaskMod = 5
  WordMod = 75
  Cycle = 15
  HeartInterval = 20
  AnswerTime = 10
  QuietCap = 4
SPECIFICATION FairSpec
INVARIANTS TypeOK BeatsBounded BeatAfterSilence GivenUpAfterSilence
PROPERTIES SilenceNoticed
