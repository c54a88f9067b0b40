CONSTANTS
  MaxHops = 5
  MinSpeech = 2
  SilenceTimeout = 2
  EtdVerdicts <- MCNoEtd
  MinAudio = 3
  InterimEvery = 2
  MaxEntries = 1
SPECIFICATION Spec
INVARIANT ResetReturnsToIdle
