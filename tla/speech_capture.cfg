CONSTANTS
  MaxHops = 5
  MinSpeech = 2
  SilenceTimeout = 1
  EtdVerdicts <- MCEtdVerdicts
  MinAudio = 3
  InterimEvery = 2
  MaxEntries = 1
SPECIFICATION FairSpec
INVARIANTS ResetDropsTheOld UtteranceIsWhole AbortHitsCurrentInference
PROPERTIES ImplementsEvents StopSilences StopReturns ResetIsSeen
