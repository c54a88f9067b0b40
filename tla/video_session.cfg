SPECIFICATION VideoSpec
CONSTANTS
  Tracks <- MCTracks
  Candidates <- MCCandidates
  Steps = {1, 3}
  FallbackInterval = 2
  MaxLag = 3
  MaxSeeks = 2
  MaxFaults = 1
PROPERTIES TableIsTrack SeekShowsKeyframe LoopGoesOn
\* Without any backend that opens the file the app goes on without a session.
CHECK_DEADLOCK FALSE
