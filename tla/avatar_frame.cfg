CONSTANTS
  MaxFrames = 3
  Detections <- MCDetections
  IdleBones <- MCIdleBones
  LuaChanges <- MCLuaChanges
SPECIFICATION FairSpec
INVARIANTS HandsOfLatestResult ModeSettles NoPoseLeftWhenOff IdleFillsUntracked
PROPERTIES ImplementsPipe EveryFrameSettles TrackingStarts
