CONSTANTS
  MaxFrames = 3
  Detections <- MCDetections
  IdleBones <- MCIdleBones
  LuaChanges <- MCLuaChanges
SPECIFICATION Spec
INVARIANT IdleOnBonesWithoutTracking
