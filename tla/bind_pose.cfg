CONSTANTS
  Avatars   <- MCAvatars
  ClipFiles <- MCClipFiles
  Swings    <- MCSwings
  Steps     <- MCSteps
  MaxReloads = 1
SPECIFICATION Spec
PROPERTY BindPoseIsBind
