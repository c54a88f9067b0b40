CONSTANTS
  Avatars   <- MCAvatars
  ClipFiles <- MCClipFiles
  Swings    <- MCSwings
  Steps     <- MCSteps
  MaxReloads = 1
SPECIFICATION Spec
INVARIANTS NoFeedback IndicesResolve
PROPERTIES FollowsSource FirstSwingIsDrawn
