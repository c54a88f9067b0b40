CONSTANTS
  VcamSize = "vcam"
  MascotSizes <- MCMascotSizes
  Clients = {c1}
  Watched = c1
  MaxFrames = 2
  SocketRoom = 2
SPECIFICATION FairSpec
INVARIANTS ReadsOnlyMapped
PROPERTIES ImplementsPipe FramesFlow StopReturns
