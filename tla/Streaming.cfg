SPECIFICATION Spec
CONSTANTS
  Scripts <- SampleScripts
  MaxFrames = 3
  MaxContainers = 2
  Ports = 2
  RelayMax = 2
  MaxChunks = 2
  MaxAttempts = 2
  Tolerance = 2
  Skew = 1
  MaxTime = 4
  MaxLines = 2
  Tails <- FewTails
  Requests = {r1, r2, r3}
  MaxEvents = 2
  Window = 2
  MaxNow = 3
INVARIANTS
  CodecsInvert
  OutcomeIsTold
  RelayedInOrder
  
  RateBounded

  
CHECK_DEADLOCK FALSE
