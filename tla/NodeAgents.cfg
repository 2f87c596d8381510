SPECIFICATION Spec
CONSTANTS
  be = be
  bu = bu
  job = job
  c1 = c1
  c2 = c2
  Absent = Absent
  NodePods = {be, bu, job}
  PodSpec <- MCPodSpec
  Thresholds <- MCThresholds
  SignalSets <- MCSignalSets
  MaxArrivals = 3
  Images = {i1, i2}
  Refs = {r1, r2}
  NoImage = NoImage
  DiskTotal = 3
  High = 1
  Low = 0
  MaxRounds = 2
  PlegContainers = {c1, c2}
  PlegPods = {"p", "q"}
  PodOf <- MCPodOf
  MaxSize = 3
  MaxFiles = 2
  LineSizes = {1, 2, 4}
  MaxIndex = 5
  SocketPolls = 2
  ConnectTries = 2
  CsrPolls = 2
  MaxStarts = 3
  MaxEnded = 2
INVARIANTS
  
  LogFilesBounded
PROPERTIES
  EvictionSound
  
  ChangeIsTold
CHECK_DEADLOCK FALSE
