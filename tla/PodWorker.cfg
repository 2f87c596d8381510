SPECIFICATION Spec
CONSTANTS
  i = i
  s = s
  a = a
  e = e
  PodShapes <- Shapes
  Apps <- AppSeq
  OwnPolicy <- Inherited
  MaxRecords = 2
  MaxCrashes = 1
INVARIANT OneRunning
PROPERTY InitBeforeApps
VIEW WithoutPhase
