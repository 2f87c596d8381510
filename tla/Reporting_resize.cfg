SPECIFICATION Spec
CONSTANTS
  Node = "node"
  Ki = 16
  Kilo = 10
  MaxLong = 100000
  Resizes <- MCResizes
  MaxResizes = 3
  Shapes <- MCShapes
  MaxStarts = 2
  MaxFaults = 1
  MaxNodeFaults = 3
  SpecCases <- MCSpecCases
  CriCases <- MCCriCases
INVARIANT ResizeHolds
CHECK_DEADLOCK FALSE
