SPECIFICATION Spec
CONSTANTS
  Devices = {d1, d2}
  HealthSets = {{d1, d2}, {d1}}
  Keys <- MCKeys
  Demand <- MCDemand
  MaxCalls = 2
  MaxRestarts = 1
  Cpus = {0, 1, 2, 3}
  Reserved = {1}
  NumaTotal <- MCNumaTotal
  CtrSpec <- MCCtrSpec
  Policies <- MCPolicies
  AdmPods = {"a", "b", "c", "d", "e", "f", "g", "h"}
  AdmSpec <- MCAdmSpec
  Allocatable <- MCAllocatable
  NodeLabels = {"ssd"}
  NodeTaints <- MCNodeTaints
  KnownClasses = {"runc", "kata"}
  Overhead <- MCOverhead
  NoClass = NoClass
INVARIANTS
  
  BooksBalance
PROPERTIES
  PluginIsKnown
CHECK_DEADLOCK FALSE
