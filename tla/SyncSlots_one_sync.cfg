SPECIFICATION SlotSpec
CONSTANTS
  Pods = {p1}
  NoPod = NoPod
  Versions = {1}
  Invalid = {}
  PortClash = {}
  Tasks = {t1, t2}
  QueueBound = 1
INVARIANT OneActiveSync
