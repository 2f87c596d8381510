SPECIFICATION FairSlotSpec
CONSTANTS
  Pods = {p1, p2}
  NoPod = NoPod
  Versions = {1, 2}
  Invalid = {2}
  PortClash = {{p1, p2}}
  Tasks = {t1, t2}
  QueueBound = 1
INVARIANT SlotsSound
 
CONSTRAINT SlotBound
