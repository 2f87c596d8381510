SPECIFICATION ReaperSpec
CONSTANTS
  Pods = {p1, p2}
  NoPod = NoPod
  Versions = {1, 2}
  Invalid = {2}
  PortClash = {{p1, p2}}
  Tasks = {t1, t2}
  Reapers = {r1}
  QueueBound = 1
  CriFaults = TRUE
 
PROPERTIES DrainWaitsForOwner ReapingCompletes
CONSTRAINT ReaperBound
