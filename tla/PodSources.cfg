SPECIFICATION FairSpec
CONSTANTS
  p1 = p1
  p2 = p2
  s = s
  x = x
  u1 = u1
  u2 = u2
  f1 = f1
  f2 = f2
  i1 = i1
  name = name
  NoUid = NoUid
  Missing = Missing
  Garbled = Garbled
  Uids = {p1, p2, s, x, u1, u2}
  ApiPods = {p1, p2}
  Versions = {1}
  Cap = 1
  MaxEvents = 2
  MaxEdits = 3
  MaxPages = 3
  Files = {f1, f2}
  Items = {i1}
  ItemUids = {x}
  NameOf <- MCNameOf
  Manifests <- MCManifests
  Synthetic <- MCSynthetic
  Mirror <- MCMirror
  Configurations <- MCConfigurations
PROPERTIES
  SourcesSound
  SourcesDeliver
