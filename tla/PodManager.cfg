SPECIFICATION FairSpec
CONSTANTS
  Pods = {a, f}
  NoPod = NoPod
  Versions = {1, 2}
  Aliases = {0, 1}
  Equivalent <- EveryTwo
  Shards = 2
  ShardOf <- OwnShards
  Reconcilers = {r1}
  Cap = 2
  Workers = 2
INVARIANT FeedSound
PROPERTIES FeedImplemented AliasesKept
