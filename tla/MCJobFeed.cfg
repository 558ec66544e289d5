\* Two miners and three templates; a channel of two jobs fills up.
CONSTANTS
  Jobs = {1, 2, 3}
  TemplateOf <- MCTemplateOf
  LastTpl = 3
  Conns = {c1, c2}
  QueueCap = 2
  None = None
SPECIFICATION FairFeedSpec
INVARIANTS
  FeedTypeOK
  EveryMinerHasWork
PROPERTIES
  MinersFollowTip
  BroadcastsInOrder
