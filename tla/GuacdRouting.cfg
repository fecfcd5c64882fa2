SPECIFICATION FairSpec
CONSTANTS
  c1 = c1
  c2 = c2
  c3 = c3
  Conns = {c1, c2, c3}
  Creators = {c1, c2}
  Buckets <- OneBucket
  Bucket <- SameBucket
  None = None
INVARIANT RoutingSound
INVARIANT OwnershipKept
PROPERTY RoutingProgress
