CONSTANTS
  Timeout = 5
  Ttl = 10
  MaxAge = 10
  Period = 5
  None = None
  MaxMatches = 3
  MaxRestarts = 2
SPECIFICATION FairSpec
INVARIANT TypeOK
INVARIANT FrozenAccounted
INVARIANT PointsKept
PROPERTY MatchesEnd
