SPECIFICATION FairSpec
CONSTANTS
  NoRequest = NoRequest
  Requests = {r1, r2}
  Kids = {k1}
  CacheTtl = 2
  FetchLimit = 1
  MaxTime = 4
INVARIANT PublishedKeyFound
PROPERTIES RetiredKeyRefused EveryTokenAnswered
