\* Three services in a row, an expansion of two hops, two writers.
CONSTANTS
  web = web
  api = api
  db = db
  w1 = w1
  w2 = w2
  Services <- MCServices
  Calls <- MCCalls
  MaxHops = 2
  MaxFlags = 3
  Writers = {w1, w2}
  Nobody = Nobody
SPECIFICATION FairSpec
INVARIANTS GraphIsExact ContextIsCurrent
PROPERTY ResolutionIsTold
