\* Faulty and healthy runs, policy, stop and malformed requests, a death, threads
\* that outlast their join.
CONSTANTS
  a = a
  b = b
  h = h
  p = p
  s = s
  x = x
  Requests = {a, h, p, s, x}
  Command <- MCCommand
  Healthy = {h}
  Early = TRUE
  Stuck = TRUE
  MaxDeaths = 1
  NoOne = NoOne
SPECIFICATION FairSpec
INVARIANTS QuietRepair RequestsAreAnswered
PROPERTIES GateSpec RequestsAreTaken
