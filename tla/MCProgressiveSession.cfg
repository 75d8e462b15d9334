CONSTANTS
  stop = stop
  burn = burn
  leak = leak
  errors = errors
  payment = payment
  carts = carts
  Tools = {stop, burn, leak, errors}
  StatusTools = {stop}
  MemoryTools = {leak}
  DirectTools = {stop, burn, leak}
  Causes = {payment, carts}
  NoCause = NoCause
  CauseOf <- MCCauseOf
  Cost <- MCCost
  Owned <- MCOwnedPair
  MaxCredits = 4
  MaxProbes = 3
  MinDecision = 1
  MinHealthy = 2
  Limit = 3
  MaxAge = 1
  Horizon = 5
SPECIFICATION FairSpec
INVARIANTS OneLedger DecisionsAreGrounded
PROPERTY SessionEnds
