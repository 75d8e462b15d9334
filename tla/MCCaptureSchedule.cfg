\* Two collectors, two slots, two failures, deaths or pauses.
CONSTANTS
  p = p
  q = q
  Collectors = {p, q}
  Slots <- MCSlots
  MaxIncidents = 4
  MaxMishaps = 2
  Dead = Dead
  NoOne = NoOne
SPECIFICATION FairSpec
INVARIANT RecordIsSound
PROPERTIES LossNeedsTwo CohortIsSealed
