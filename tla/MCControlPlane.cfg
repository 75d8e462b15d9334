\* Two live runs, two basic ones, a death, two starts of the controller.
CONSTANTS
  r1 = r1
  r2 = r2
  b1 = b1
  b2 = b2
  Live = {r1, r2}
  Basic = {b1, b2}
  NoRun = NoRun
  MaxDeaths = 1
  MaxStarts = 2
SPECIFICATION PlaneSpec
INVARIANTS  LeaseHasKeeper
SYMMETRY Alike
CHECK_DEADLOCK FALSE
