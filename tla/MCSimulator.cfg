SPECIFICATION Spec
CONSTANTS
  N = 3
  MAX_SERVICE_SLOTS = 4
  Incidents <- MCIncidents
  INITIAL_BUDGET = 5
  MAX_PROBES = 3
  UTILITY = 20
  NUM_ENVS = 2
  ROLLOUT_STEPS = 2
  TOTAL_UPDATES = 2
  EVALUATE_EVERY = 1
  UPDATE_EPOCHS = 1
  Tools <- MCTools
  Draws <- MCDraws
  Sampled <- MCSampled
  Scores = {1, 2, 3}
  Costs = {1, 2}
  TIE_TOLERANCE = 1
  MaxDeaths = 1
  Suites <- MCSuites
  Cases <- MCCases
  Fixtures <- MCFixtures
  WalkSteps = 3
CHECK_DEADLOCK FALSE
INVARIANT EpisodesAreSound
INVARIANT AdvantageIsReturnToBoundary
INVARIANT CheckpointsAreSound
INVARIANT PlannersAreRight
INVARIANT ValidationPasses
PROPERTY ResumeIsExact
