SPECIFICATION Spec
CONSTANTS
  Specs <- MCSpecs
  Failures <- MCFailures
  Classes <- MCClasses
  Incidents <- MCIncidents
  SMOOTHING <- MCSmoothing
  SPREAD = 4
  BUDGET = 3
  MAX_PROBES = 2
  CORRECT = 20
  INCORRECT = 0
  DEFERRED = 5
  LAMBDA_COST = 1
  MAX_EXPANDED = 40
  MIN_VISITS = 5
  Learned <- MCLearned
  Draw <- MCDraw
  CAPACITY = 4
  WARMUP = 3
  BATCH = 2
  TARGET_SYNC = 3
  SAVE_EVERY = 2
  VALIDATION_INTERVAL = 3
  EPISODES = 6
  Validation <- MCValidation
  WINDOW = 5
  MIN_REQUESTS = 4
  MIN_SESSIONS = 2
  Windows <- MCWindows
  Plays <- MCPlays
  Runs <- MCRuns
  Stops <- MCStops
  Scopes <- MCScopes
  Derived <- MCDerived
  Methods <- MCMethods
  LearnedMethods <- MCLearnedMethods
  INTERVALS = 2
  Gates <- MCGates
  MaxDeaths = 1
  MaxEdits = 2
  Nothing = Nothing
INVARIANTS
  EncoderSeparatesTraining
  InvestigationIsSound
  DpKeepsItsPromise
  ScoresAgree
  LearningIsExact
  CheckpointsAreExact
  SealsAreExact
PROPERTIES
  ReservedIsKept
  ExperimentSettles
CHECK_DEADLOCK FALSE
