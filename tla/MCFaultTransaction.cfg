\* Every mechanism, two live transaction identities, a death, late commands.
CONSTANTS
  db = db
  cpu = cpu
  mem = mem
  proxy = proxy
  StopTargets = {db}
  CpuHelpers = {cpu}
  MemoryHelpers = {mem}
  ProxyPaths = {proxy}
  Owner = {o1, o2}
  NoOwner = NoOwner
  NoDoc = NoDoc
  LateCommands = TRUE
  MaxCrashes = 1
  Scenarios <- ScenariosAll
SPECIFICATION FairSpec
INVARIANTS TypeOK JournalCovers EveryCleanupAttempted
PROPERTIES JournalOnlyAdvances GateSpec BlockIsLifted
