\* One stopped container, and docker commands that outlive their timeout.
CONSTANTS
  db = db
  cpu = cpu
  mem = mem
  proxy = proxy
  StopTargets = {db}
  CpuHelpers = {}
  MemoryHelpers = {}
  ProxyPaths = {}
  Owner = {o1}
  NoOwner = NoOwner
  NoDoc = NoDoc
  LateCommands = TRUE
  MaxCrashes = 0
  Scenarios <- ScenariosStop
SPECIFICATION Spec
INVARIANT BlockIsRecoverable
