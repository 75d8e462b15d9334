\* A recovery command is killed.
CONSTANTS
  s1 = s1
  s2 = s2
  c1 = c1
  m1 = m1
  r1 = r1
  r2 = r2
  Controllers = {s1}
  Captures = {}
  Monitors = {}
  Recoveries = {r1, r2}
  Mortal = {s1, r1}
  MaxDeaths = 2
  TornLocks = FALSE
  NoOne = NoOne
  Absent = Absent
SPECIFICATION Spec
INVARIANT RecoveryIsAdmitted
