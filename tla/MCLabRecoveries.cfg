\* Two recovery commands beside each other, one other process of each kind, a
\* death of any of them, torn locks.
CONSTANTS
  s1 = s1
  s2 = s2
  c1 = c1
  m1 = m1
  r1 = r1
  r2 = r2
  Controllers = {s1}
  Captures = {c1}
  Monitors = {m1}
  Recoveries = {r1, r2}
  Mortal = {s1, c1, r1, r2}
  MaxDeaths = 1
  TornLocks = TRUE
  NoOne = NoOne
  Absent = Absent
SPECIFICATION Spec
INVARIANT LabIsGuarded
PROPERTIES UndercutNeedsTwo BlockIsKept
SYMMETRY Commands
