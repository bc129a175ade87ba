CONSTANTS
  Imports = {i1, i2}
  LegacyScenes = {s1, s2}
  Models = {m1, m2}
  MaxFaults = 3
SPECIFICATION MigrationSpec
INVARIANTS NothingLost ManifestCommits Settled
PROPERTIES FinallyUpgraded
CHECK_DEADLOCK FALSE
