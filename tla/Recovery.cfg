SPECIFICATION RecoverySpec
CONSTANTS
  Clients = {p, q}
  EventIds = {e1, e2}
  MaxDamage = 1
  MaxFile = 2
  MaxEdits = 2
  Correlations = {c1, c2}
  Radix = 2
  MaxAppends = 4
  MaxReopens = 3
  MaxTears = 2
  MaxVersions = 3
  People = {alice, bob}
  KeyIds = {k1, k2}
  MaxAudit = 4
  MaxImports = 2
  MaxNode = 3
SYMMETRY Symmetry
INVARIANTS
  CheckpointsRecoverEverything
  SnapshotNeverReplaysTwice
  RestoreIsOneMoment
  InspectedIsOneMoment
  NumbersSurviveRestarts
  AuditExplainsKeys
  CallIsAPrefix
PROPERTIES
  VerifyAnswersRightly
  CustodiansKeepVersions
CHECK_DEADLOCK FALSE
