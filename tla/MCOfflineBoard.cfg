SPECIFICATION Spec
CONSTANTS
  User = {u1, u2}
  Nobody = Nobody
INVARIANTS
  TypeOK
  OfflineIsOnBoard
PROPERTIES
  ClaimIsKept
  StaleRowIsCleared
