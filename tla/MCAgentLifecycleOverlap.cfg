\* Nothing need happen once every server is archived.
CHECK_DEADLOCK FALSE
SPECIFICATION Spec
CONSTANTS
  Server = {s1}
  Agent = {a1, a2}
  Token = {t1, t2}
  NoAgent = NoAgent
  NoServer = NoServer
  Overlapping = TRUE
INVARIANTS
  TypeOK
PROPERTIES
  SilentServerGoesOffline
  RecoveredServerComesOnline
