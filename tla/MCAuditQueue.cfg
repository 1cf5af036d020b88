\* Nothing need happen once every event is stored.
CHECK_DEADLOCK FALSE
SPECIFICATION Spec
CONSTANTS
  FileEvent = {f1, f2}
  LifecycleEvent = {l1}
  MaxBatch = 2
  CompactAt = 2
  CrashAt <- SafePoints
  MaxCrashes = 2
  MaxFaults = 1
  MaxLength = 6
INVARIANTS
  TypeOK
  NoLoss
PROPERTIES
  ImplementsDelivery
  EventuallyStored
