SPECIFICATION Spec
CONSTANTS
  Command = {c1, c2}
  MaxPending = 1
  MaxVersion = 2
  Nil = Nil
CHECK_DEADLOCK FALSE
INVARIANTS
  TypeOK
  AtMostOnce
  AnsweredMeansExecuted
  BinaryIsThere
PROPERTIES
  ResultIsKept
  ResultArrives
  UpdatesEnd
