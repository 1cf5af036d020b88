CONSTANTS
    t1 = t1
    t2 = t2
    Tabs = {t1, t2}
    Polling = {t1}
    MaxSessions = 2
    MaxTokens = 8
    MaxRefreshes = 2
SPECIFICATION Spec
INVARIANT TypeOK
PROPERTY TurnedAwayForCause
PROPERTY CompromiseNeedsDelay
PROPERTY EndedStaysEnded
PROPERTY EndedSessionSignsOut
CHECK_DEADLOCK FALSE
