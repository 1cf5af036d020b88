CONSTANTS
    Servers = {s1}
    Workers = {w1}
    Sweeps = {t1}
    Pages = {g1}
    Repeats = TRUE
    MaxRepeats = 1
    MaxQueue = 1
    MaxFlips = 3
    MaxMishaps = 1
SPECIFICATION Spec
INVARIANTS TypeOK PhaseHasTask
PROPERTIES AlertComes Settles
CHECK_DEADLOCK FALSE
