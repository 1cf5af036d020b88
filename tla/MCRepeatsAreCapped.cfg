CONSTANTS
    Servers = {s1}
    Workers = {w1}
    Sweeps = {t1}
    Pages = {g1}
    Repeats = TRUE
    MaxRepeats = 2
    MaxQueue = 1
    MaxFlips = 1
    MaxMishaps = 0
SPECIFICATION Spec
INVARIANT RepeatsAreCapped
CHECK_DEADLOCK FALSE
