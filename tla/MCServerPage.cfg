CONSTANTS
    Spans = {"1H", "1D"}
    Default = "1H"
    MaxChanges = 2
    MaxMishaps = 1
    MaxVisits = 2
SPECIFICATION Spec
INVARIANTS TypeOK HeardIsFetched
PROPERTIES HeardIsShown NeverGoesBack
CHECK_DEADLOCK FALSE
