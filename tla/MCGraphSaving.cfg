CONSTANTS
    n1 = n1
    n2 = n2
    Nodes = {n1}
    Settings = {"repeat"}
    Repeat = "repeat"
    Compatible = {}
    Scopes = {"alerts", "client"}
    Global = "alerts"
    First = n1
    MaxEdits = 1
    MaxSaves = 2
SPECIFICATION Spec
INVARIANTS CleanMeansStored
CHECK_DEADLOCK FALSE
