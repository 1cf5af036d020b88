CONSTANTS
    n1 = n1
    n2 = n2
    Nodes = {n1, n2}
    Settings = {"repeat", "text"}
    Repeat = "repeat"
    Compatible <- MCCompatible
    Scopes = {"alerts"}
    Global = "alerts"
    First = n1
    MaxEdits = 4
    MaxSaves = 0
SPECIFICATION Spec
INVARIANTS TypeOK NoDanglingEdges HistoryShowsGraph PanelShowsNode
CHECK_DEADLOCK FALSE
