SPECIFICATION Spec
CONSTANTS
    NAux = 1
    NEnts = 2
    NManagers = 1
    Lists = {6, 7, 8}
    Builds = {"gba", "port"}
    EntityHomes = {6}
    ManagerHomes = {6, 8}
    ObjectList = 6
    Newcomers <- MCNewcomers
    Subtasks = TRUE
    MaxStashed = 1
    MaxCalls = 2
INVARIANTS TypeOK CountsExact ListsAreRings AsmUpdatesEveryone
PROPERTY PassEnds
CHECK_DEADLOCK FALSE
