SPECIFICATION Spec
CONSTANTS
    NAux = 1
    NEnts = 3
    NManagers = 1
    Lists = {6, 8}
    Builds = {"port"}
    EntityHomes = {6}
    ManagerHomes = {6, 8}
    ObjectList = 6
    Newcomers <- MCNewcomers
    Subtasks = FALSE
    MaxStashed = 1
    MaxCalls = 2
INVARIANT EveryoneIsUpdated
CHECK_DEADLOCK FALSE
