SPECIFICATION Spec
CONSTANTS
    e1 = e1
    e2 = e2
    e3 = e3
    Entities = {e1, e2}
    NSlots = 6
    Reserved = 2
    Fixed = {1}
    Frames = {2}
    SlotsOf <- MCSlotsOf
    RunSizes = {1, 2}
    RefLimit = 3
    None = None
INVARIANTS TypeOK RunsIntact ReferencesCounted RefusedOnlyWhenFull FramesShowPictures
PROPERTIES OnlyFullPoolsAreLost
SYMMETRY Alike
CONSTRAINT InOrder
CHECK_DEADLOCK FALSE
