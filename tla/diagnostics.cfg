SPECIFICATION Spec
CONSTANTS
    TraceCount = 2
    NFields = 2
    Samples = 2
    MaxSequence = 3
    MaxFrame = 2
INVARIANTS TypeOK NoTornEvent OnlyOverwrittenMissing ReportKeepsOut
PROPERTIES StallIsReal StallReported Ends
CHECK_DEADLOCK FALSE
