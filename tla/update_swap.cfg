SPECIFICATION FairSpec
CONSTANTS
    MaxRelease = 3
    MaxFailures = 2
    MaxCuts = 2
    MaxTails = 1
INVARIANTS Recoverable StartsAgain
PROPERTY ReportedIsApplied
