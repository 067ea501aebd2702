\* What a crash between fopen and fclose leaves.
SPECIFICATION Spec
CONSTANTS
    v1 = v1
    v2 = v2
    Zero = Zero
    Blank = Blank
    Values = {v1, v2}
    NBlocks = 3
    MaxWrites = 3
    MaxCrashes = 2
PROPERTY FlushAvoidsLoss
CHECK_DEADLOCK FALSE
