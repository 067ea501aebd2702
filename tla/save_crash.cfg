\* Two player files and the header.  File 1 and file 5 program every block;
\* file 0 and the header have worn blocks, and keep one copy each.
SPECIFICATION FairSpec
CONSTANTS
    p1 = p1
    p2 = p2
    Zero = Zero
    Garbage = Garbage
    Payloads = {p1, p2}
    Default = p1
    Slots = {0, 1}
    NBlocks = 2
    SigBlocks = 2
    Checksum <- MCChecksum
    Worn <- MCWorn
    MaxOps = 3
    MaxCrashes = 2
INVARIANTS TypeOK OkRestoresRedundancy FirstLossIsSafe
PROPERTIES SaveIsAtomic BootKeepsSaves SaveAnswers BootCompletes
