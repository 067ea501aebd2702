\* A save whose status word and data sum up to 0 modulo 2^16.
SPECIFICATION Spec
CONSTANTS
    p1 = p1
    p2 = p2
    Zero = Zero
    Garbage = Garbage
    Payloads = {p1, Zero}
    Default = p1
    Slots = {0}
    NBlocks = 2
    SigBlocks = 2
    Checksum <- MCChecksum
    Worn = {}
    MaxOps = 2
    MaxCrashes = 1
INVARIANT OkParsesAsValid
