\* Three blocks, three writes, two ends of the process, any of fopen,
\* fread and fwrite failing.
SPECIFICATION Spec
CONSTANTS
    v1 = v1
    v2 = v2
    Zero = Zero
    Blank = Blank
    Values = {v1, v2}
    NBlocks = 3
    MaxWrites = 3
    MaxCrashes = 2
INVARIANT TypeOK
PROPERTIES BootLoadsLastFlush FlushSavesAll
\* The process rests once its writes are made.
CHECK_DEADLOCK FALSE
