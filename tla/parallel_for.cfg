\* Both builds, every loop of up to four indices, three threads.
SPECIFICATION FairSpec
CONSTANTS
    MaxTotal = 4
    WorkerCount = 3
    NoError = NoError
    ThreadError = ThreadError
INVARIANTS TypeOK NoIndexTwice NobodyOutlivesTheCall AllDone
PROPERTY Ends
CHECK_DEADLOCK FALSE
