SPECIFICATION FairSpec
CONSTANTS
    Stoppers = {"linkDown", "serverStop"}
    MaxLeaked = 2
INVARIANTS
    TypeOK
    NoCallbackAfterStop
PROPERTIES
    ImplementsContract
    StopReturns
    AllGoroutinesEnd
CHECK_DEADLOCK FALSE
