CONSTANTS
    w1 = w1
    w2 = w2
    Workers <- MC_Workers
    Keys <- MC_Keys
    Supports <- MC_Supports
    CounterShift <- MC_CounterShift
    ChanCap <- MC_ChanCap
    MaxReqs <- MC_MaxReqs
    StartupRetry <- MC_StartupRetry
    MaxOutages <- MC_MaxOutages

SPECIFICATION DSpec

INVARIANT DTypeOK QueuedAtServingWorker Balanced GivesUpAfterRetries

PROPERTY Reregisters
