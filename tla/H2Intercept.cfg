CONSTANTS
    Actions <- MC_Actions
    MaxIdleCount <- MC_MaxIdleCount
    MaxTickBatch <- MC_MaxTickBatch
    MaxConcurrentStreams <- MC_MaxConcurrentStreams

SPECIFICATION Spec

INVARIANT TypeOK

PROPERTY
    ImplementsContract
    IdleNeverCutsLiveStream
    ShutdownCompletes
