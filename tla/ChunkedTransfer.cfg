CONSTANTS
    ChunkSizes <- MC_ChunkSizes
    MaxChunks <- MC_MaxChunks
    MaxFields <- MC_MaxFields
    YieldSize <- MC_YieldSize
    WriteZero = FALSE

SPECIFICATION Spec

INVARIANT TypeOK OutputIsChunkedEncoding CachedDataAccounted

PROPERTY TransferCompletes ProgressNotIdle
