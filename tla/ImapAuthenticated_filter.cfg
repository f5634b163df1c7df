CONSTANTS
    ClientCmds <- MC_ClientCmds
    MaxCmds <- MC_MaxCmds
    MaxPush <- MC_MaxPush

SPECIFICATION Spec

CHECK_DEADLOCK FALSE

INVARIANT CommandFilterHolds
