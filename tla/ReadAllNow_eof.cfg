CONSTANTS
    BufLen <- MC_BufLen
    MaxData <- MC_MaxData

SPECIFICATION Spec

PROPERTY PollReturns
