CONSTANTS
    a1 = a1
    a2 = a2
    c1 = c1
    c2 = c2
    NoConn = NoConn
    Adapters <- MC_Adapters
    Conns <- MC_Conns
    MaxTx <- MC_MaxTx

SPECIFICATION Spec

INVARIANT NoStaleReuse

PROPERTY CleanExchangeKept
