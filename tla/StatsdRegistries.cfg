CONSTANTS
    n1 = n1
    n2 = n2
    c1 = c1
    c2 = c2
    Names <- MC_Names
    MaxObjs <- MC_MaxObjs
    CollectNames <- MC_CollectNames
    Types <- MC_Types

SPECIFICATION SSpec

INVARIANT RuntimesMatchRegistry NoDependencyLoop

PROPERTY FailedReloadKeepsRegistry
