CONSTANTS
    Cap <- MC_Cap
    MaxInput <- MC_MaxInput
    MaxLeft <- MC_MaxLeft

SPECIFICATION Spec

INVARIANT TypeOK NoByteLostOrRepeated LineIsNextLine

PROPERTY ImplementsLineStream
