CONSTANTS
    Limits <- MC_Limits
    Sizes <- MC_Sizes
    BatchMax <- MC_BatchMax
    Api <- MC_ApiBoth
    WindowCap <- MC_WindowCap

SPECIFICATION Spec

INVARIANT TypeOK ByteBudget

PROPERTY QueueDrains BatchPacketBudget
