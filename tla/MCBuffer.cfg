SPECIFICATION BufferSpec
CONSTANTS
    InitSize = 2
    LowWater = 2
    Grow = 3
    ExtraSize = 5
    MaxFed = 12
    MayFail = TRUE
INVARIANTS BufferTypeOK EnsuredIsWritable MemoryBounded
PROPERTY FifoSpec
CHECK_DEADLOCK FALSE
