SPECIFICATION Spec
CONSTANTS
    BYTEIO_BUFFER_SIZE = 16
    INT32_MAX = 10000
    PCM_MAX_READ = 4
    Inputs <- SmallInputs
    ReadFormats = {0, 2, 4, 6}
    Asks = {2, 3, 7}
    Seeks <- SeekRange
    Times = {1, 2}
INVARIANTS PositionKept HeaderUnderstood SamplesRight PositionReported
PROPERTY InitReturns
CHECK_DEADLOCK FALSE
