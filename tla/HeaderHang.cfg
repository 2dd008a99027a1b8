SPECIFICATION Spec
CONSTANTS
    BYTEIO_BUFFER_SIZE = 16
    INT32_MAX = 10000
    PCM_MAX_READ = 4
    Inputs <- CutInputs
    ReadFormats = {2}
    Asks = {2, 3}
    Seeks = {1}
    Times = {1}
PROPERTY InitReturns
CHECK_DEADLOCK FALSE
