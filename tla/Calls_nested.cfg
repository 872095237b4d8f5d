SPECIFICATION CallsSpec
CONSTANTS
    MAX_HEAP_SIZE = 12
    HEADER_SIZE = 1
    EXPIRY_SECONDS = 2
    Interval = 3
    MAX_CYCLES_TO_WAIT_FOR_PUBACK = 2
    SMALL = 1
    LARGE = 2
    MaxPackets = 3
    MaxGuaranteed = 1
INVARIANTS CallsTypeOK RecursionBounded PayloadIntact HeapSound
PROPERTIES LogsInWindow
