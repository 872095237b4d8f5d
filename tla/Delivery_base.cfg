SPECIFICATION Spec
CONSTANTS
    AppMsgs = {m1, m2}
    FileAcks = {}
    NoMsg = NoMsg
    Commands = {"plain", "reboot"}
    HasBusinessLogic = TRUE
    ExitOnClear = FALSE
    HeapMayFail = TRUE
    MAX_PACKET_ID = 5
    MAX_MESSAGE_HANDLERS = 4
    MQTT_RESULT_HANDLER_TIMEOUT = 1
    MAX_CYCLES_TO_WAIT_FOR_PUBACK = 2
    MAX_CONNECTION_WAIT = 2
    MAX_CONN_ATTEMPTS_WITH_PHYSICAL_LAYER_FINE = 1
    MAX_DATA_RECORDS = 2
    MaxCalls = 2
    MaxToClient = 2
INVARIANTS
    TypeOK
    TimeoutMeansUnacked
    FullWait
PROPERTIES
    KeepsPromise
