SPECIFICATION Spec
CONSTANTS
    AppMsgs = {m1, m2}
    FileAcks = {a1}
    NoMsg = NoMsg
    Commands = {"file1", "file2", "callback"}
    HasBusinessLogic = TRUE
    ExitOnClear = TRUE
    HeapMayFail = FALSE
    MAX_PACKET_ID = 5
    MAX_MESSAGE_HANDLERS = 1
    MQTT_RESULT_HANDLER_TIMEOUT = 0
    MAX_CYCLES_TO_WAIT_FOR_PUBACK = 2
    MAX_CONNECTION_WAIT = 1
    MAX_CONN_ATTEMPTS_WITH_PHYSICAL_LAYER_FINE = 0
    MAX_DATA_RECORDS = 2
    MaxCalls = 2
    MaxToClient = 2
INVARIANTS
    WaitOwnsMessage
    SingleCustodian
    StoredWillBeResent
PROPERTIES
    LossAccounted
