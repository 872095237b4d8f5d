SPECIFICATION Spec
CONSTANTS
    Topics = {t1, t2}
    NoTopic = NoTopic
    MAX_MESSAGE_HANDLERS = 2
    MAX_CYCLES_TO_WAIT_FOR_PINGRESP = 2
    MAX_CONN_ATTEMPTS_WITH_PHYSICAL_LAYER_FINE = 1
    SignedChar = FALSE
    ExitsOnClear = {TRUE, FALSE}
    HeapMayFail = TRUE
    MaxIds = 2
    MaxInFlight = 2
INVARIANTS
    TypeOK
    ConnectFirst
    CertificateKept
    HandlerForGranted
PROPERTIES
    PingEnds
    ConnectionEnds
    SecretIsConfirmed
