SPECIFICATION Spec
CONSTANTS
    Guards <- SocketAndSmsGuards
    SendPacketGuard <- ShortGuard
INVARIANTS
    TypeOK
    ExpiryNoticed
PROPERTIES
    ResetIsDue
    HangIsReset
