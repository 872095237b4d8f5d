SPECIFICATION ReaderSpec
CONSTANTS
    Packets <- TwoPackets
    Base = 2
    Width = 32
    RecordHeader = 2
    MaxTries = 1
INVARIANTS ReaderTypeOK
PROPERTIES ReadsStream EndIsNoticed ArrivedIsRead
