SPECIFICATION Spec
CONSTANTS
    f1 = f1
    f2 = f2
    Files = {f1, f2}
    Size <- Chunks
    Missing = Missing
    Nothing = Nothing
    OTA_PING = 2
    ExitsOnRelease = {TRUE, FALSE}
    LengthMayBeMissing = FALSE
    HeapMayFail = TRUE
    MaxTransfers = 3
INVARIANT AckMeansDownloaded
