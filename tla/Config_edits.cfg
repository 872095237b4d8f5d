SPECIFICATION Spec
CONSTANTS
    interval = interval
    business = business
    Registered <- Order
    Interval = interval
    OwnDefault = {business}
    Values = {0, 1}
    First <- AtStart
    Default <- Defaults
    Unset = Unset
    HeapMayFail = TRUE
    MaxPackets = 2
INVARIANTS ConfigTypeOK InSync ChoiceKept
