SPECIFICATION Spec
CONSTANTS
    Id = {i1, i2, i3, i4}
    MaxStamp = 5
    MaxRead = 2
    PageSize = 2
    Source <- MCSource
    Null = Null
    Valueless = Valueless
SYMMETRY Keys
INVARIANTS ReadIsComplete RepeatsNeedAMove WatermarkCoversDelivery NothingIsWrittenTwice
CHECK_DEADLOCK FALSE
