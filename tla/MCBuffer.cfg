SPECIFICATION Spec
CONSTANTS
    Bytes = {0, 1}
    Zero = 0
    kcheap_prepend = 1
    kinitial_size = 2
    ExtraSize = 1
    MaxLen = 3
    MaxContent = 4
INVARIANTS
    RoomIsMade
    GrowthIsBounded
PROPERTIES
    OperationsExact
