CONSTANTS
    SlotCount = 3
    Data = {d1, d2}
    Size = {1, 2}
    MaxIndex = 7
SPECIFICATION Spec
INVARIANTS SlotOwnership ViewStable
PROPERTY ImplementsFifo
CHECK_DEADLOCK FALSE
