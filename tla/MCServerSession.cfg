CONSTANTS
    big = big
    small = small
    empty = empty
    File = {big, small, empty}
    FileSize <- MCFileSize
    SlotCount = 2
    SlotUnits = 2
    MaxConnections = 3
    MaxAfterAbort = 2
    NoFile = NoFile
    NoCsv = NoCsv
SPECIFICATION FairSpec
INVARIANTS StreamIntact ResultIsOwnBarringAbort
PROPERTIES WaitingIsAccepted ShutdownCompletes
