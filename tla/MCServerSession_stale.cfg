CONSTANTS
    big = big
    small = small
    empty = empty
    File = {big, small}
    FileSize <- MCFileSize
    SlotCount = 2
    SlotUnits = 2
    MaxConnections = 2
    MaxAfterAbort = 2
    NoFile = NoFile
    NoCsv = NoCsv
SPECIFICATION Spec
INVARIANT RetainedIsOwn
