CONSTANTS
    File = {f}
    Chunks <- MCChunks
    CsvSize <- MCCsvSize1
    SlotCount = 1
    kMaxInFlightWrites = 1
    MaxClicks = 2
    None = None
SPECIFICATION FairSpec
PROPERTIES CommandsHandled QuitEnds
