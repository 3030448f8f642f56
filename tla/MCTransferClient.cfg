CONSTANTS
    File = {f, g}
    Chunks <- MCEmpty
    CsvSize <- MCCsvSize
    SlotCount = 1
    kMaxInFlightWrites = 1
    MaxClicks = 4
    None = None
SPECIFICATION Spec
SYMMETRY Files
INVARIANTS ButtonsFollowWorker ResultIsWhole ClaimIsHonest
