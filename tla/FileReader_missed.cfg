CONSTANTS
    SlotCount = 2
    Chunks = 3
    kMaxInFlightWrites = 2
    MaxUploads = 1
SPECIFICATION FairSpec
PROPERTY UploadEnds
