CONSTANTS
    SlotCount = 2
    Chunks = 3
    kMaxInFlightWrites = 2
    MaxUploads = 2
SPECIFICATION FairSpec
INVARIANTS SentIsFileBarringLeftover WritesBounded
PROPERTIES UploadEndsBarringMissed StopJoinsReader
