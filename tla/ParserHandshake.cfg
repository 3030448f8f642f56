CONSTANTS
    SlotCount = 3
    MaxSlots = 5
    MaxSessions = 2
SPECIFICATION FairSpec
INVARIANTS NoLostWakeup DiscardBeforeBegin SlotForEveryRead
PROPERTY ReadingResumes
