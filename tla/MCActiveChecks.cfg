SPECIFICATION FairSpec
CONSTANTS
    s1 = s1
    s2 = s2
    s3 = s3
    Slots <- MCSlots
    Gpus <- OwnGpus
INVARIANTS
    JobsExclusive
    ErrorDrains
PROPERTIES
    ServedInOrder
    EveryEpilogEnds
