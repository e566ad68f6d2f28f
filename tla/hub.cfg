SPECIFICATION FairSpec
CONSTANTS
    Publishers = {a, b}
    Streams = {s, t}
    Capacity = 1
    MaxWrites = 2
INVARIANTS NothingMissed
PROPERTIES EveryWriteIsSeen PublishNeverBlocks
CHECK_DEADLOCK FALSE
