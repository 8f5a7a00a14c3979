CONSTANTS
    R = 1
    FromBlocks <- LatestOrFirst
    HeadCap = 2
    ChannelCap = 1
    MaxBlocks = 3
    MaxSessions = 3
SPECIFICATION FairSpec
INVARIANTS
    TypeOK
    ViewLinked
    DeliveredFinal
    NoGap
PROPERTIES
    KeepsUp
CHECK_DEADLOCK FALSE
