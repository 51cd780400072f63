SPECIFICATION FairSpec
CONSTANTS
    Phone = {a}
    IdMax = 3
    EventMax = 1

PROPERTIES UnlinkReaches
CHECK_DEADLOCK FALSE
