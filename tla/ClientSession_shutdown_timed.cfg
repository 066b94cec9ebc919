SPECIFICATION FairSpec
PROPERTIES
    ShutdownTimed
CHECK_DEADLOCK FALSE
