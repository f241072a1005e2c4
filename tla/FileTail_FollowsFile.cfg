SPECIFICATION FairSpec
CONSTANTS
    MaxLine = 3
    MaxUnits = 3
PROPERTY FollowsFile
CHECK_DEADLOCK FALSE
