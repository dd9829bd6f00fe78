SPECIFICATION FairSpec
CONSTANTS
    Due <- MCDue
    OrderCutoff = 3
    LastMinute = 4
    Faults = {"crash", "data"}
PROPERTIES DueStepsAreRecorded
