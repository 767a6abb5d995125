SPECIFICATION FairSpec
CONSTANTS
    f1 = f1  f2 = f2
    None = None
    Flows <- MCFlows
    MaxEvents = 0
    MaxMounts = 1
    MaxFailures = 0
    Threshold = 1
PROPERTIES ExpiryDecides
CHECK_DEADLOCK FALSE
