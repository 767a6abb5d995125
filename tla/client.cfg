SPECIFICATION FairSpec
CONSTANTS
    f1 = f1  f2 = f2
    None = None
    Flows <- MCFlows
    MaxEvents = 1
    MaxMounts = 2
    MaxFailures = 1
    Threshold = 1
INVARIANTS TypeOK SubmittedMeansDecided
PROPERTIES ModalReleased FiredDecides
CHECK_DEADLOCK FALSE
