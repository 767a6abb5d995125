SPECIFICATION FairSpec
CONSTANTS
    k1 = k1  k2 = k2
    None = None
    Slots = {k1, k2}
    MaxEvents = 3
    MaxReloads = 1
    MaxTries = 1
    Accepted = {"snapshot", "violation"}
    Early = TRUE
INVARIANTS TypeOK PendingInOrder TriesKnown DiskMatchesMemory AnswersKept
PROPERTIES ServerNeverGoesBack DormantIsSilent QueueDrains
CHECK_DEADLOCK FALSE
