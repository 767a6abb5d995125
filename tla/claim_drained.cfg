SPECIFICATION Spec
CONSTANTS
    k1 = k1  k2 = k2
    None = None
    Slots = {k1, k2}
    MaxEvents = 3
    MaxReloads = 0
    MaxTries = 1
    Accepted = {"snapshot", "violation"}
    Early = FALSE
INVARIANTS DrainedIsDelivered
CHECK_DEADLOCK FALSE
