\* Refuted: a slot given back after a failed run stays the primary one.
CONSTANTS
    NPush = 1
    NPlay = 1
    ActionQueueLen = 3
    StartStopLen = 3
    MaxId = 2

SPECIFICATION Spec

INVARIANTS
    PrimaryIsSession

CHECK_DEADLOCK FALSE
