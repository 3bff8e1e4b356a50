\* Refuted: a session that ends abruptly leaves the flag of the other end set.
CONSTANTS
    NPush = 1
    NPlay = 1
    ActionQueueLen = 3
    StartStopLen = 3
    MaxId = 3

SPECIFICATION Spec

INVARIANTS
    StreamStatesAgree

CHECK_DEADLOCK FALSE
