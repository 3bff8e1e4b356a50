\* One camera, two play clients that take each other's place, any number of
\* sessions, as long as nothing else has upset the stream.
CONSTANTS
    NPush = 1
    NPlay = 2
    ActionQueueLen = 1
    StartStopLen = 3
    MaxId = 200

SPECIFICATION Spec
VIEW StreamView
CONSTRAINT Undisturbed

INVARIANTS
    DataFollowsFlags

CHECK_DEADLOCK FALSE
