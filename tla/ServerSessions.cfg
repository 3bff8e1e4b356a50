\* Two cameras, one play client, any number of sessions; queues of length
\* one, so that calls fail for want of room.
CONSTANTS
    NPush = 2
    NPlay = 1
    ActionQueueLen = 1
    StartStopLen = 1
    MaxId = 200

SPECIFICATION Spec
VIEW SessionView

INVARIANTS
    TypeOK
    OnlyPrimaryStreams
    StreamsAgreeUnlessAbrupt

CHECK_DEADLOCK FALSE
