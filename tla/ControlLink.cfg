SPECIFICATION FairSpec
CONSTANTS
    NSlots = 1
    Cameras = {c1, c2}
    ActionQueueLen = 1
    NetLen = 1
    MaxConns = 2
    Garbled = Garbled
INVARIANTS
    TypeOK
    OneTaskPerSlot
    MessagesAreForSession
    CameraKnowsItsSession
    OnlyLateRunsMissTheStop
PROPERTIES
    CameraGetsItsSession
CHECK_DEADLOCK FALSE
