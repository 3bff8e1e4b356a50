\* Two cameras; every START replaces the buffer unless a parameter is set.
CONSTANTS
    Cameras = {c1, c2}
    RateSpan = 4
    FirstSource = c1
    Settings <- MCSettings
    DefaultRate = 2
    DefaultBefore = 1
    LinkLen = 2
    StartStopLen = 2
    MaxRequests = 3
    MaxFailures = 1

SPECIFICATION FairSpec

INVARIANTS
    TypeOK
    OnlyStoppingTasksAreCaught
    OldCameraIsStopped
    RatesAgree
    ZeroRateWasAsked

PROPERTIES
    StreamFlows

CHECK_DEADLOCK FALSE
