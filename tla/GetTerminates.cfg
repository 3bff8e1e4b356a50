\* A timeout that is not a multiple of the tick.
CONSTANTS
    Kinds = {"cam", "sources"}
    Size <- MCSize
    ActionQueueLen = 2
    StartStopLen = 1
    Timeouts = {3}
    Tick = 2
    Wrap = 8
    MaxConn = 1
    MaxGet = 1

SPECIFICATION FairSpec

PROPERTY GetTerminates

CHECK_DEADLOCK FALSE
