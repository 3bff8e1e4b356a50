\* Two parameters of the camera and one list of sources, two connections and two
\* get calls.
CONSTANTS
    Kinds = {"cam", "sources"}
    Size <- MCSize
    ActionQueueLen = 2
    StartStopLen = 2
    Timeouts = {2}
    Tick = 2
    Wrap = 8
    MaxConn = 2
    MaxGet = 2

SPECIFICATION Spec

INVARIANTS
    TypeOK
    StreamNeedsSession
    AnswerFits
    DataFollowsFlag
    AnswersAreCurrent

CHECK_DEADLOCK FALSE
