\* Two lengths of frames, rates zero and one, queues of length two.
CONSTANTS
    Lens = {1, 2}
    Rates = {0, 1}
    ActionQueueLen = 2
    QueueLen = 2
    InitConfig <- MCInitConfig

SPECIFICATION Spec

INVARIANT CanStartOver
