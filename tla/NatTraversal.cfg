SPECIFICATION FairSpec
CONSTANTS
    Addrs = {a1, a2}
    NoAddr = NoAddr
    Never = Never
    NatIdle = 2
    FrameLens <- MCFrameLens
    MaxLen = 5
    MailLen = 2
    MaxRemaps = 2
    MaxTime = 20
    PartSize = 3
    TickUs = 4
INVARIANTS
    TypeOK
    StreamHasPeer
    PartsMakeTheFrame
    PartsFillTheInterval
PROPERTIES
    MovedViewerIsFound
    StarvedViewerKnocks
