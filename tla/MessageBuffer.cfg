\* Two assemblies, prebuffering of two frames, three frames that fit and one
\* that does not, every message lost, delivered once or twice, both tasks fair.
CONSTANTS
    NAss = 2
    MaxParts = 2
    BeforeGet = 2
    Frames <- MCFrames
    Total <- MCTotal
    MaxCopies = 2
    NoFrame = NoFrame
    NoAss = NoAss

SPECIFICATION FairSpec

INVARIANTS
    TypeOK
    OwnershipAgrees
    QueueHasRoom
    OneAssemblyPerFrame
    WholeFrames

PROPERTIES
    HeldFrameStable
    ImplementsFrameQueue
    AvailableIsTaken

CHECK_DEADLOCK FALSE
