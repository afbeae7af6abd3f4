SPECIFICATION FairSpec
CONSTANTS
    h1 = h1
    h2 = h2
    w1 = w1
    w2 = w2
    None = None
    MaxRequests = 3
    Hash = {h1, h2}
    Valid = {h1}
    Height <- Siblings
    TipHeights = {0, 1}
    CoupledHeights = {1, 2}
    Worker = {w1}
    Sizes = {1}
    MaxAwaitingJobs = 2
    MaxAwaitingBytes = 1
CHECK_DEADLOCK FALSE
INVARIANTS
    PlacedOnce
    ParkedBytesExact
    NoLostQuorum
    StoppedReplayerAnswersAll
PROPERTIES
    BodyNeverDropped
    LatchSparesBody
    VerdictSound
    PaidAttemptHandedOffOnce
    RequestsAnswered
