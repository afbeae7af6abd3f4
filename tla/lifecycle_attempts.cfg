SPECIFICATION FairSpec
CONSTANTS
    h1 = h1
    h2 = h2
    h3 = h3
    Hash = {h1, h2}
    Sizes = {1}
    MaxRetainedCount = 1
    MaxRetainedBytes = 1
    RetainedMaxAge = 1
    AsyncStaleAfter = 1
    MaxGeneration = 3
INVARIANTS
    LeaseFollowsAttempt
    AbandonedJobCancelled
PROPERTIES
    LateCallbackHarmless
    RefinesAttemptLease
    AttemptNeverStuck
