SPECIFICATION Spec
CONSTANTS
    h1 = h1
    h2 = h2
    h3 = h3
    Hash = {h1, h2, h3}
    Sizes = {1, 2}
    MaxRetainedCount = 2
    MaxRetainedBytes = 3
    RetainedMaxAge = 2
    AsyncStaleAfter = 0
    MaxGeneration = 2
SYMMETRY HashSymmetry
INVARIANTS
    RetainedBytesExact
    RetainedCountBounded
PROPERTIES
    BodyAgeNotRefreshed
