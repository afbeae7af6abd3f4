\* Four keys and room for three deadlines, so that Mark has to evict.
CONSTANTS
    h1 = h1
    h2 = h2
    g1 = g1
    g2 = g2
    Hash = {h1, h2}
    Group = {g1, g2}
    MaxEntries = 3
    Cooldown = 2

SPECIFICATION FairSpec
PROPERTIES
    NotRefreshed
    LiveEvictedLast
    SuppressionEnds
