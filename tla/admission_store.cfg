\* Three hashes and two netgroups reach every quota of both tiers, and each of
\* the three eviction loops of a rollback: two validated entries and a ticket
\* being handed back (MaxPaid = 3), one entry per hash, two per netgroup.
CONSTANTS
    h1 = h1
    h2 = h2
    h3 = h3
    g1 = g1
    g2 = g2
    Hash = {h1, h2, h3}
    Group = {g1, g2}
    MaxEntries = 2
    MaxEntriesPerNetgroup = 2
    MaxValidatedCandidatesPerHash = 1
    MaxUnknownEntries = 2
    MaxUnknownEntriesPerNetgroup = 1
    MaxUnknownCandidatesPerHash = 1
    MaxUnknownSubmissionsPerNetgroup = 2
    UnknownSubmissionWindow = 1
    Ttl = 1
    MaxPaid = 3

SPECIFICATION Spec
SYMMETRY HashAndGroupSymmetry
INVARIANTS
    CountsExact
    TiersBounded
    GrantsPaid
    RollbackPossible
