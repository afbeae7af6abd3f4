-------------------------- MODULE RCAdmissionStore --------------------------
(***************************************************************************)
(* node::RCAdmissionStore: the bounded store of admission sidecars.  A     *)
(* peer pays for one expensive ExactReplay attempt of a block with a       *)
(* ticket; the store keeps the ticket, keyed by block hash and the peer's  *)
(* netgroup, until the attempt is admitted.  Tickets whose header is not   *)
(* yet known sit in a quarantine of their own.                             *)
(*                                                                         *)
(* Every caller holds m_matmul_rc_admission_mutex across one method call,  *)
(* so each method is one action.  Between Consume and the end of the       *)
(* admission the caller holds the ticket: it either commits it (work       *)
(* starts) or hands it back with RestoreConsumed, and other calls may come *)
(* in between.                                                             *)
(*                                                                         *)
(* A ticket is abstracted to whether CheckRCAdmissionTicket accepts it.    *)
(* Time points are abstracted to ages, which stop one past the limit they  *)
(* are compared with.  Ties between equally old entries, which the code    *)
(* breaks by the numeric order of the keys, are broken arbitrarily.        *)
(***************************************************************************)
EXTENDS Integers, FiniteSets, Sequences, Functions

CONSTANTS
    Hash, Group,         \* block hashes and keyed netgroups
    MaxEntries, MaxEntriesPerNetgroup, MaxValidatedCandidatesPerHash,
    MaxUnknownEntries, MaxUnknownEntriesPerNetgroup,
    MaxUnknownCandidatesPerHash, MaxUnknownSubmissionsPerNetgroup,
    UnknownSubmissionWindow, Ttl,
    MaxPaid              \* bound: sidecars stored and not committed

Limits == {MaxEntries, MaxEntriesPerNetgroup, MaxValidatedCandidatesPerHash,
           MaxUnknownEntries, MaxUnknownEntriesPerNetgroup,
           MaxUnknownCandidatesPerHash, MaxUnknownSubmissionsPerNetgroup}

(* The constructor raises every limit to at least one. *)
ASSUME AdmissionAssumption ==
    /\ IsFiniteSet(Hash)
    /\ IsFiniteSet(Group)
    /\ Limits \subseteq Nat \ {0}
    /\ UnknownSubmissionWindow \in Nat
    /\ Ttl \in Nat
    /\ MaxPaid \in Nat

VARIABLES
    m_validated_entries, m_unknown_entries,
    m_validated_netgroup_counts, m_validated_hash_counts,
    m_unknown_netgroup_counts, m_unknown_hash_counts,
    m_unknown_submission_history,
    receipts,            \* per key: consumed tickets not yet committed
    paid                 \* per key: sidecars stored and not yet committed

validated == <<m_validated_entries, m_validated_netgroup_counts,
               m_validated_hash_counts>>
unknown   == <<m_unknown_entries, m_unknown_netgroup_counts,
               m_unknown_hash_counts>>
callers   == <<receipts, paid>>
vars == <<validated, unknown, m_unknown_submission_history, callers>>

Key == Hash \X Group

(* age = -1 is a key that is not in the map. *)
Entry == [valid : BOOLEAN, age : Int]

NoEntry == [valid |-> FALSE, age |-> -1]

Fresh(valid) == [valid |-> valid, age |-> 0]

Keys(entries) == {k \in Key : entries[k] # NoEntry}

OfHash(S, h) == {k \in S : k[1] = h}

OfGroup(S, g) == {k \in S : k[2] = g}

(* A count that reaches zero is erased from its map; an absent one is zero, *)
(* and erasing past zero leaves it there.                                  *)
Less(n, m) == IF n > m THEN n - m ELSE 0

(* EraseValidatedIterator and EraseUnknownIterator on each key of S. *)
Without(entries, S) == [k \in Key |-> IF k \in S THEN NoEntry ELSE entries[k]]

(* Mutant: an erasure that forgets the netgroup's count. *)
GroupCountsKept(counts, S) == counts

GroupCountsWithout(counts, S) ==
    [g \in Group |-> Less(counts[g], Cardinality(OfGroup(S, g)))]

HashCountsWithout(counts, S) ==
    [h \in Hash |-> Less(counts[h], Cardinality(OfHash(S, h)))]

(* Prune: both tiers lose their entries older than the TTL, the history its *)
(* submissions older than the window.                                      *)
Stale(entries) == {k \in Keys(entries) : entries[k].age > Ttl}

(* The times of a netgroup are in the order of their submission, so those   *)
(* that remove_if drops come first.                                        *)
Expired(times) ==
    {i \in DOMAIN times : times[i] > UnknownSubmissionWindow}

RecentSubmissions ==
    [g \in Group |->
        LET times == m_unknown_submission_history[g]
        IN  SubSeq(times, Cardinality(Expired(times)) + 1, Len(times))]

(* Prune the validated tier, erase the keys in S from it and emplace the   *)
(* keys in A as new entries.                                               *)
ChangeValidated(S, A, valid) ==
    LET gone == Stale(m_validated_entries) \cup S IN
    /\ m_validated_entries' =
         [k \in Key |-> IF k \in A THEN Fresh(valid)
                        ELSE Without(m_validated_entries, gone)[k]]
    /\ m_validated_netgroup_counts' =
         [g \in Group |-> GroupCountsWithout(m_validated_netgroup_counts, gone)[g]
                            + Cardinality(OfGroup(A, g))]
    /\ m_validated_hash_counts' =
         [h \in Hash |-> HashCountsWithout(m_validated_hash_counts, gone)[h]
                            + Cardinality(OfHash(A, h))]

(* Mutant: the quarantine's per-hash count is not decremented. *)
ChangeUnknownKeepsHashCount(S, A, valid) ==
    LET gone == Stale(m_unknown_entries) \cup S IN
    /\ m_unknown_entries' =
         [k \in Key |-> IF k \in A THEN Fresh(valid)
                        ELSE Without(m_unknown_entries, gone)[k]]
    /\ m_unknown_netgroup_counts' =
         [g \in Group |-> GroupCountsWithout(m_unknown_netgroup_counts, gone)[g]
                            + Cardinality(OfGroup(A, g))]
    /\ m_unknown_hash_counts' =
         [h \in Hash |-> m_unknown_hash_counts[h] + Cardinality(OfHash(A, h))]

(* The same for the quarantine. *)
ChangeUnknown(S, A, valid) ==
    LET gone == Stale(m_unknown_entries) \cup S IN
    /\ m_unknown_entries' =
         [k \in Key |-> IF k \in A THEN Fresh(valid)
                        ELSE Without(m_unknown_entries, gone)[k]]
    /\ m_unknown_netgroup_counts' =
         [g \in Group |-> GroupCountsWithout(m_unknown_netgroup_counts, gone)[g]
                            + Cardinality(OfGroup(A, g))]
    /\ m_unknown_hash_counts' =
         [h \in Hash |-> HashCountsWithout(m_unknown_hash_counts, gone)[h]
                            + Cardinality(OfHash(A, h))]

PruneSubmissionHistory == m_unknown_submission_history' = RecentSubmissions

(* What the pruned tiers hold: the state the rest of each method works on. *)
LiveValidated == Keys(m_validated_entries) \ Stale(m_validated_entries)
LiveUnknown   == Keys(m_unknown_entries) \ Stale(m_unknown_entries)

NetgroupSize(g) ==
    GroupCountsWithout(m_validated_netgroup_counts, Stale(m_validated_entries))[g]
ValidatedCandidatesForHash(h) ==
    HashCountsWithout(m_validated_hash_counts, Stale(m_validated_entries))[h]
UnknownNetgroupSize(g) ==
    GroupCountsWithout(m_unknown_netgroup_counts, Stale(m_unknown_entries))[g]
UnknownCandidatesForHash(h) ==
    HashCountsWithout(m_unknown_hash_counts, Stale(m_unknown_entries))[h]

Init ==
    /\ m_validated_entries = [k \in Key |-> NoEntry]
    /\ m_unknown_entries = [k \in Key |-> NoEntry]
    /\ m_validated_netgroup_counts = [g \in Group |-> 0]
    /\ m_validated_hash_counts = [h \in Hash |-> 0]
    /\ m_unknown_netgroup_counts = [g \in Group |-> 0]
    /\ m_unknown_hash_counts = [h \in Hash |-> 0]
    /\ m_unknown_submission_history = [g \in Group |-> <<>>]
    /\ receipts = [k \in Key |-> 0]
    /\ paid = [k \in Key |-> 0]

-----------------------------------------------------------------------------
(* A sidecar was stored under k. *)
Pay(k) ==
    /\ FoldFunction(+, 0, paid) < MaxPaid
    /\ paid' = [paid EXCEPT ![k] = @ + 1]

(* The checks of Remember that come before the rate limit is charged: they *)
(* must not create per-netgroup history.                                   *)
QuarantineFull(k) ==
    \/ Cardinality(LiveUnknown) >= MaxUnknownEntries
    \/ /\ UnknownCandidatesForHash(k[1]) >= MaxUnknownCandidatesPerHash
       /\ k \notin LiveUnknown

RateLimited(g) ==
    Len(RecentSubmissions[g]) >= MaxUnknownSubmissionsPerNetgroup

ChargeSubmission(g) ==
    m_unknown_submission_history' =
        [RecentSubmissions EXCEPT ![g] = Append(@, 0)]

(* A sidecar for a header that is not known. *)
Remember(k, valid) ==
    /\ ChangeValidated({}, {}, FALSE)
    /\ UNCHANGED receipts
    /\ \/ /\ QuarantineFull(k) \/ RateLimited(k[2])
          /\ PruneSubmissionHistory
          /\ ChangeUnknown({}, {}, valid)
          /\ UNCHANGED paid
       \/ /\ ~QuarantineFull(k)
          /\ ~RateLimited(k[2])
          /\ ChargeSubmission(k[2])
          /\ IF \/ k \in LiveUnknown
                \/ UnknownNetgroupSize(k[2]) >= MaxUnknownEntriesPerNetgroup
             THEN ChangeUnknown({}, {}, valid) /\ UNCHANGED paid
             ELSE ChangeUnknown({}, {k}, valid) /\ Pay(k)

ValidatedFull(k) ==
    \/ ValidatedCandidatesForHash(k[1]) >= MaxValidatedCandidatesPerHash
    \/ Cardinality(LiveValidated) >= MaxEntries
    \/ NetgroupSize(k[2]) >= MaxEntriesPerNetgroup

(* A sidecar for a known header: authenticated before it takes any space.  *)
(* It supersedes the quarantined candidate of its own netgroup only.       *)
RememberKnown(k, valid) ==
    /\ PruneSubmissionHistory
    /\ UNCHANGED receipts
    /\ IF ~valid \/ k \in LiveValidated \/ ValidatedFull(k)
       THEN /\ ChangeValidated({}, {}, FALSE)
            /\ ChangeUnknown({}, {}, FALSE)
            /\ UNCHANGED paid
       ELSE /\ ChangeValidated({}, {k}, valid)
            /\ ChangeUnknown({k} \cap LiveUnknown, {}, FALSE)
            /\ Pay(k)

(* Mutant: spending a validated ticket leaves it in the store. *)
ConsumeKeepsTicket(k) ==
    /\ PruneSubmissionHistory
    /\ k \in LiveValidated
    /\ ChangeValidated({}, {}, FALSE)
    /\ ChangeUnknown({}, {}, FALSE)
    /\ receipts' = [receipts EXCEPT ![k] = @ + 1]
    /\ UNCHANGED paid

(* The block's admission takes the netgroup's ticket: a validated one as it *)
(* is, otherwise the quarantined one, checked now and dropped either way.  *)
Consume(k) ==
    /\ PruneSubmissionHistory
    /\ UNCHANGED paid
    /\ IF k \in LiveValidated
       THEN /\ ChangeValidated({k}, {}, FALSE)
            /\ ChangeUnknown({}, {}, FALSE)
            /\ receipts' = [receipts EXCEPT ![k] = @ + 1]
       ELSE /\ ChangeValidated({}, {}, FALSE)
            /\ ChangeUnknown({k} \cap LiveUnknown, {}, FALSE)
            /\ IF k \in LiveUnknown /\ m_unknown_entries[k].valid
               THEN receipts' = [receipts EXCEPT ![k] = @ + 1]
               ELSE UNCHANGED receipts

(* The sets of n entries of S that a loop erasing the oldest may erase. *)
Oldest(S, n) ==
    {V \in SUBSET S :
        /\ Cardinality(V) = n
        /\ \A v \in V, s \in S \ V :
              m_validated_entries[v].age >= m_validated_entries[s].age}

(* Mutant: the loop stops one entry early. *)
ExcessOffByOne(count, limit) == IF count > limit THEN count - limit ELSE 0

(* How many entries a "while (count >= limit) erase" loop erases. *)
Excess(count, limit) == IF count >= limit THEN count - limit + 1 ELSE 0

(* What the three loops of RestoreConsumed may evict to make room for k:   *)
(* first in its hash, then in its netgroup, then in the whole tier.  A loop *)
(* that runs out of candidates would make the rollback fail.               *)
Evictions(k) ==
    LET byHash  == Oldest(OfHash(LiveValidated, k[1]),
                          Excess(ValidatedCandidatesForHash(k[1]),
                                 MaxValidatedCandidatesPerHash))
        byGroup(V) == Oldest(OfGroup(LiveValidated \ V, k[2]),
                             Excess(Less(NetgroupSize(k[2]),
                                         Cardinality(OfGroup(V, k[2]))),
                                    MaxEntriesPerNetgroup))
        byAge(V) == Oldest(LiveValidated \ V,
                           Excess(Cardinality(LiveValidated \ V), MaxEntries))
    IN UNION {UNION {{V1 \cup V2 \cup V3 : V3 \in byAge(V1 \cup V2)} :
                        V2 \in byGroup(V1)} : V1 \in byHash}

(* The admission failed before any expensive work: the ticket goes back    *)
(* into the validated tier, as new, evicting what took its room.           *)
RestoreConsumed(k) ==
    /\ receipts[k] > 0
    /\ receipts' = [receipts EXCEPT ![k] = @ - 1]
    /\ PruneSubmissionHistory
    /\ ChangeUnknown({}, {}, FALSE)
    /\ UNCHANGED paid
    /\ IF k \in LiveValidated
       THEN ChangeValidated({}, {}, FALSE)
       ELSE \E V \in Evictions(k) : ChangeValidated(V, {k}, TRUE)

(* The caller drops its receipt: the paid attempt has started. *)
Commit(k) ==
    /\ receipts[k] > 0
    /\ receipts' = [receipts EXCEPT ![k] = @ - 1]
    /\ paid' = [paid EXCEPT ![k] = @ - 1]
    /\ UNCHANGED <<validated, unknown, m_unknown_submission_history>>

(* Unlike the other methods, Erase does not prune. *)
Erase(h) ==
    LET hv == OfHash(Keys(m_validated_entries), h)
        hu == OfHash(Keys(m_unknown_entries), h) IN
    /\ m_validated_entries' = Without(m_validated_entries, hv)
    /\ m_validated_netgroup_counts' =
          GroupCountsWithout(m_validated_netgroup_counts, hv)
    /\ m_validated_hash_counts' =
          HashCountsWithout(m_validated_hash_counts, hv)
    /\ m_unknown_entries' = Without(m_unknown_entries, hu)
    /\ m_unknown_netgroup_counts' =
          GroupCountsWithout(m_unknown_netgroup_counts, hu)
    /\ m_unknown_hash_counts' = HashCountsWithout(m_unknown_hash_counts, hu)
    /\ UNCHANGED <<m_unknown_submission_history, callers>>

Older(age, limit) == IF age <= limit THEN age + 1 ELSE age

(* The steady clock advances. *)
Tick ==
    LET aged(entries) ==
          [k \in Key |-> IF entries[k] = NoEntry THEN NoEntry
                         ELSE [entries[k] EXCEPT !.age = Older(@, Ttl)]] IN
    /\ m_validated_entries' = aged(m_validated_entries)
    /\ m_unknown_entries' = aged(m_unknown_entries)
    /\ m_unknown_submission_history' =
         [g \in Group |->
            [i \in DOMAIN m_unknown_submission_history[g] |->
               Older(m_unknown_submission_history[g][i],
                     UnknownSubmissionWindow)]]
    /\ UNCHANGED <<m_validated_netgroup_counts, m_validated_hash_counts,
                   m_unknown_netgroup_counts, m_unknown_hash_counts, callers>>

Next ==
    \/ \E k \in Key, valid \in BOOLEAN : Remember(k, valid)
    \/ \E k \in Key, valid \in BOOLEAN : RememberKnown(k, valid)
    \/ \E k \in Key : Consume(k)
    \/ \E k \in Key : RestoreConsumed(k)
    \/ \E k \in Key : Commit(k)
    \/ \E h \in Hash : Erase(h)
    \/ Tick

Spec == Init /\ [][Next]_vars

-----------------------------------------------------------------------------
(* The type of the state. *)
TypeOK ==
    /\ m_validated_entries \in
         [Key -> {NoEntry} \cup [valid : BOOLEAN, age : 0..(Ttl + 1)]]
    /\ m_unknown_entries \in
         [Key -> {NoEntry} \cup [valid : BOOLEAN, age : 0..(Ttl + 1)]]
    /\ m_validated_netgroup_counts \in [Group -> Nat]
    /\ m_validated_hash_counts \in [Hash -> Nat]
    /\ m_unknown_netgroup_counts \in [Group -> Nat]
    /\ m_unknown_hash_counts \in [Hash -> Nat]
    /\ m_unknown_submission_history \in
         [Group -> Seq(0..(UnknownSubmissionWindow + 1))]
    /\ receipts \in [Key -> Nat]
    /\ paid \in [Key -> Nat]

(* Each of the four running counts equals the number of entries it stands  *)
(* for, whatever mix of stores, spends, rollbacks, expiries and erasures   *)
(* came before: the quotas are decided from the counts alone.              *)
CountsExact ==
    LET V == Keys(m_validated_entries)
        U == Keys(m_unknown_entries) IN
    /\ \A g \in Group :
         /\ m_validated_netgroup_counts[g] = Cardinality(OfGroup(V, g))
         /\ m_unknown_netgroup_counts[g] = Cardinality(OfGroup(U, g))
    /\ \A h \in Hash :
         /\ m_validated_hash_counts[h] = Cardinality(OfHash(V, h))
         /\ m_unknown_hash_counts[h] = Cardinality(OfHash(U, h))

(* Neither tier ever exceeds a bound of its configuration (in total, per   *)
(* netgroup and per hash), also after a rollback into a store that filled  *)
(* up meanwhile, and no netgroup exceeds its submission rate.              *)
TiersBounded ==
    LET V == Keys(m_validated_entries)
        U == Keys(m_unknown_entries) IN
    /\ Cardinality(V) <= MaxEntries
    /\ Cardinality(U) <= MaxUnknownEntries
    /\ \A g \in Group :
         /\ Cardinality(OfGroup(V, g)) <= MaxEntriesPerNetgroup
         /\ Cardinality(OfGroup(U, g)) <= MaxUnknownEntriesPerNetgroup
         /\ Len(m_unknown_submission_history[g])
              <= MaxUnknownSubmissionsPerNetgroup
    /\ \A h \in Hash :
         /\ Cardinality(OfHash(V, h)) <= MaxValidatedCandidatesPerHash
         /\ Cardinality(OfHash(U, h)) <= MaxUnknownCandidatesPerHash

(* Single use: whatever a netgroup can still spend or has taken for a hash *)
(* is backed by that many sidecars it stored for that hash, so no sequence *)
(* of Consume and RestoreConsumed turns one sidecar into two attempts.     *)
(* What Consume spends without a further check has passed the check.       *)
GrantsPaid ==
    \A k \in Key :
        /\ receipts[k]
             + (IF k \in Keys(m_validated_entries) THEN 1 ELSE 0)
             + (IF k \in Keys(m_unknown_entries) THEN 1 ELSE 0)
           <= paid[k]
        /\ k \in Keys(m_validated_entries) => m_validated_entries[k].valid

(* A rollback cannot fail: the callers Assume() that RestoreConsumed       *)
(* returns true, so no eviction loop may run out of candidates.            *)
RollbackPossible ==
    \A k \in Key :
        receipts[k] > 0 /\ k \notin LiveValidated => Evictions(k) # {}
=============================================================================
