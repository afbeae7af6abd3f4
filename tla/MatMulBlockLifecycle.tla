------------------------ MODULE MatMulBlockLifecycle ------------------------
(***************************************************************************)
(* node::MatMulBlockLifecycle, the table that owns every retained block    *)
(* body and every expensive validation attempt of the MatMul pipeline.     *)
(*                                                                         *)
(* Each public method holds m_mutex from its first to its last statement,  *)
(* so each is one action.  The callers are the message thread, the         *)
(* scheduler thread and the verify worker's callbacks; they may call any   *)
(* method in any order, and may call with the token of an attempt that has *)
(* long been abandoned.  That is the environment modelled here.            *)
(*                                                                         *)
(* Time.  The code stores time points and compares them with the clock.    *)
(* The model stores what those comparisons see: how long ago an attempt    *)
(* was updated (idle) and how long ago a body was stored (age).  Both stop *)
(* counting once they exceed the limit they are compared with.  The retry  *)
(* delay of a body only steers which body NextRetry offers to its caller   *)
(* and changes no other part of the table; it is left out.                 *)
(***************************************************************************)
EXTENDS Integers, FiniteSets

CONSTANTS
    Hash,               \* block hashes
    Sizes,              \* serialized sizes a body can have
    MaxRetainedCount,   \* m_max_retained_count
    MaxRetainedBytes,   \* m_max_retained_bytes
    RetainedMaxAge,     \* m_retained_max_age
    AsyncStaleAfter,    \* m_async_stale_after
    MaxGeneration       \* bound: attempts begun in one behaviour

ASSUME LifecycleAssumption ==
    /\ IsFiniteSet(Hash)
    /\ Sizes \subseteq Nat \ {0}
    /\ MaxRetainedCount \in Nat
    /\ MaxRetainedBytes \in Nat
    /\ RetainedMaxAge \in Nat
    /\ AsyncStaleAfter \in Nat
    /\ MaxGeneration \in Nat

VARIABLES
    m_entries,          \* the table; an absent hash has NoEntry
    m_retained_bytes,   \* running total of the retained bodies' sizes
    m_next_generation,  \* the last generation handed out
    attempts            \* what the callers hold: one record per generation

vars == <<m_entries, m_retained_bytes, m_next_generation, attempts>>

Generation == 1..MaxGeneration

ActiveStates ==
    {"ADMISSION_PENDING", "QUEUED", "RUNNING", "AWAITING_QUORUM", "COMPLETING"}

States == ActiveStates \cup {"BODY_RETAINED", "TRANSIENT_FAILURE"}

(* A retained body; bytes = 0 is std::nullopt (no block serializes to 0). *)
Body == [bytes : Sizes \cup {0}, age : Nat]

NoBody == [bytes |-> 0, age |-> 0]

(* lease, cancelled and resources are shared pointers: 0 is null, otherwise *)
(* the generation of the attempt that handed the object in.  The flag that *)
(* Begin allocates is shared with nobody and is null here.                 *)
Entry == [state      : States \cup {"ABSENT"},
          generation : Nat,
          idle       : Nat,
          body       : Body,
          lease      : Nat,
          cancelled  : Nat,
          resources  : Nat]

NoEntry == [state      |-> "ABSENT",
            generation |-> 0,
            idle       |-> 0,
            body       |-> NoBody,
            lease      |-> 0,
            cancelled  |-> 0,
            resources  |-> 0]

(* The caller's side of an attempt: the hash of its token, the cancellation *)
(* flag its worker job polls ("none" until Queue shares one), and whether  *)
(* the holder of the token has itself ended the attempt.                   *)
Attempt == [hash     : SUBSET Hash,
            flag     : {"none", "clear", "raised"},
            released : BOOLEAN]

NoAttempt == [hash |-> {}, flag |-> "none", released |-> FALSE]

(* Every field of the table, the generation counter and what the callers   *)
(* hold keep their types (the running total is RetainedBytesExact's).      *)
TypeOK ==
    /\ m_entries \in [Hash -> Entry]
    /\ m_next_generation \in 0..MaxGeneration
    /\ attempts \in [Generation -> Attempt]

Init ==
    /\ m_entries = [h \in Hash |-> NoEntry]
    /\ m_retained_bytes = 0
    /\ m_next_generation = 0
    /\ attempts = [g \in Generation |-> NoAttempt]

-----------------------------------------------------------------------------
(* Helpers of the class.  E is a table, e an entry, g a generation.        *)

IsActive(e) == e.state \in ActiveStates

Present(e) == e.state # "ABSENT"

HasBody(e) == e.body.bytes # 0

IsStale(e) == IsActive(e) /\ e.idle > AsyncStaleAfter

Retained(E) == {h \in Hash : HasBody(E[h])}

RetainedCount(E) == Cardinality(Retained(E))

(* The bytes of the bodies that the entries of S hold, and their number. *)
Bytes(E, S) == UNION {{h} \X (1..E[h].body.bytes) : h \in S}

BytesOf(E, S) == Cardinality(Bytes(E, S))

(* Mutant of Find: any token of the hash finds the entry. *)
FindAnyGeneration(g, h) == attempts[g].hash = {h} /\ Present(m_entries[h])

(* Find: token g still names the current generation of its hash. *)
Find(g, h) == attempts[g].hash = {h} /\ m_entries[h].generation = g

(* Store true in the cancellation flags that the entries of S share. *)
RaiseFlags(S) ==
    [g \in Generation |->
        IF \E h \in S : m_entries[h].cancelled = g
        THEN [attempts[g] EXCEPT !.flag = "raised"]
        ELSE attempts[g]]

(* EraseEntry on every hash of S. *)
EraseAll(E, S) == [h \in Hash |-> IF h \in S THEN NoEntry ELSE E[h]]

(* What ExpireStaleAttempt leaves of a stale entry. *)
Expired(e) ==
    IF HasBody(e)
    THEN [e EXCEPT !.state = "TRANSIENT_FAILURE", !.idle = 0, !.lease = 0,
                   !.cancelled = 0, !.resources = 0]
    ELSE NoEntry

(* Mutant of ExpiredInSweep: the sweep forgets the pending-work lease. *)
ExpiredKeepsLease(e) ==
    IF HasBody(e)
    THEN [e EXCEPT !.state = "TRANSIENT_FAILURE", !.idle = 0, !.cancelled = 0]
    ELSE NoEntry

(* ExpireStaleAttempts does the same without clearing owned_resources. *)
ExpiredInSweep(e) ==
    IF HasBody(e)
    THEN [e EXCEPT !.state = "TRANSIENT_FAILURE", !.idle = 0, !.lease = 0,
                   !.cancelled = 0]
    ELSE NoEntry

(* PruneExpiredRetained: the inactive bodies whose time to live is over. *)
Prunable(E) ==
    {h \in Hash : /\ HasBody(E[h])
                  /\ ~IsActive(E[h])
                  /\ E[h].body.age > RetainedMaxAge}

(* OldestEvictable considers these, oldest body first. *)
Evictable(E, h) == {v \in Hash \ {h} : HasBody(E[v]) /\ ~IsActive(E[v])}

-----------------------------------------------------------------------------
(* The operations.                                                         *)

(* Mutant of Begin: the check for a live attempt is missing. *)
BeginOverLive(h) ==
    LET g == m_next_generation + 1
    IN  /\ g \in Generation
        /\ m_entries' = [m_entries EXCEPT ![h] =
               [@ EXCEPT !.state = "ADMISSION_PENDING", !.idle = 0,
                         !.lease = 0, !.cancelled = 0, !.generation = g]]
        /\ m_next_generation' = g
        /\ attempts' = [attempts EXCEPT ![g] = [NoAttempt EXCEPT !.hash = {h}]]
        /\ UNCHANGED m_retained_bytes

(* Begin: expire a stale attempt of h, then start a new generation. *)
Begin(h) ==
    LET e == IF IsStale(m_entries[h]) THEN Expired(m_entries[h])
                                      ELSE m_entries[h]
        g == m_next_generation + 1
    IN  /\ g \in Generation
        /\ ~IsActive(e)
        /\ m_entries' = [m_entries EXCEPT ![h] =
               [e EXCEPT !.state = "ADMISSION_PENDING", !.idle = 0,
                         !.lease = 0, !.cancelled = 0, !.generation = g]]
        /\ m_next_generation' = g
        /\ attempts' =
               [RaiseFlags(IF IsStale(m_entries[h]) THEN {h} ELSE {})
                   EXCEPT ![g] = [NoAttempt EXCEPT !.hash = {h}]]
        /\ UNCHANGED m_retained_bytes

(* IsActive(hash): the query expires a stale attempt of h. *)
QueryIsActive(h) ==
    /\ IsStale(m_entries[h])
    /\ m_entries' = [m_entries EXCEPT ![h] = Expired(@)]
    /\ attempts' = RaiseFlags({h})
    /\ UNCHANGED <<m_retained_bytes, m_next_generation>>

(* Mutant of ExpireStaleAttempts: the sweep drops the shared flag unraised. *)
SweepWithoutCancel ==
    LET stale == {h \in Hash : IsStale(m_entries[h])}
    IN  /\ stale # {}
        /\ m_entries' = [h \in Hash |-> IF h \in stale
                                        THEN ExpiredInSweep(m_entries[h])
                                        ELSE m_entries[h]]
        /\ UNCHANGED <<m_retained_bytes, m_next_generation, attempts>>

(* Mutant of ExpireStaleAttempts: the sweep skips entries without a body. *)
SweepBodiesOnly ==
    LET stale == {h \in Hash : IsStale(m_entries[h]) /\ HasBody(m_entries[h])}
    IN  /\ stale # {}
        /\ m_entries' = [h \in Hash |-> IF h \in stale
                                        THEN ExpiredInSweep(m_entries[h])
                                        ELSE m_entries[h]]
        /\ attempts' = RaiseFlags(stale)
        /\ UNCHANGED <<m_retained_bytes, m_next_generation>>

(* ExpireStaleAttempts: the reconcile sweep over the whole table. *)
ExpireStaleAttempts ==
    LET stale == {h \in Hash : IsStale(m_entries[h])}
    IN  /\ stale # {}
        /\ m_entries' = [h \in Hash |-> IF h \in stale
                                        THEN ExpiredInSweep(m_entries[h])
                                        ELSE m_entries[h]]
        /\ attempts' = RaiseFlags(stale)
        /\ UNCHANGED <<m_retained_bytes, m_next_generation>>

(* Mutant of Fits: the new body is not counted. *)
FitsOffByOne(E, total, h, b, V) ==
    /\ Cardinality(Retained(E) \ (V \cup {h})) <= MaxRetainedCount
    /\ total - BytesOf(E, V) - E[h].body.bytes + b <= MaxRetainedBytes

(* Would a body of size b for h fit once the victims V are gone from E? *)
Fits(E, total, h, b, V) ==
    /\ Cardinality(Retained(E) \ (V \cup {h})) + 1 <= MaxRetainedCount
    /\ total - BytesOf(E, V) - E[h].body.bytes + b <= MaxRetainedBytes

(* The eviction loop of Retain: take the oldest evictable entry until the  *)
(* new body fits or none is left.  Bodies of equal age leave in map order, *)
(* which hashes make arbitrary.                                            *)
Victims(E, total, h, b) ==
    {V \in SUBSET Evictable(E, h) :
        /\ \A v \in V, w \in Evictable(E, h) \ V : E[v].body.age >= E[w].body.age
        /\ Fits(E, total, h, b, V) \/ V = Evictable(E, h)
        /\ V # {} => \E v \in V :
               /\ \A w \in V : E[w].body.age >= E[v].body.age
               /\ ~Fits(E, total, h, b, V \ {v})}

(* Mutant of RetainedEntry: the body's age is reset. *)
RetainedRefreshesAge(e, b) ==
    [e EXCEPT !.body = [bytes |-> b, age |-> 0],
              !.state = IF IsActive(e) THEN @ ELSE "BODY_RETAINED"]

(* The entry Retain stores: age and, while active, the state are kept. *)
RetainedEntry(e, b) ==
    LET stored == [e EXCEPT !.body.bytes = b]
    IN  IF IsActive(e)
        THEN stored
        ELSE [stored EXCEPT !.state = "BODY_RETAINED", !.idle = 0]

(* Retain: prune, make room, then insert or refresh the body of h. *)
Retain(h, b) ==
    /\ b <= MaxRetainedBytes
    /\ LET pruned == Prunable(m_entries)
           E      == EraseAll(m_entries, pruned)
           total  == m_retained_bytes - BytesOf(m_entries, pruned)
       IN  \E V \in Victims(E, total, h, b) :
              LET F == EraseAll(E, V)
                  rest == total - BytesOf(E, V)
              IN  /\ attempts' = RaiseFlags(pruned \cup V)
                  /\ \/ /\ Fits(E, total, h, b, V)
                        /\ m_entries' = [F EXCEPT ![h] = RetainedEntry(@, b)]
                        /\ m_retained_bytes' = rest - E[h].body.bytes + b
                     \/ /\ ~Fits(E, total, h, b, V)
                        /\ m_entries' = F
                        /\ m_retained_bytes' = rest
    /\ UNCHANGED m_next_generation

(* NextRetry: the lookup of a body to retry prunes the table first. *)
NextRetry ==
    LET pruned == Prunable(m_entries)
    IN  /\ pruned # {}
        /\ m_entries' = EraseAll(m_entries, pruned)
        /\ m_retained_bytes' = m_retained_bytes - BytesOf(m_entries, pruned)
        /\ attempts' = RaiseFlags(pruned)
        /\ UNCHANGED m_next_generation

(* Queue: hand over the pending-work lease (absent for a header join), the *)
(* flag the worker job polls and the source pin.                           *)
Queue(g, h, leased) ==
    /\ Find(g, h)
    /\ m_entries[h].state = "ADMISSION_PENDING"
    /\ m_entries' = [m_entries EXCEPT
           ![h] = [@ EXCEPT !.state = "QUEUED", !.idle = 0, !.cancelled = g,
                            !.resources = g, !.lease = IF leased THEN g ELSE 0]]
    /\ attempts' = [attempts EXCEPT ![g].flag = "clear"]
    /\ UNCHANGED <<m_retained_bytes, m_next_generation>>

Start(g, h) ==
    /\ Find(g, h)
    /\ m_entries[h].state \in {"QUEUED", "AWAITING_QUORUM"}
    /\ m_entries' = [m_entries EXCEPT
           ![h] = [@ EXCEPT !.state = "RUNNING", !.idle = 0]]
    /\ UNCHANGED <<m_retained_bytes, m_next_generation, attempts>>

Park(g, h) ==
    /\ Find(g, h)
    /\ m_entries[h].state = "RUNNING"
    /\ m_entries' = [m_entries EXCEPT
           ![h] = [@ EXCEPT !.state = "AWAITING_QUORUM", !.idle = 0, !.lease = 0]]
    /\ UNCHANGED <<m_retained_bytes, m_next_generation, attempts>>

Completing(g, h) ==
    /\ Find(g, h)
    /\ IsActive(m_entries[h])
    /\ m_entries' = [m_entries EXCEPT
           ![h] = [@ EXCEPT !.state = "COMPLETING", !.idle = 0]]
    /\ UNCHANGED <<m_retained_bytes, m_next_generation, attempts>>

(* Retry: end the attempt without a verdict; a body survives it. *)
Retry(g, h) ==
    /\ Find(g, h)
    /\ m_entries' = [m_entries EXCEPT ![h] =
           IF HasBody(@)
           THEN [@ EXCEPT !.state = "TRANSIENT_FAILURE", !.idle = 0, !.lease = 0,
                          !.cancelled = 0, !.resources = 0]
           ELSE NoEntry]
    /\ attempts' = [attempts EXCEPT ![g].released = TRUE]
    /\ UNCHANGED <<m_retained_bytes, m_next_generation>>

(* Terminal: a verdict releases everything the attempt's entry owns. *)
Terminal(g, h) ==
    /\ Find(g, h)
    /\ m_entries' = EraseAll(m_entries, {h})
    /\ m_retained_bytes' = m_retained_bytes - m_entries[h].body.bytes
    /\ attempts' = [RaiseFlags({h}) EXCEPT ![g].released = TRUE]
    /\ UNCHANGED m_next_generation

(* ExpireActiveWithoutBody: reclaim a marker so the block can be fetched. *)
ExpireActiveWithoutBody(h) ==
    /\ IsActive(m_entries[h])
    /\ ~HasBody(m_entries[h])
    /\ m_entries' = EraseAll(m_entries, {h})
    /\ attempts' = RaiseFlags({h})
    /\ UNCHANGED <<m_retained_bytes, m_next_generation>>

(* RetryInactive: hash-only cleanup that must not touch a live attempt. *)
RetryInactive(h) ==
    /\ Present(m_entries[h])
    /\ ~IsActive(m_entries[h])
    /\ m_entries' = [m_entries EXCEPT ![h] =
           IF HasBody(@) THEN [@ EXCEPT !.state = "TRANSIENT_FAILURE", !.idle = 0]
           ELSE NoEntry]
    /\ UNCHANGED <<m_retained_bytes, m_next_generation, attempts>>

(* Mutant of TerminalRetained: the bytes of the erased body stay counted. *)
TerminalRetainedLeaksBytes(h) ==
    /\ Present(m_entries[h])
    /\ ~IsActive(m_entries[h])
    /\ m_entries' = EraseAll(m_entries, {h})
    /\ attempts' = RaiseFlags({h})
    /\ UNCHANGED <<m_retained_bytes, m_next_generation>>

(* TerminalRetained: hash-only release of an inactive entry. *)
TerminalRetained(h) ==
    /\ Present(m_entries[h])
    /\ ~IsActive(m_entries[h])
    /\ m_entries' = EraseAll(m_entries, {h})
    /\ m_retained_bytes' = m_retained_bytes - m_entries[h].body.bytes
    /\ attempts' = RaiseFlags({h})
    /\ UNCHANGED m_next_generation

(* One unit of time passes. *)
Tick ==
    /\ m_entries' = [h \in Hash |->
           [m_entries[h] EXCEPT
               !.idle = IF IsActive(m_entries[h]) /\ @ <= AsyncStaleAfter
                        THEN @ + 1 ELSE @,
               !.body.age = IF HasBody(m_entries[h]) /\ @ <= RetainedMaxAge
                            THEN @ + 1 ELSE @]]
    /\ UNCHANGED <<m_retained_bytes, m_next_generation, attempts>>

-----------------------------------------------------------------------------

(* Calls that name a hash only. *)
HashCall(h) ==
    \/ Begin(h)
    \/ QueryIsActive(h)
    \/ \E b \in Sizes : Retain(h, b)
    \/ ExpireActiveWithoutBody(h)
    \/ RetryInactive(h)
    \/ TerminalRetained(h)

(* Calls with the token of generation g. *)
TokenCall(g, h) ==
    \/ \E leased \in BOOLEAN : Queue(g, h, leased)
    \/ Start(g, h)
    \/ Park(g, h)
    \/ Completing(g, h)
    \/ Retry(g, h)
    \/ Terminal(g, h)

Next ==
    \/ \E h \in Hash : HashCall(h)
    \/ \E g \in Generation, h \in Hash : TokenCall(g, h)
    \/ ExpireStaleAttempts
    \/ NextRetry
    \/ Tick

Spec == Init /\ [][Next]_vars

(* The clock runs, and the reconcile pass sweeps the table again and again. *)
FairSpec == Spec /\ WF_vars(Tick) /\ WF_vars(ExpireStaleAttempts)

-----------------------------------------------------------------------------
(* Properties.                                                             *)

(* m_retained_bytes is at every moment the sum of the retained bodies'     *)
(* sizes, through every insertion, replacement, eviction and erasure, and  *)
(* stays within the byte cap (the size_t never wraps below zero).          *)
RetainedBytesExact ==
    /\ m_retained_bytes = BytesOf(m_entries, Hash)
    /\ m_retained_bytes <= MaxRetainedBytes

(* Retain never lets the table hold more than m_max_retained_count bodies, *)
(* although bodies of active attempts can neither expire nor be evicted.   *)
RetainedCountBounded == RetainedCount(m_entries) <= MaxRetainedCount

(* An entry without a live attempt owns a body and nothing of an attempt:  *)
(* every path that ends an attempt erases the entry or leaves a retryable  *)
(* body, never an empty entry nobody would remove.                         *)
InactiveOwnsBody ==
    \A h \in Hash :
        LET e == m_entries[h]
        IN  Present(e) /\ ~IsActive(e) =>
                HasBody(e) /\ e.lease = 0 /\ e.cancelled = 0

(* A pending-work lease is owned by the live attempt that reserved it and  *)
(* by no parked, abandoned or finished one: Park, Retry, expiry and Begin  *)
(* all hand it back.                                                       *)
LeaseFollowsAttempt ==
    \A h \in Hash :
        LET e == m_entries[h]
        IN  e.lease # 0 => /\ e.lease = e.generation
                           /\ e.state \in {"QUEUED", "RUNNING", "COMPLETING"}

(* The worker job of an attempt is never orphaned running: the attempt is  *)
(* live and its entry still holds the job's flag, or the flag was raised,  *)
(* or the token's own holder ended the attempt.                            *)
AbandonedJobCancelled ==
    \A g \in Generation :
        attempts[g].flag = "clear" /\ ~attempts[g].released =>
            \E h \in Hash : /\ Find(g, h)
                            /\ IsActive(m_entries[h])
                            /\ m_entries[h].cancelled = g

(* e and f are the entry of a hash before and after a step. *)
AttemptKept(e, f) ==
    /\ IsActive(f)
    /\ f.generation = e.generation
    /\ e.cancelled # 0 => f.cancelled = e.cancelled
    /\ HasBody(e) => HasBody(f)

(* A late callback is harmless: a live attempt that is neither stale nor   *)
(* without a body keeps its generation, flag and body until a call with    *)
(* its own token ends it.  No older token, hash-only call, eviction or     *)
(* sweep does.                                                             *)
LateCallbackHarmless ==
    [][\A h \in Hash :
          LET e == m_entries[h]
          IN  IsActive(e) /\ ~IsStale(e) /\ HasBody(e) =>
                 \/ AttemptKept(e, m_entries'[h])
                 \/ ~attempts[e.generation].released
                        /\ attempts'[e.generation].released]_vars

(* The time to live of a body is not refreshed by deliveries or retries: a *)
(* body only grows younger when the old one's time was already over.       *)
BodyAgeNotRefreshed ==
    [][\A h \in Hash :
          /\ HasBody(m_entries[h])
          /\ HasBody(m_entries'[h])
          /\ m_entries'[h].body.age < m_entries[h].body.age
          => m_entries[h].body.age > RetainedMaxAge]_vars

(* The table implements exclusive, expiring, never-reused attempt leases. *)
AL == INSTANCE AttemptLease WITH
          owner   <- [h \in Hash |-> IF IsActive(m_entries[h])
                                     THEN m_entries[h].generation ELSE 0],
          overdue <- {h \in Hash : IsStale(m_entries[h])},
          last    <- m_next_generation

RefinesAttemptLease == AL!Spec

(* No hash is blocked for ever by a forgotten attempt: again and again it  *)
(* has no live attempt, or one that has just made progress.                *)
AttemptNeverStuck ==
    \A h \in Hash : []<>(~IsActive(m_entries[h]) \/ m_entries[h].idle = 0)
=============================================================================
