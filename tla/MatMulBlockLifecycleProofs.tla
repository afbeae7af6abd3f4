--------------------- MODULE MatMulBlockLifecycleProofs ---------------------
(***************************************************************************)
(* Proofs about MatMulBlockLifecycle, for every set of hashes, every cap   *)
(* and every number of attempts: the inductive invariant, that the table   *)
(* implements AttemptLease, and what no step of the table does.            *)
(***************************************************************************)
EXTENDS MatMulBlockLifecycle, FiniteSetTheorems, TLAPS

(* The inductive invariant.  An entry's generation was issued for its own  *)
(* hash, its flag is its own generation's, and an absent hash is NoEntry.  *)
EntryOK(h) ==
    LET e == m_entries[h]
    IN  /\ ~Present(e) => e = NoEntry
        /\ Present(e) /\ ~IsActive(e) => HasBody(e) /\ e.lease = 0 /\ e.cancelled = 0
        /\ e.lease # 0 => /\ e.lease = e.generation
                          /\ e.state \in {"QUEUED", "RUNNING", "COMPLETING"}
        /\ e.cancelled # 0 => e.cancelled = e.generation /\ IsActive(e)
        /\ IsActive(e) => e.generation # 0
        /\ e.generation # 0 => /\ e.generation \in 1..m_next_generation
                               /\ attempts[e.generation].hash = {h}

(* TypeOK, the entries one by one, and no orphaned job. *)
Inv ==
    /\ TypeOK
    /\ \A h \in Hash : EntryOK(h)
    /\ AbandonedJobCancelled

USE LifecycleAssumption DEF Generation

-----------------------------------------------------------------------------
(* Lemmas about the operators of the model.                                *)

(* Raising flags changes nothing of an attempt but its flag. *)
LEMMA RaiseFlagsType ==
    ASSUME TypeOK, NEW S \in SUBSET Hash
    PROVE  /\ RaiseFlags(S) \in [Generation -> Attempt]
           /\ \A g \in Generation :
                 /\ RaiseFlags(S)[g].hash = attempts[g].hash
                 /\ RaiseFlags(S)[g].released = attempts[g].released
                 /\ RaiseFlags(S)[g].flag \in {attempts[g].flag, "raised"}
                 /\ (\E h \in S : m_entries[h].cancelled = g)
                        => RaiseFlags(S)[g].flag = "raised"
  BY DEF TypeOK, RaiseFlags, Attempt

(* NoEntry and its body have their types. *)
LEMMA NoEntryType ==
    /\ NoEntry \in Entry
    /\ ~Present(NoEntry) /\ ~IsActive(NoEntry) /\ ~HasBody(NoEntry)
  BY DEF NoEntry, NoBody, Entry, Body, States, ActiveStates, Present, IsActive, HasBody

(* The empty table satisfies the invariant. *)
LEMMA InitInv == Init => Inv
  BY NoEntryType
  DEF Init, Inv, TypeOK, EntryOK, AbandonedJobCancelled, NoEntry, NoAttempt, Attempt

(* A step that changes one entry keeps the invariant when the new entry is *)
(* as it should be and every job that still runs uncancelled is either the *)
(* new entry's or one whose flag the old entry did not hold.               *)
LEMMA OneEntryStep ==
    ASSUME Inv, NEW h \in Hash, NEW f \in Entry,
           m_entries' = [m_entries EXCEPT ![h] = f],
           m_next_generation' \in m_next_generation..MaxGeneration,
           attempts' \in [Generation -> Attempt],
           \A g \in Generation :
              g <= m_next_generation => attempts'[g].hash = attempts[g].hash,
           EntryOK(h)',
           \A g \in Generation :
              attempts'[g].flag = "clear" /\ ~attempts'[g].released =>
                 \/ /\ attempts'[g].hash = {h} /\ f.generation = g
                    /\ IsActive(f) /\ f.cancelled = g
                 \/ /\ attempts[g].flag = "clear" /\ ~attempts[g].released
                    /\ attempts'[g].hash = attempts[g].hash
                    /\ m_entries[h].cancelled # g
    PROVE  Inv'
  <1>1. m_entries'[h] = f /\ \A k \in Hash \ {h} : m_entries'[k] = m_entries[k]
    BY DEF Inv, TypeOK
  <1>2. TypeOK'
    BY DEF Inv, TypeOK
  <1>3. ASSUME NEW k \in Hash PROVE EntryOK(k)'
    <2>1. CASE k = h
      BY <2>1
    <2>2. CASE k # h
      <3>1. m_entries'[k] = m_entries[k] /\ m_entries[k] \in Entry /\ EntryOK(k)
        BY <2>2, <1>1 DEF Inv, TypeOK
      <3>2. m_next_generation \in Nat /\ m_next_generation' \in Nat
        BY DEF Inv, TypeOK
      <3>3. m_entries[k].generation # 0 =>
               /\ m_entries'[k].generation \in 1..m_next_generation'
               /\ attempts'[m_entries'[k].generation].hash = {k}
        BY <3>1, <3>2 DEF EntryOK
      <3> QED BY <3>1, <3>3 DEF EntryOK
    <2> QED BY <2>1, <2>2
  <1>4. ASSUME NEW g \in Generation,
               attempts'[g].flag = "clear", ~attempts'[g].released
        PROVE  \E k \in Hash : /\ attempts'[g].hash = {k} /\ m_entries'[k].generation = g
                               /\ IsActive(m_entries'[k])
                               /\ m_entries'[k].cancelled = g
    <2>1. CASE attempts'[g].hash = {h} /\ f.generation = g /\ IsActive(f) /\ f.cancelled = g
      BY <2>1, <1>1
    <2>2. CASE /\ attempts[g].flag = "clear" /\ ~attempts[g].released
               /\ attempts'[g].hash = attempts[g].hash
               /\ m_entries[h].cancelled # g
      BY <2>2, <1>1 DEF Inv, AbandonedJobCancelled, Find
    <2> QED BY <2>1, <2>2, <1>4
  <1>5. AbandonedJobCancelled'
    BY <1>4 DEF AbandonedJobCancelled, Find
  <1> QED BY <1>2, <1>3, <1>5 DEF Inv

(* The case of a step that leaves the callers' side alone. *)
LEMMA OneEntryQuietStep ==
    ASSUME Inv, NEW h \in Hash, NEW f \in Entry,
           m_entries' = [m_entries EXCEPT ![h] = f],
           UNCHANGED <<m_next_generation, attempts>>,
           EntryOK(h)',
           m_entries[h].cancelled # 0 =>
              /\ IsActive(f) /\ f.cancelled = m_entries[h].cancelled
              /\ f.generation = m_entries[h].generation
    PROVE  Inv'
  <1>1. /\ attempts' \in [Generation -> Attempt]
        /\ \A g \in Generation :
              g <= m_next_generation => attempts'[g].hash = attempts[g].hash
    BY DEF Inv, TypeOK
  <1>2. m_next_generation' \in m_next_generation..MaxGeneration
    BY DEF Inv, TypeOK
  <1>3. EntryOK(h)
    BY DEF Inv
  <1>4. ASSUME NEW k \in Generation, attempts'[k].flag = "clear", ~attempts'[k].released
        PROVE  \/ /\ attempts'[k].hash = {h} /\ f.generation = k
                  /\ IsActive(f) /\ f.cancelled = k
               \/ /\ attempts[k].flag = "clear" /\ ~attempts[k].released
                  /\ attempts'[k].hash = attempts[k].hash
                  /\ m_entries[h].cancelled # k
    BY <1>3, <1>4 DEF EntryOK
  <1> QED BY <1>1, <1>2, <1>4, OneEntryStep, Zenon

(* The case of a step that raises the flag of the entry it changes. *)
LEMMA OneEntryRaiseStep ==
    ASSUME Inv, NEW h \in Hash, NEW f \in Entry,
           m_entries' = [m_entries EXCEPT ![h] = f],
           UNCHANGED m_next_generation,
           attempts' = RaiseFlags({h}),
           EntryOK(h)'
    PROVE  Inv'
  <1>1. /\ attempts' \in [Generation -> Attempt]
        /\ \A g \in Generation :
              g <= m_next_generation => attempts'[g].hash = attempts[g].hash
    BY RaiseFlagsType DEF Inv
  <1>2. m_next_generation' \in m_next_generation..MaxGeneration
    BY DEF Inv, TypeOK
  <1>3. ASSUME NEW k \in Generation, attempts'[k].flag = "clear", ~attempts'[k].released
        PROVE  /\ attempts[k].flag = "clear" /\ ~attempts[k].released
               /\ attempts'[k].hash = attempts[k].hash
               /\ m_entries[h].cancelled # k
    BY <1>3, RaiseFlagsType DEF Inv
  <1> QED BY <1>1, <1>2, <1>3, OneEntryStep, Zenon

(* The case of a step by which the holder of generation g ends the attempt. *)
LEMMA OneEntryReleaseStep ==
    ASSUME Inv, NEW h \in Hash, NEW f \in Entry, NEW g \in Generation,
           Find(g, h),
           m_entries' = [m_entries EXCEPT ![h] = f],
           UNCHANGED m_next_generation,
           NEW A \in [Generation -> Attempt],
           \A k \in Generation :
              /\ A[k].hash = attempts[k].hash /\ A[k].released = attempts[k].released
              /\ A[k].flag \in {attempts[k].flag, "raised"},
           attempts' = [A EXCEPT ![g].released = TRUE],
           EntryOK(h)'
    PROVE  Inv'
  <1> DEFINE a == [A[g] EXCEPT !.released = TRUE]
  <1>1. a \in Attempt /\ a.hash = attempts[g].hash /\ a.released = TRUE
    BY Zenon DEF Attempt
  <1> HIDE DEF a
  <1>2. /\ attempts' \in [Generation -> Attempt]
        /\ attempts'[g] = a
        /\ \A k \in Generation \ {g} : attempts'[k] = A[k]
    BY <1>1 DEF a
  <1>3. \A k \in Generation : attempts'[k].hash = attempts[k].hash
    BY <1>1, <1>2
  <1>4. m_next_generation' \in m_next_generation..MaxGeneration
    BY DEF Inv, TypeOK
  <1>5. m_entries[h].cancelled \in {0, g}
    BY DEF Inv, EntryOK, Find
  <1>6. ASSUME NEW k \in Generation, attempts'[k].flag = "clear", ~attempts'[k].released
        PROVE  /\ attempts[k].flag = "clear" /\ ~attempts[k].released
               /\ attempts'[k].hash = attempts[k].hash
               /\ m_entries[h].cancelled # k
    BY <1>1, <1>2, <1>3, <1>5, <1>6
  <1> QED BY <1>2, <1>3, <1>4, <1>6, OneEntryStep, Zenon

(* An erased entry is as it should be. *)
LEMMA ErasedEntryOK ==
    ASSUME NEW h \in Hash, m_entries'[h] = NoEntry
    PROVE  EntryOK(h)'
  <1>1. NoEntry.lease = 0 /\ NoEntry.cancelled = 0 /\ NoEntry.generation = 0
    BY DEF NoEntry
  <1> QED BY <1>1, NoEntryType DEF EntryOK

(* EraseAll of a single hash changes that entry only. *)
LEMMA EraseOne ==
    ASSUME TypeOK, NEW h \in Hash
    PROVE  /\ EraseAll(m_entries, {h}) = [m_entries EXCEPT ![h] = NoEntry]
           /\ [m_entries EXCEPT ![h] = NoEntry][h] = NoEntry
  BY Zenon DEF TypeOK, EraseAll

-----------------------------------------------------------------------------
(* Calls with a token preserve the invariant.                              *)

(* Queue gives the entry a lease and a flag of its own generation. *)
LEMMA QueueInv ==
    ASSUME Inv, NEW g \in Generation, NEW h \in Hash, NEW leased \in BOOLEAN,
           Queue(g, h, leased)
    PROVE  Inv'
  <1> DEFINE e == m_entries[h]
             f == [e EXCEPT !.state = "QUEUED", !.idle = 0, !.cancelled = g,
                            !.resources = g, !.lease = IF leased THEN g ELSE 0]
             a == [attempts[g] EXCEPT !.flag = "clear"]
  <1>1. e \in Entry /\ attempts[g] \in Attempt /\ EntryOK(h)
    BY DEF Inv, TypeOK
  <1>2. /\ f.state = "QUEUED" /\ f.generation = e.generation /\ f.body = e.body
        /\ f.cancelled = g /\ f.lease = IF leased THEN g ELSE 0
    BY <1>1 DEF Entry
  <1>3. f \in Entry
    <2>1. g \in Nat /\ (IF leased THEN g ELSE 0) \in Nat
      OBVIOUS
    <2> QED BY <1>1, <2>1, Zenon DEF Entry, States, ActiveStates
  <1>4. a \in Attempt /\ a.hash = attempts[g].hash
    BY <1>1 DEF Attempt
  <1>5. /\ m_entries' = [m_entries EXCEPT ![h] = f]
        /\ attempts' = [attempts EXCEPT ![g] = a]
        /\ m_next_generation' = m_next_generation
        /\ attempts[g].hash = {h} /\ e.generation = g
    BY DEF Queue, Find
  <1> HIDE DEF f, a
  <1>6. /\ attempts' \in [Generation -> Attempt] /\ attempts'[g] = a
        /\ \A k \in Generation \ {g} : attempts'[k] = attempts[k]
        /\ m_entries'[h] = f
    BY <1>4, <1>5 DEF Inv, TypeOK
  <1>7. EntryOK(h)'
    BY <1>1, <1>2, <1>4, <1>5, <1>6 DEF EntryOK, IsActive, Present, ActiveStates, HasBody
  <1>8. ASSUME NEW k \in Generation, attempts'[k].flag = "clear", ~attempts'[k].released
        PROVE  \/ /\ attempts'[k].hash = {h} /\ f.generation = k
                  /\ IsActive(f) /\ f.cancelled = k
               \/ /\ attempts[k].flag = "clear" /\ ~attempts[k].released
                  /\ attempts'[k].hash = attempts[k].hash
                  /\ m_entries[h].cancelled # k
    BY <1>1, <1>2, <1>4, <1>5, <1>6, <1>8 DEF EntryOK, IsActive, ActiveStates
  <1>9. m_next_generation' \in m_next_generation..MaxGeneration
    BY <1>5 DEF Inv, TypeOK
  <1>10. \A k \in Generation : attempts'[k].hash = attempts[k].hash
    BY <1>4, <1>6
  <1> QED BY <1>3, <1>5, <1>6, <1>7, <1>8, <1>9, <1>10, OneEntryStep, Zenon
(* Start changes the state of an active entry only. *)
LEMMA StartInv ==
    ASSUME Inv, NEW g \in Generation, NEW h \in Hash, Start(g, h)
    PROVE  Inv'
  <1> DEFINE e == m_entries[h]
             f == [e EXCEPT !.state = "RUNNING", !.idle = 0]
  <1>1. e \in Entry /\ EntryOK(h) /\ IsActive(e)
    BY DEF Inv, TypeOK, Start, IsActive, ActiveStates
  <1>2. /\ f.state = "RUNNING" /\ f.generation = e.generation /\ f.body = e.body
        /\ f.cancelled = e.cancelled /\ f.lease = e.lease
    BY <1>1 DEF Entry
  <1>3. f \in Entry
    BY <1>1, Zenon DEF Entry, States, ActiveStates
  <1>4. m_entries' = [m_entries EXCEPT ![h] = f] /\ UNCHANGED <<m_next_generation, attempts>>
    BY DEF Start
  <1> HIDE DEF f
  <1>5. m_entries'[h] = f /\ IsActive(f) /\ Present(f)
    BY <1>2, <1>4 DEF Inv, TypeOK, IsActive, Present, ActiveStates
  <1>6. EntryOK(h)'
    BY <1>1, <1>2, <1>4, <1>5 DEF EntryOK, HasBody
  <1> QED BY <1>1, <1>2, <1>3, <1>4, <1>5, <1>6, OneEntryQuietStep, Zenon DEF EntryOK

(* Park gives up the lease with the running state. *)
LEMMA ParkInv ==
    ASSUME Inv, NEW g \in Generation, NEW h \in Hash, Park(g, h)
    PROVE  Inv'
  <1> DEFINE e == m_entries[h]
             f == [e EXCEPT !.state = "AWAITING_QUORUM", !.idle = 0, !.lease = 0]
  <1>1. e \in Entry /\ EntryOK(h) /\ IsActive(e)
    BY DEF Inv, TypeOK, Park, IsActive, ActiveStates
  <1>2. /\ f.state = "AWAITING_QUORUM" /\ f.generation = e.generation /\ f.body = e.body
        /\ f.cancelled = e.cancelled /\ f.lease = 0
    BY <1>1 DEF Entry
  <1>3. f \in Entry
    BY <1>1, Zenon DEF Entry, States, ActiveStates
  <1>4. m_entries' = [m_entries EXCEPT ![h] = f] /\ UNCHANGED <<m_next_generation, attempts>>
    BY DEF Park
  <1> HIDE DEF f
  <1>5. m_entries'[h] = f /\ IsActive(f) /\ Present(f)
    BY <1>2, <1>4 DEF Inv, TypeOK, IsActive, Present, ActiveStates
  <1>6. EntryOK(h)'
    BY <1>1, <1>2, <1>4, <1>5 DEF EntryOK, HasBody
  <1> QED BY <1>1, <1>2, <1>3, <1>4, <1>5, <1>6, OneEntryQuietStep, Zenon DEF EntryOK

(* Completing keeps the lease and the flag of an active entry. *)
LEMMA CompletingInv ==
    ASSUME Inv, NEW g \in Generation, NEW h \in Hash, Completing(g, h)
    PROVE  Inv'
  <1> DEFINE e == m_entries[h]
             f == [e EXCEPT !.state = "COMPLETING", !.idle = 0]
  <1>1. e \in Entry /\ EntryOK(h) /\ IsActive(e)
    BY DEF Inv, TypeOK, Completing, IsActive, ActiveStates
  <1>2. /\ f.state = "COMPLETING" /\ f.generation = e.generation /\ f.body = e.body
        /\ f.cancelled = e.cancelled /\ f.lease = e.lease
    BY <1>1 DEF Entry
  <1>3. f \in Entry
    BY <1>1, Zenon DEF Entry, States, ActiveStates
  <1>4. m_entries' = [m_entries EXCEPT ![h] = f] /\ UNCHANGED <<m_next_generation, attempts>>
    BY DEF Completing
  <1> HIDE DEF f
  <1>5. m_entries'[h] = f /\ IsActive(f) /\ Present(f)
    BY <1>2, <1>4 DEF Inv, TypeOK, IsActive, Present, ActiveStates
  <1>6. EntryOK(h)'
    BY <1>1, <1>2, <1>4, <1>5 DEF EntryOK, HasBody
  <1> QED BY <1>1, <1>2, <1>3, <1>4, <1>5, <1>6, OneEntryQuietStep, Zenon DEF EntryOK

(* Retry leaves a body without an attempt, or no entry at all. *)
LEMMA RetryInv ==
    ASSUME Inv, NEW g \in Generation, NEW h \in Hash, Retry(g, h)
    PROVE  Inv'
  <1> DEFINE e == m_entries[h]
             p == [e EXCEPT !.state = "TRANSIENT_FAILURE", !.idle = 0, !.lease = 0,
                            !.cancelled = 0, !.resources = 0]
             f == IF HasBody(e) THEN p ELSE NoEntry
  <1>1. e \in Entry /\ EntryOK(h) /\ Find(g, h)
    BY DEF Inv, TypeOK, Retry
  <1>2. /\ p.state = "TRANSIENT_FAILURE" /\ p.generation = e.generation
        /\ p.body = e.body /\ p.cancelled = 0 /\ p.lease = 0
    BY <1>1 DEF Entry
  <1>3. p \in Entry
    BY <1>1, Zenon DEF Entry, States, ActiveStates
  <1>4. /\ m_entries' = [m_entries EXCEPT ![h] = f]
        /\ attempts' = [attempts EXCEPT ![g].released = TRUE]
        /\ UNCHANGED m_next_generation
    BY DEF Retry
  <1> HIDE DEF p
  <1>5. m_entries'[h] = f /\ f \in Entry
    BY <1>3, <1>4, NoEntryType DEF Inv, TypeOK
  <1>6. attempts \in [Generation -> Attempt] /\ attempts'[g].hash = attempts[g].hash
    BY <1>4 DEF Inv, TypeOK, Attempt
  <1>7. EntryOK(h)'
    <2>1. CASE ~HasBody(e)
      BY <2>1, <1>5, ErasedEntryOK
    <2>2. CASE HasBody(e)
      <3>1. m_entries'[h] = p /\ Present(p) /\ ~IsActive(p) /\ HasBody(p)
        BY <2>2, <1>2, <1>5 DEF Present, IsActive, ActiveStates, HasBody
      <3> QED BY <3>1, <1>1, <1>2, <1>4, <1>6 DEF EntryOK, Find
    <2> QED BY <2>1, <2>2
  <1> HIDE DEF f
  <1> QED BY <1>1, <1>4, <1>5, <1>6, <1>7, OneEntryReleaseStep, Zenon

(* Terminal erases the entry of its own token. *)
LEMMA TerminalInv ==
    ASSUME Inv, NEW g \in Generation, NEW h \in Hash, Terminal(g, h)
    PROVE  Inv'
  <1>1. /\ Find(g, h) /\ UNCHANGED m_next_generation
        /\ m_entries' = EraseAll(m_entries, {h})
        /\ attempts' = [RaiseFlags({h}) EXCEPT ![g].released = TRUE]
    BY DEF Terminal
  <1>2. m_entries' = [m_entries EXCEPT ![h] = NoEntry] /\ m_entries'[h] = NoEntry
    BY <1>1, EraseOne, Zenon DEF Inv
  <1>3. EntryOK(h)'
    BY <1>2, ErasedEntryOK
  <1>4. /\ RaiseFlags({h}) \in [Generation -> Attempt]
        /\ \A k \in Generation :
              /\ RaiseFlags({h})[k].hash = attempts[k].hash
              /\ RaiseFlags({h})[k].released = attempts[k].released
              /\ RaiseFlags({h})[k].flag \in {attempts[k].flag, "raised"}
    BY RaiseFlagsType DEF Inv
  <1> QED BY <1>1, <1>2, <1>3, <1>4, NoEntryType, OneEntryReleaseStep, Zenon

-----------------------------------------------------------------------------
(* Calls with a hash only preserve the invariant.                          *)

(* What expiry leaves of a stale entry, by Expired or by the sweep. *)
LEMMA ExpiredEntry ==
    ASSUME NEW e \in Entry, NEW x \in {Expired(e), ExpiredInSweep(e)}
    PROVE  /\ x \in Entry
           /\ ~IsActive(x)
           /\ x = NoEntry \/ /\ Present(x) /\ HasBody(x) /\ x.lease = 0 /\ x.cancelled = 0
                             /\ x.generation = e.generation
  <1> DEFINE p == [e EXCEPT !.state = "TRANSIENT_FAILURE", !.idle = 0, !.lease = 0,
                            !.cancelled = 0, !.resources = 0]
             q == [e EXCEPT !.state = "TRANSIENT_FAILURE", !.idle = 0, !.lease = 0,
                            !.cancelled = 0]
  <1>1. x \in {IF HasBody(e) THEN p ELSE NoEntry, IF HasBody(e) THEN q ELSE NoEntry}
    BY DEF Expired, ExpiredInSweep
  <1>2. /\ p.state = "TRANSIENT_FAILURE" /\ p.generation = e.generation
        /\ p.body = e.body /\ p.cancelled = 0 /\ p.lease = 0
    BY DEF Entry
  <1>3. /\ q.state = "TRANSIENT_FAILURE" /\ q.generation = e.generation
        /\ q.body = e.body /\ q.cancelled = 0 /\ q.lease = 0
    BY DEF Entry
  <1>4. p \in Entry /\ q \in Entry
    BY Zenon DEF Entry, States, ActiveStates
  <1> HIDE DEF p, q
  <1>5. HasBody(e) => x \in {p, q}
    BY <1>1
  <1>6. ~HasBody(e) => x = NoEntry
    BY <1>1
  <1> QED BY <1>2, <1>3, <1>4, <1>5, <1>6, NoEntryType
          DEF IsActive, Present, HasBody, ActiveStates

(* An expired entry is as it should be, whatever happened to the flags. *)
LEMMA ExpiredEntryOK ==
    ASSUME Inv, NEW h \in Hash, NEW S \in SUBSET Hash,
           m_entries'[h] \in {Expired(m_entries[h]), ExpiredInSweep(m_entries[h])},
           attempts' = RaiseFlags(S), m_next_generation' = m_next_generation
    PROVE  EntryOK(h)' /\ m_entries'[h] \in Entry
  <1> DEFINE x == m_entries'[h]
  <1>1. m_entries[h] \in Entry /\ EntryOK(h) /\ m_next_generation \in 0..MaxGeneration
    BY DEF Inv, TypeOK
  <1>2. /\ x \in Entry /\ ~IsActive(x)
        /\ x = NoEntry \/ /\ Present(x) /\ HasBody(x) /\ x.lease = 0 /\ x.cancelled = 0
                          /\ x.generation = m_entries[h].generation
    BY <1>1, ExpiredEntry
  <1>3. CASE x = NoEntry
    BY <1>2, <1>3, ErasedEntryOK
  <1>4. CASE x # NoEntry
    <2>1. x.generation # 0 => /\ x.generation \in 1..m_next_generation
                              /\ attempts'[x.generation].hash = {h}
      BY <1>1, <1>2, <1>4, RaiseFlagsType DEF EntryOK, Inv
    <2> QED BY <1>2, <1>4, <2>1 DEF EntryOK
  <1> QED BY <1>3, <1>4

(* IsActive(hash) expires the entry and raises its flag. *)
LEMMA QueryIsActiveInv ==
    ASSUME Inv, NEW h \in Hash, QueryIsActive(h)
    PROVE  Inv'
  <1>1. /\ m_entries' = [m_entries EXCEPT ![h] = Expired(m_entries[h])]
        /\ attempts' = RaiseFlags({h})
        /\ UNCHANGED m_next_generation
    BY DEF QueryIsActive
  <1>2. m_entries'[h] = Expired(m_entries[h])
    BY <1>1 DEF Inv, TypeOK
  <1>3. EntryOK(h)' /\ Expired(m_entries[h]) \in Entry
    BY <1>1, <1>2, ExpiredEntryOK
  <1> QED BY <1>1, <1>3, OneEntryRaiseStep, Zenon

(* Reclaiming a marker without a body raises the marker's flag. *)
LEMMA ExpireActiveWithoutBodyInv ==
    ASSUME Inv, NEW h \in Hash, ExpireActiveWithoutBody(h)
    PROVE  Inv'
  <1>1. /\ m_entries' = [m_entries EXCEPT ![h] = NoEntry] /\ m_entries'[h] = NoEntry
        /\ attempts' = RaiseFlags({h})
        /\ UNCHANGED m_next_generation
    BY EraseOne, Zenon DEF ExpireActiveWithoutBody, Inv
  <1> QED BY <1>1, ErasedEntryOK, NoEntryType, OneEntryRaiseStep, Zenon

(* TerminalRetained erases an entry that has no attempt. *)
LEMMA TerminalRetainedInv ==
    ASSUME Inv, NEW h \in Hash, TerminalRetained(h)
    PROVE  Inv'
  <1>1. /\ m_entries' = [m_entries EXCEPT ![h] = NoEntry] /\ m_entries'[h] = NoEntry
        /\ attempts' = RaiseFlags({h})
        /\ UNCHANGED m_next_generation
    BY EraseOne, Zenon DEF TerminalRetained, Inv
  <1> QED BY <1>1, ErasedEntryOK, NoEntryType, OneEntryRaiseStep, Zenon

(* RetryInactive touches only entries without an attempt. *)
LEMMA RetryInactiveInv ==
    ASSUME Inv, NEW h \in Hash, RetryInactive(h)
    PROVE  Inv'
  <1> DEFINE e == m_entries[h]
             f == [e EXCEPT !.state = "TRANSIENT_FAILURE", !.idle = 0]
  <1>1. e \in Entry /\ EntryOK(h) /\ Present(e) /\ ~IsActive(e) /\ HasBody(e)
    BY DEF Inv, TypeOK, RetryInactive, EntryOK
  <1>2. /\ f.state = "TRANSIENT_FAILURE" /\ f.generation = e.generation
        /\ f.body = e.body /\ f.cancelled = e.cancelled /\ f.lease = e.lease
    BY <1>1 DEF Entry
  <1>3. f \in Entry
    BY <1>1, Zenon DEF Entry, States, ActiveStates
  <1>4. m_entries' = [m_entries EXCEPT ![h] = f] /\ UNCHANGED <<m_next_generation, attempts>>
    BY <1>1 DEF RetryInactive
  <1> HIDE DEF f
  <1>5. m_entries'[h] = f /\ ~IsActive(f) /\ Present(f) /\ HasBody(f)
    BY <1>1, <1>2, <1>4 DEF Inv, TypeOK, IsActive, Present, ActiveStates, HasBody
  <1>6. EntryOK(h)'
    BY <1>1, <1>2, <1>4, <1>5 DEF EntryOK
  <1> QED BY <1>1, <1>3, <1>4, <1>6, OneEntryQuietStep, Zenon DEF EntryOK

(* Begin issues a fresh generation over an absent, idle or expired entry. *)
LEMMA BeginInv ==
    ASSUME Inv, NEW h \in Hash, Begin(h)
    PROVE  Inv'
  <1> DEFINE o == m_entries[h]
             e == IF IsStale(o) THEN Expired(o) ELSE o
             g == m_next_generation + 1
             f == [e EXCEPT !.state = "ADMISSION_PENDING", !.idle = 0,
                            !.lease = 0, !.cancelled = 0, !.generation = g]
             a == [NoAttempt EXCEPT !.hash = {h}]
             R == RaiseFlags(IF IsStale(o) THEN {h} ELSE {})
  <1>1. /\ g \in Generation /\ ~IsActive(e)
        /\ m_entries' = [m_entries EXCEPT ![h] = f]
        /\ m_next_generation' = g
        /\ attempts' = [R EXCEPT ![g] = a]
    BY DEF Begin
  <1>2. o \in Entry /\ EntryOK(h) /\ m_next_generation \in 0..MaxGeneration
    BY DEF Inv, TypeOK
  <1>3. e \in Entry
    BY <1>2, ExpiredEntry
  <1>4. /\ f.state = "ADMISSION_PENDING" /\ f.generation = g
        /\ f.lease = 0 /\ f.cancelled = 0
    BY <1>3 DEF Entry
  <1>5. f \in Entry
    <2>1. g \in Nat
      BY <1>2
    <2> QED BY <1>3, <2>1, Zenon DEF Entry, States, ActiveStates
  <1>6. a \in Attempt /\ a.hash = {h} /\ a.flag = "none"
    BY Zenon DEF NoAttempt, Attempt
  <1>7. /\ R \in [Generation -> Attempt]
        /\ \A k \in Generation :
              /\ R[k].hash = attempts[k].hash /\ R[k].released = attempts[k].released
              /\ R[k].flag \in {attempts[k].flag, "raised"}
              /\ IsStale(o) /\ o.cancelled = k => R[k].flag = "raised"
    <2>1. CASE IsStale(o)
      BY <2>1, RaiseFlagsType DEF Inv
    <2>2. CASE ~IsStale(o)
      BY <2>2, RaiseFlagsType DEF Inv
    <2> QED BY <2>1, <2>2, Zenon
  <1>8. ~IsStale(o) => o.cancelled = 0
    BY <1>1, <1>2 DEF EntryOK, IsActive
  <1> HIDE DEF e, f, a, R
  <1>9. m_entries'[h] = f /\ IsActive(f) /\ Present(f)
    BY <1>1, <1>4 DEF Inv, TypeOK, IsActive, Present, ActiveStates
  <1>10. /\ attempts' \in [Generation -> Attempt] /\ attempts'[g] = a
         /\ \A k \in Generation \ {g} : attempts'[k] = R[k]
    BY <1>1, <1>6, <1>7
  <1>11. EntryOK(h)'
    BY <1>1, <1>2, <1>4, <1>6, <1>9, <1>10 DEF EntryOK
  <1>12. ASSUME NEW k \in Generation, k <= m_next_generation
         PROVE  attempts'[k].hash = attempts[k].hash
    BY <1>2, <1>7, <1>10, <1>12
  <1>13. ASSUME NEW k \in Generation, attempts'[k].flag = "clear", ~attempts'[k].released
         PROVE  /\ attempts[k].flag = "clear" /\ ~attempts[k].released
                /\ attempts'[k].hash = attempts[k].hash
                /\ m_entries[h].cancelled # k
    <2>1. k # g
      BY <1>6, <1>10, <1>13
    <2>2. attempts'[k] = R[k]
      BY <2>1, <1>10
    <2> QED BY <2>2, <1>7, <1>8, <1>13
  <1>14. m_next_generation' \in m_next_generation..MaxGeneration
    BY <1>1, <1>2
  <1> QED BY <1>1, <1>5, <1>10, <1>11, <1>12, <1>13, <1>14, OneEntryStep, Zenon

-----------------------------------------------------------------------------
(* Sweeps over the table preserve the invariant.                           *)

(* A sweep that raises the flags of the entries of S and lets every other  *)
(* attempt keep its entry preserves the invariant.                         *)
LEMMA SweepStep ==
    ASSUME Inv, NEW S \in SUBSET Hash,
           m_entries' \in [Hash -> Entry],
           UNCHANGED m_next_generation,
           attempts' = RaiseFlags(S),
           \A k \in Hash : EntryOK(k)',
           \A k \in Hash \ S :
              m_entries[k].cancelled # 0 =>
                 /\ IsActive(m_entries'[k])
                 /\ m_entries'[k].cancelled = m_entries[k].cancelled
                 /\ m_entries'[k].generation = m_entries[k].generation
    PROVE  Inv'
  <1>1. TypeOK'
    BY RaiseFlagsType DEF Inv, TypeOK
  <1>2. ASSUME NEW g \in Generation, attempts'[g].flag = "clear", ~attempts'[g].released
        PROVE  \E k \in Hash : /\ attempts'[g].hash = {k} /\ m_entries'[k].generation = g
                               /\ IsActive(m_entries'[k])
                               /\ m_entries'[k].cancelled = g
    <2>1. /\ attempts[g].flag = "clear" /\ ~attempts[g].released
          /\ attempts'[g].hash = attempts[g].hash
          /\ \A k \in S : m_entries[k].cancelled # g
      BY <1>2, RaiseFlagsType DEF Inv
    <2>2. PICK k \in Hash : /\ attempts[g].hash = {k} /\ m_entries[k].generation = g
                            /\ m_entries[k].cancelled = g
      BY <2>1 DEF Inv, AbandonedJobCancelled, Find
    <2> QED BY <2>1, <2>2
  <1>3. AbandonedJobCancelled'
    BY <1>2 DEF AbandonedJobCancelled, Find
  <1> QED BY <1>1, <1>3 DEF Inv

(* An entry the step leaves alone stays as it should be. *)
LEMMA SameEntryOK ==
    ASSUME Inv, NEW k \in Hash, NEW S \in SUBSET Hash,
           attempts' = RaiseFlags(S), m_next_generation' = m_next_generation,
           m_entries'[k] = m_entries[k]
    PROVE  EntryOK(k)'
  <1>1. EntryOK(k) /\ m_next_generation \in 0..MaxGeneration
    BY DEF Inv, TypeOK
  <1>2. \A g \in Generation : attempts'[g].hash = attempts[g].hash
    BY RaiseFlagsType DEF Inv
  <1>3. m_entries[k].generation # 0 => attempts'[m_entries'[k].generation].hash = {k}
    BY <1>1, <1>2 DEF EntryOK
  <1> QED BY <1>1, <1>3 DEF EntryOK

(* The sweep raises the flag of every attempt it expires. *)
LEMMA ExpireStaleAttemptsInv ==
    ASSUME Inv, ExpireStaleAttempts
    PROVE  Inv'
  <1> DEFINE S == {h \in Hash : IsStale(m_entries[h])}
  <1>1. /\ m_entries' = [h \in Hash |-> IF h \in S THEN ExpiredInSweep(m_entries[h])
                                        ELSE m_entries[h]]
        /\ attempts' = RaiseFlags(S)
        /\ UNCHANGED m_next_generation
    BY DEF ExpireStaleAttempts
  <1>2. S \in SUBSET Hash
    OBVIOUS
  <1> HIDE DEF S
  <1>3. ASSUME NEW k \in Hash PROVE EntryOK(k)' /\ m_entries'[k] \in Entry
    <2>1. CASE k \in S
      BY <2>1, <1>1, <1>2, ExpiredEntryOK
    <2>2. CASE k \notin S
      <3>1. m_entries'[k] = m_entries[k] /\ m_entries[k] \in Entry
        BY <2>2, <1>1 DEF Inv, TypeOK
      <3> QED BY <3>1, <1>1, <1>2, SameEntryOK
    <2> QED BY <2>1, <2>2
  <1>4. m_entries' \in [Hash -> Entry]
    BY <1>1, <1>3
  <1>5. ASSUME NEW k \in Hash \ S, m_entries[k].cancelled # 0
        PROVE  /\ IsActive(m_entries'[k])
               /\ m_entries'[k].cancelled = m_entries[k].cancelled
               /\ m_entries'[k].generation = m_entries[k].generation
    BY <1>1, <1>5 DEF Inv, EntryOK
  <1> QED BY <1>1, <1>2, <1>3, <1>4, <1>5, SweepStep

(* Erasing inactive entries and raising their flags preserves the invariant. *)
LEMMA EraseStep ==
    ASSUME Inv, NEW S \in SUBSET Hash,
           \A h \in S : ~IsActive(m_entries[h]),
           m_entries' = EraseAll(m_entries, S),
           attempts' = RaiseFlags(S),
           UNCHANGED m_next_generation
    PROVE  Inv'
  <1>1. ASSUME NEW k \in Hash PROVE EntryOK(k)' /\ m_entries'[k] \in Entry
    <2>1. CASE k \in S
      BY <2>1, ErasedEntryOK, NoEntryType DEF EraseAll
    <2>2. CASE k \notin S
      <3>1. m_entries'[k] = m_entries[k] /\ m_entries[k] \in Entry
        BY <2>2 DEF Inv, TypeOK, EraseAll
      <3> QED BY <3>1, SameEntryOK
    <2> QED BY <2>1, <2>2
  <1>2. m_entries' \in [Hash -> Entry]
    BY <1>1 DEF EraseAll
  <1>3. ASSUME NEW k \in Hash \ S, m_entries[k].cancelled # 0
        PROVE  /\ IsActive(m_entries'[k])
               /\ m_entries'[k].cancelled = m_entries[k].cancelled
               /\ m_entries'[k].generation = m_entries[k].generation
    BY <1>3 DEF Inv, EntryOK, EraseAll
  <1> QED BY <1>1, <1>2, <1>3, SweepStep

(* NextRetry erases expired bodies, none of which has an attempt. *)
LEMMA NextRetryInv ==
    ASSUME Inv, NextRetry
    PROVE  Inv'
  <1> DEFINE S == Prunable(m_entries)
  <1>1. S \in SUBSET Hash /\ \A h \in S : ~IsActive(m_entries[h])
    BY DEF Prunable
  <1>2. /\ m_entries' = EraseAll(m_entries, S) /\ attempts' = RaiseFlags(S)
        /\ UNCHANGED m_next_generation
    BY DEF NextRetry
  <1> HIDE DEF S
  <1> QED BY <1>1, <1>2, EraseStep

(* Raising no flags changes nothing. *)
LEMMA RaiseNoFlags ==
    ASSUME TypeOK
    PROVE  RaiseFlags({}) = attempts
  BY DEF TypeOK, RaiseFlags

(* The clock ages entries and bodies and changes nothing else. *)
LEMMA TickInv ==
    ASSUME Inv, Tick
    PROVE  Inv'
  <1> DEFINE aged(e) ==
               [e EXCEPT !.idle = IF IsActive(e) /\ @ <= AsyncStaleAfter THEN @ + 1 ELSE @,
                         !.body.age = IF HasBody(e) /\ @ <= RetainedMaxAge
                                      THEN @ + 1 ELSE @]
  <1>1. /\ m_entries' = [k \in Hash |-> aged(m_entries[k])]
        /\ UNCHANGED <<m_next_generation, attempts>>
    BY Zenon DEF Tick
  <1>2. ASSUME NEW e \in Entry
        PROVE  /\ aged(e) \in Entry
               /\ aged(e).state = e.state /\ aged(e).generation = e.generation
               /\ aged(e).lease = e.lease /\ aged(e).cancelled = e.cancelled
               /\ aged(e).body.bytes = e.body.bytes
               /\ e = NoEntry => aged(e) = NoEntry
    <2> DEFINE i == IF IsActive(e) /\ e.idle <= AsyncStaleAfter THEN e.idle + 1 ELSE e.idle
               n == IF HasBody(e) /\ e.body.age <= RetainedMaxAge
                    THEN e.body.age + 1 ELSE e.body.age
    <2>1. e.idle \in Nat /\ e.body \in Body /\ e.body.age \in Nat
      BY DEF Entry, Body
    <2>2. i \in Nat /\ n \in Nat
      BY <2>1
    <2>3. aged(e) = [e EXCEPT !.idle = i, !.body = [e.body EXCEPT !.age = n]]
      BY DEF Entry
    <2>4. e = NoEntry => i = e.idle /\ n = e.body.age
      BY NoEntryType
    <2> HIDE DEF i, n
    <2>5. [e.body EXCEPT !.age = n] \in Body
      BY <2>1, <2>2 DEF Body
    <2>6. [e EXCEPT !.idle = i, !.body = [e.body EXCEPT !.age = n]] \in Entry
      BY <2>2, <2>5, Zenon DEF Entry
    <2>7. [e.body EXCEPT !.age = n].bytes = e.body.bytes
      BY <2>1 DEF Body
    <2>8. /\ aged(e).state = e.state /\ aged(e).generation = e.generation
          /\ aged(e).lease = e.lease /\ aged(e).cancelled = e.cancelled
          /\ aged(e).body = [e.body EXCEPT !.age = n]
      BY <2>3, Zenon DEF Entry
    <2>9. e = NoEntry => aged(e) = NoEntry
      <3> HAVE e = NoEntry
      <3>1. [e.body EXCEPT !.age = e.body.age] = e.body
        BY <2>1 DEF Body
      <3>2. [e EXCEPT !.idle = e.idle, !.body = e.body] = e
        BY Zenon DEF Entry
      <3>3. i = e.idle /\ n = e.body.age
        BY <2>4
      <3>4. [e.body EXCEPT !.age = n] = e.body
        BY <3>1, <3>3
      <3>5. [e EXCEPT !.idle = i, !.body = [e.body EXCEPT !.age = n]] = e
        BY <3>2, <3>3, <3>4, Zenon
      <3> HIDE DEF aged
      <3> QED BY <2>3, <3>5
    <2> QED BY <2>3, <2>6, <2>7, <2>8, <2>9, Zenon
  <1> HIDE DEF aged
  <1>3. ASSUME NEW k \in Hash
        PROVE  /\ m_entries'[k] \in Entry
               /\ m_entries'[k].state = m_entries[k].state
               /\ m_entries'[k].generation = m_entries[k].generation
               /\ m_entries'[k].lease = m_entries[k].lease
               /\ m_entries'[k].cancelled = m_entries[k].cancelled
               /\ m_entries'[k].body.bytes = m_entries[k].body.bytes
               /\ m_entries[k] = NoEntry => m_entries'[k] = NoEntry
    BY <1>1, <1>2 DEF Inv, TypeOK
  <1>4. m_entries' \in [Hash -> Entry]
    BY <1>1, <1>3
  <1>5. ASSUME NEW k \in Hash PROVE EntryOK(k)'
    BY <1>1, <1>3 DEF Inv, EntryOK, IsActive, Present, HasBody
  <1>6. ASSUME NEW k \in Hash, m_entries[k].cancelled # 0 PROVE IsActive(m_entries'[k])
    BY <1>3, <1>6 DEF Inv, EntryOK, IsActive
  <1>7. attempts' = RaiseFlags({})
    BY <1>1, RaiseNoFlags DEF Inv
  <1> QED BY <1>1, <1>3, <1>4, <1>5, <1>6, <1>7, SweepStep

(* What Retain stores: the attempt's part of the entry is untouched. *)
LEMMA RetainedEntryFacts ==
    ASSUME NEW e \in Entry, NEW b \in Sizes
    PROVE  /\ RetainedEntry(e, b) \in Entry
           /\ RetainedEntry(e, b).generation = e.generation
           /\ RetainedEntry(e, b).lease = e.lease
           /\ RetainedEntry(e, b).cancelled = e.cancelled
           /\ HasBody(RetainedEntry(e, b))
           /\ Present(RetainedEntry(e, b))
           /\ IsActive(RetainedEntry(e, b)) <=> IsActive(e)
           /\ IsActive(e) => RetainedEntry(e, b).state = e.state
  <1> DEFINE y == [e.body EXCEPT !.bytes = b]
             p == [e EXCEPT !.body = y]
             q == [p EXCEPT !.state = "BODY_RETAINED", !.idle = 0]
  <1>1. y \in Body /\ y.bytes = b /\ b # 0
    BY DEF Entry, Body
  <1>2. p = [e EXCEPT !.body.bytes = b]
    BY DEF Entry
  <1>3. RetainedEntry(e, b) = IF IsActive(e) THEN p ELSE q
    BY <1>2 DEF RetainedEntry
  <1> HIDE DEF y
  <1>4. p \in Entry
    BY <1>1 DEF Entry
  <1>5. /\ p.state = e.state /\ p.generation = e.generation /\ p.lease = e.lease
        /\ p.cancelled = e.cancelled /\ p.body = y
    BY DEF Entry
  <1> HIDE DEF p
  <1>6. q \in Entry
    BY <1>4, Zenon DEF Entry, States, ActiveStates
  <1>7. /\ q.state = "BODY_RETAINED" /\ q.generation = p.generation /\ q.lease = p.lease
        /\ q.cancelled = p.cancelled /\ q.body = p.body
    BY <1>4 DEF Entry
  <1> HIDE DEF q
  <1>8. CASE IsActive(e)
    BY <1>1, <1>3, <1>4, <1>5, <1>8 DEF HasBody, Present, IsActive, ActiveStates
  <1>9. CASE ~IsActive(e)
    BY <1>1, <1>3, <1>5, <1>6, <1>7, <1>9 DEF HasBody, Present, IsActive, ActiveStates
  <1> QED BY <1>8, <1>9

(* The table between eviction and insertion: the entries of P (expired)    *)
(* and of V (evicted) are gone, all of them inactive; h itself is not      *)
(* evicted.                                                                *)
LEMMA EvictionFacts ==
    ASSUME TypeOK, NEW h \in Hash, NEW b, NEW total,
           NEW V \in Victims(EraseAll(m_entries, Prunable(m_entries)), total, h, b)
    PROVE  /\ V \subseteq Hash /\ h \notin V
           /\ Prunable(m_entries) \cup V \subseteq Hash
           /\ \A k \in Prunable(m_entries) \cup V : ~IsActive(m_entries[k])
           /\ EraseAll(EraseAll(m_entries, Prunable(m_entries)), V)
                 = EraseAll(m_entries, Prunable(m_entries) \cup V)
  <1> DEFINE P == Prunable(m_entries)
             E == EraseAll(m_entries, P)
  <1>1. P \subseteq Hash /\ \A k \in P : ~IsActive(m_entries[k])
    BY DEF Prunable
  <1>2. V \subseteq Evictable(E, h)
    BY DEF Victims
  <1> HIDE DEF P
  <1>3. ASSUME NEW k \in V PROVE k \in Hash /\ k # h /\ ~IsActive(m_entries[k])
    BY <1>1, <1>2, NoEntryType, Zenon DEF Evictable, EraseAll
  <1>4. EraseAll(E, V) = EraseAll(m_entries, P \cup V)
    BY DEF EraseAll
  <1> QED BY <1>1, <1>3, <1>4 DEF P

(* Retain evicts only entries without an attempt, and keeps h's attempt. *)
LEMMA RetainInv ==
    ASSUME Inv, NEW h \in Hash, NEW b \in Sizes, Retain(h, b)
    PROVE  Inv'
  <1> DEFINE P == Prunable(m_entries)
             E == EraseAll(m_entries, P)
             total == m_retained_bytes - BytesOf(m_entries, P)
  <1>1. PICK V \in Victims(E, total, h, b) :
           /\ attempts' = RaiseFlags(P \cup V)
           /\ \/ /\ m_entries' = [EraseAll(E, V) EXCEPT
                                     ![h] = RetainedEntry(EraseAll(E, V)[h], b)]
              \/ m_entries' = EraseAll(E, V)
    BY Zenon DEF Retain
  <1>2. UNCHANGED m_next_generation
    BY DEF Retain
  <1> DEFINE S == P \cup V
             F == EraseAll(m_entries, S)
  <1>3. /\ S \in SUBSET Hash /\ \A k \in S : ~IsActive(m_entries[k])
        /\ EraseAll(E, V) = F
    BY EvictionFacts DEF Inv
  <1>4. /\ attempts' = RaiseFlags(S)
        /\ m_entries' = F \/ m_entries' = [F EXCEPT ![h] = RetainedEntry(F[h], b)]
    BY <1>1, <1>3
  <1> HIDE DEF S, P, E, total
  <1>5. CASE m_entries' = F
    BY <1>2, <1>3, <1>4, <1>5, EraseStep
  <1>6. CASE m_entries' = [F EXCEPT ![h] = RetainedEntry(F[h], b)]
    <2>1. /\ F \in [Hash -> Entry]
          /\ \A k \in Hash : F[k] = IF k \in S THEN NoEntry ELSE m_entries[k]
      BY <1>3, NoEntryType DEF EraseAll, Inv, TypeOK
    <2> HIDE DEF F
    <2> DEFINE f == RetainedEntry(F[h], b)
    <2>2. /\ f \in Entry /\ f.generation = F[h].generation /\ f.lease = F[h].lease
          /\ f.cancelled = F[h].cancelled /\ HasBody(f) /\ Present(f)
          /\ IsActive(f) <=> IsActive(F[h])
          /\ IsActive(F[h]) => f.state = F[h].state
      BY <2>1, RetainedEntryFacts
    <2> HIDE DEF f
    <2>3. /\ m_entries' \in [Hash -> Entry]
          /\ m_entries'[h] = f /\ \A k \in Hash \ {h} : m_entries'[k] = F[k]
      BY <1>6, <2>1, <2>2 DEF f
    <2>4. ASSUME NEW k \in Hash \ {h} PROVE EntryOK(k)'
      <3>1. CASE k \in S
        BY <3>1, <2>1, <2>3, ErasedEntryOK
      <3>2. CASE k \notin S
        BY <3>2, <2>1, <2>3, <1>2, <1>3, <1>4, SameEntryOK
      <3> QED BY <3>1, <3>2
    <2>5. EntryOK(h)'
      <3>1. \A g \in Generation : attempts'[g].hash = attempts[g].hash
        BY <1>3, <1>4, RaiseFlagsType DEF Inv
      <3>2. EntryOK(h) /\ m_next_generation \in 0..MaxGeneration
        BY DEF Inv, TypeOK
      <3>3. CASE h \in S
        <4>1. f.generation = 0 /\ f.lease = 0 /\ f.cancelled = 0 /\ ~IsActive(f)
          BY <3>3, <2>1, <2>2, NoEntryType DEF NoEntry
        <4> QED BY <4>1, <2>2, <2>3 DEF EntryOK
      <3>4. CASE h \notin S
        <4>1. F[h] = m_entries[h]
          BY <3>4, <2>1
        <4>2. f.generation # 0 => /\ f.generation \in 1..m_next_generation'
                                  /\ attempts'[f.generation].hash = {h}
          BY <4>1, <2>2, <3>1, <3>2, <1>2 DEF EntryOK
        <4>3. ~IsActive(f) => f.lease = 0 /\ f.cancelled = 0
          <5>1. CASE Present(m_entries[h])
            BY <5>1, <4>1, <2>2, <3>2 DEF EntryOK
          <5>2. CASE ~Present(m_entries[h])
            BY <5>2, <4>1, <2>2, <3>2 DEF EntryOK, NoEntry
          <5> QED BY <5>1, <5>2
        <4> QED BY <4>1, <4>2, <4>3, <2>2, <2>3, <3>2 DEF EntryOK
      <3> QED BY <3>3, <3>4
    <2>6. ASSUME NEW k \in Hash \ S, m_entries[k].cancelled # 0
          PROVE  /\ IsActive(m_entries'[k])
                 /\ m_entries'[k].cancelled = m_entries[k].cancelled
                 /\ m_entries'[k].generation = m_entries[k].generation
      BY <2>1, <2>2, <2>3, <2>6 DEF Inv, EntryOK
    <2> QED BY <1>2, <1>3, <1>4, <2>3, <2>4, <2>5, <2>6, SweepStep
  <1> QED BY <1>4, <1>5, <1>6

-----------------------------------------------------------------------------
(* Every step preserves the invariant. *)
LEMMA NextInv == Inv /\ [Next]_vars => Inv'
  <1> SUFFICES ASSUME Inv, [Next]_vars PROVE Inv'
    OBVIOUS
  <1>1. ASSUME NEW h \in Hash, HashCall(h) PROVE Inv'
    BY <1>1, BeginInv, QueryIsActiveInv, RetainInv, ExpireActiveWithoutBodyInv,
       RetryInactiveInv, TerminalRetainedInv DEF HashCall
  <1>2. ASSUME NEW g \in Generation, NEW h \in Hash, TokenCall(g, h) PROVE Inv'
    BY <1>2, QueueInv, StartInv, ParkInv, CompletingInv, RetryInv, TerminalInv
       DEF TokenCall
  <1>3. CASE UNCHANGED vars
    BY <1>3 DEF vars, Inv, TypeOK, EntryOK, AbandonedJobCancelled, Find
  <1> QED BY <1>1, <1>2, <1>3, ExpireStaleAttemptsInv, NextRetryInv, TickInv DEF Next

(* The inductive invariant holds in every reachable state of the table. *)
THEOREM InvariantHolds == Spec => []Inv
  BY InitInv, NextInv, PTL DEF Spec

(* The table, the generation counter and the callers' records keep their   *)
(* types, for every number of hashes, every cap and every limit.           *)
THEOREM TypeCorrect == Spec => []TypeOK
  <1>1. Inv => TypeOK
    BY DEF Inv
  <1> QED BY InvariantHolds, <1>1, PTL

(* However calls interleave, an entry without a live attempt owns a body   *)
(* and no lease or flag: no path through the class leaves an empty entry.  *)
THEOREM InactiveEntriesOwnBody == Spec => []InactiveOwnsBody
  <1>1. Inv => InactiveOwnsBody
    BY DEF Inv, EntryOK, InactiveOwnsBody
  <1> QED BY InvariantHolds, <1>1, PTL

(* A pending-work lease belongs to the live, unparked attempt that reserved *)
(* it: no interleaving of late callbacks and expiry leaks a slot.          *)
THEOREM LeasesFollowAttempts == Spec => []LeaseFollowsAttempt
  <1>1. Inv => LeaseFollowsAttempt
    BY DEF Inv, EntryOK, LeaseFollowsAttempt
  <1> QED BY InvariantHolds, <1>1, PTL

(* No worker job of an abandoned attempt is left running with its flag     *)
(* clear, unless the holder of its token ended the attempt itself.         *)
THEOREM AbandonedJobsCancelled == Spec => []AbandonedJobCancelled
  <1>1. Inv => AbandonedJobCancelled
    BY DEF Inv
  <1> QED BY InvariantHolds, <1>1, PTL
-----------------------------------------------------------------------------
(* The table implements AttemptLease: exclusive attempts that end or run   *)
(* out, named by generations that are never handed out twice.              *)

USE LifecycleAssumption

(* How an entry e may turn into f in a step that begins no attempt: f's    *)
(* attempt, if it has one, is e's, and has made progress or stood still.   *)
Winds(e, f) ==
    IsActive(f) => /\ IsActive(e)
                   /\ f.generation = e.generation
                   /\ f.idle \in {0, e.idle}

(* Every entry does, and no generation is handed out. *)
AllWind ==
    /\ UNCHANGED m_next_generation
    /\ \A h \in Hash : Winds(m_entries[h], m_entries'[h])

(* Such a step is an End step: the attempts that are gone have ended, and  *)
(* no other lease runs out.                                                *)
LEMMA WindStep ==
    ASSUME Inv, AllWind
    PROVE  AL!Next
  <1> DEFINE own(e) == IF IsActive(e) THEN e.generation ELSE 0
             R == {k \in Hash : ~IsActive(m_entries'[k])}
  <1>1. ASSUME NEW k \in Hash
        PROVE  own(m_entries'[k]) = IF k \in R THEN 0 ELSE own(m_entries[k])
    BY DEF AllWind, Winds
  <1>2. ASSUME NEW k \in Hash, IsStale(m_entries'[k])
        PROVE  IsStale(m_entries[k]) /\ k \notin R
    <2>1. IsActive(m_entries'[k]) /\ m_entries'[k].idle > AsyncStaleAfter
      BY <1>2 DEF IsStale
    <2>2. m_entries'[k].idle = m_entries[k].idle /\ IsActive(m_entries[k])
      BY <2>1 DEF AllWind, Winds
    <2> QED BY <2>1, <2>2 DEF IsStale
  <1>3. AL!End(R)
    BY <1>1, <1>2 DEF AL!End, AllWind
  <1>4. R \in SUBSET Hash
    OBVIOUS
  <1> HIDE DEF R
  <1> QED BY <1>3, <1>4 DEF AL!Next, AL!End

(* A step that changes the entry of h only. *)
LEMMA OneWindStep ==
    ASSUME Inv, NEW h \in Hash, NEW f,
           m_entries' = [m_entries EXCEPT ![h] = f],
           UNCHANGED m_next_generation,
           Winds(m_entries[h], f)
    PROVE  AllWind
  <1>1. ASSUME NEW k \in Hash PROVE Winds(m_entries[k], m_entries'[k])
    <2>1. CASE k = h
      BY <2>1 DEF Inv, TypeOK
    <2>2. CASE k # h
      BY <2>2 DEF Inv, TypeOK, Winds
    <2> QED BY <2>1, <2>2
  <1> QED BY <1>1 DEF AllWind

(* Calls with a token continue the attempt of their hash or end it. *)
LEMMA TokenCallEnds ==
    ASSUME Inv, NEW g \in Generation, NEW h \in Hash, TokenCall(g, h)
    PROVE  AllWind
  <1> DEFINE e == m_entries[h]
  <1>1. e \in Entry
    BY DEF Inv, TypeOK
  <1>2. ASSUME NEW leased \in BOOLEAN, Queue(g, h, leased) PROVE AllWind
    <2> DEFINE f == [e EXCEPT !.state = "QUEUED", !.idle = 0, !.cancelled = g,
                              !.resources = g, !.lease = IF leased THEN g ELSE 0]
    <2>1. f.generation = e.generation /\ f.idle = 0 /\ IsActive(e)
      BY <1>1, <1>2 DEF Entry, Queue, IsActive, ActiveStates
    <2>2. m_entries' = [m_entries EXCEPT ![h] = f] /\ UNCHANGED m_next_generation
      BY <1>2 DEF Queue
    <2> HIDE DEF f
    <2> QED BY <2>1, <2>2, OneWindStep, Zenon DEF Winds
  <1>3. ASSUME Start(g, h) PROVE AllWind
    <2> DEFINE f == [e EXCEPT !.state = "RUNNING", !.idle = 0]
    <2>1. f.generation = e.generation /\ f.idle = 0 /\ IsActive(e)
      BY <1>1, <1>3 DEF Entry, Start, IsActive, ActiveStates
    <2>2. m_entries' = [m_entries EXCEPT ![h] = f] /\ UNCHANGED m_next_generation
      BY <1>3 DEF Start
    <2> HIDE DEF f
    <2> QED BY <2>1, <2>2, OneWindStep, Zenon DEF Winds
  <1>4. ASSUME Park(g, h) PROVE AllWind
    <2> DEFINE f == [e EXCEPT !.state = "AWAITING_QUORUM", !.idle = 0, !.lease = 0]
    <2>1. f.generation = e.generation /\ f.idle = 0 /\ IsActive(e)
      BY <1>1, <1>4 DEF Entry, Park, IsActive, ActiveStates
    <2>2. m_entries' = [m_entries EXCEPT ![h] = f] /\ UNCHANGED m_next_generation
      BY <1>4 DEF Park
    <2> HIDE DEF f
    <2> QED BY <2>1, <2>2, OneWindStep, Zenon DEF Winds
  <1>5. ASSUME Completing(g, h) PROVE AllWind
    <2> DEFINE f == [e EXCEPT !.state = "COMPLETING", !.idle = 0]
    <2>1. f.generation = e.generation /\ f.idle = 0 /\ IsActive(e)
      BY <1>1, <1>5 DEF Entry, Completing
    <2>2. m_entries' = [m_entries EXCEPT ![h] = f] /\ UNCHANGED m_next_generation
      BY <1>5 DEF Completing
    <2> HIDE DEF f
    <2> QED BY <2>1, <2>2, OneWindStep, Zenon DEF Winds
  <1>6. ASSUME Retry(g, h) PROVE AllWind
    <2> DEFINE p == [e EXCEPT !.state = "TRANSIENT_FAILURE", !.idle = 0, !.lease = 0,
                              !.cancelled = 0, !.resources = 0]
               f == IF HasBody(e) THEN p ELSE NoEntry
    <2>1. p.state = "TRANSIENT_FAILURE"
      BY <1>1 DEF Entry
    <2>2. m_entries' = [m_entries EXCEPT ![h] = f] /\ UNCHANGED m_next_generation
      BY <1>6 DEF Retry
    <2> HIDE DEF p
    <2>3. ~IsActive(f)
      BY <2>1, NoEntryType DEF IsActive, ActiveStates
    <2> HIDE DEF f
    <2> QED BY <2>2, <2>3, OneWindStep, Zenon DEF Winds
  <1>7. ASSUME Terminal(g, h) PROVE AllWind
    <2>1. m_entries' = [m_entries EXCEPT ![h] = NoEntry] /\ UNCHANGED m_next_generation
      BY <1>7, EraseOne DEF Terminal, Inv
    <2> QED BY <2>1, NoEntryType, OneWindStep, Zenon DEF Winds
  <1> QED BY <1>2, <1>3, <1>4, <1>5, <1>6, <1>7 DEF TokenCall

(* A sweep that erases entries without an attempt ends nothing. *)
LEMMA EraseEnds ==
    ASSUME Inv, NEW S \in SUBSET Hash, UNCHANGED m_next_generation,
           m_entries' = EraseAll(m_entries, S)
    PROVE  AllWind
  <1>1. ASSUME NEW k \in Hash PROVE Winds(m_entries[k], m_entries'[k])
    BY NoEntryType DEF EraseAll, Winds
  <1> QED BY <1>1 DEF AllWind

(* Retain touches no attempt: it only erases entries without one. *)
LEMMA RetainEnds ==
    ASSUME Inv, NEW h \in Hash, NEW b \in Sizes, Retain(h, b)
    PROVE  AllWind
  <1> DEFINE P == Prunable(m_entries)
             E == EraseAll(m_entries, P)
             total == m_retained_bytes - BytesOf(m_entries, P)
  <1>1. PICK V \in Victims(E, total, h, b) :
           \/ m_entries' = [EraseAll(E, V) EXCEPT
                               ![h] = RetainedEntry(EraseAll(E, V)[h], b)]
           \/ m_entries' = EraseAll(E, V)
    BY DEF Retain
  <1>2. UNCHANGED m_next_generation
    BY DEF Retain
  <1> DEFINE S == P \cup V
             F == EraseAll(m_entries, S)
  <1>3. S \in SUBSET Hash /\ EraseAll(E, V) = F
    BY EvictionFacts DEF Inv
  <1>4. m_entries' = F \/ m_entries' = [F EXCEPT ![h] = RetainedEntry(F[h], b)]
    BY <1>1, <1>3, Zenon
  <1> HIDE DEF S, P, E, total
  <1>5. CASE m_entries' = F
    BY <1>2, <1>3, <1>5, EraseEnds
  <1>6. CASE m_entries' = [F EXCEPT ![h] = RetainedEntry(F[h], b)]
    <2>1. /\ F \in [Hash -> Entry]
          /\ \A k \in Hash : F[k] = IF k \in S THEN NoEntry ELSE m_entries[k]
      BY <1>3, NoEntryType DEF EraseAll, Inv, TypeOK
    <2> HIDE DEF F
    <2> DEFINE f == RetainedEntry(F[h], b)
    <2>2. /\ f.generation = F[h].generation
          /\ IsActive(f) <=> IsActive(F[h])
          /\ IsActive(F[h]) => f.idle = F[h].idle
      <3>1. IsActive(F[h]) => f.idle = F[h].idle
        BY <2>1 DEF RetainedEntry, Entry
      <3> QED BY <3>1, <2>1, RetainedEntryFacts
    <2> HIDE DEF f
    <2>3. m_entries'[h] = f /\ \A k \in Hash \ {h} : m_entries'[k] = F[k]
      BY <1>6, <2>1 DEF f
    <2>4. ASSUME NEW k \in Hash PROVE Winds(m_entries[k], m_entries'[k])
      <3>1. CASE k \in S
        BY <3>1, <2>1, <2>2, <2>3, NoEntryType DEF Winds
      <3>2. CASE k \notin S /\ k = h
        BY <3>2, <2>1, <2>2, <2>3 DEF Winds
      <3>3. CASE k \notin S /\ k # h
        BY <3>3, <2>1, <2>3 DEF Winds
      <3> QED BY <3>1, <3>2, <3>3
    <2> QED BY <1>2, <2>4 DEF AllWind
  <1> QED BY <1>4, <1>5, <1>6

(* Begin acquires: the hash had no attempt, or a stale one. *)
LEMMA BeginAcquires ==
    ASSUME Inv, NEW h \in Hash, Begin(h)
    PROVE  AL!Next
  <1> DEFINE o == m_entries[h]
             e == IF IsStale(o) THEN Expired(o) ELSE o
             g == m_next_generation + 1
             f == [e EXCEPT !.state = "ADMISSION_PENDING", !.idle = 0,
                            !.lease = 0, !.cancelled = 0, !.generation = g]
  <1>1. /\ ~IsActive(e)
        /\ m_entries' = [m_entries EXCEPT ![h] = f]
        /\ m_next_generation' = g
    BY DEF Begin
  <1>2. e \in Entry
    BY ExpiredEntry DEF Inv, TypeOK
  <1>3. f.state = "ADMISSION_PENDING" /\ f.generation = g /\ f.idle = 0
    BY <1>2 DEF Entry
  <1>4. ~IsActive(o) \/ IsStale(o)
    BY <1>1
  <1> HIDE DEF e, f
  <1>5. IsActive(f) /\ ~IsStale(f)
    BY <1>3 DEF IsActive, ActiveStates, IsStale
  <1>6. m_entries'[h] = f /\ \A k \in Hash \ {h} : m_entries'[k] = m_entries[k]
    BY <1>1 DEF Inv, TypeOK
  <1> DEFINE own(x) == IF IsActive(x) THEN x.generation ELSE 0
  <1>7. own(m_entries'[h]) = g
    BY <1>3, <1>5, <1>6
  <1>8. [k \in Hash |-> own(m_entries'[k])]
           = [[k \in Hash |-> own(m_entries[k])] EXCEPT ![h] = g]
    <2>1. \A k \in Hash \ {h} : own(m_entries'[k]) = own(m_entries[k])
      BY <1>6
    <2> HIDE DEF own, g
    <2> QED BY <1>7, <2>1, Zenon
  <1>9. {k \in Hash : IsStale(m_entries'[k])}
           = {k \in Hash : IsStale(m_entries[k])} \ {h}
    BY <1>5, <1>6
  <1>10. AL!Acquire(h)
    BY <1>1, <1>4, <1>8, <1>9 DEF AL!Acquire
  <1> QED BY <1>10 DEF AL!Next

(* The other calls that name a hash only end attempts. *)
LEMMA HashCallEnds ==
    ASSUME Inv, NEW h \in Hash, HashCall(h)
    PROVE  Begin(h) \/ AllWind
  <1> DEFINE e == m_entries[h]
  <1>1. e \in Entry
    BY DEF Inv, TypeOK
  <1>2. ASSUME QueryIsActive(h) PROVE AllWind
    <2>1. /\ m_entries' = [m_entries EXCEPT ![h] = Expired(e)]
          /\ UNCHANGED m_next_generation
      BY <1>2 DEF QueryIsActive
    <2>2. ~IsActive(Expired(e))
      BY <1>1, ExpiredEntry
    <2> QED BY <2>1, <2>2, OneWindStep, Zenon DEF Winds
  <1>3. ASSUME ExpireActiveWithoutBody(h) PROVE AllWind
    BY <1>3, EraseEnds DEF ExpireActiveWithoutBody
  <1>4. ASSUME TerminalRetained(h) PROVE AllWind
    BY <1>4, EraseEnds DEF TerminalRetained
  <1>5. ASSUME RetryInactive(h) PROVE AllWind
    <2> DEFINE p == [e EXCEPT !.state = "TRANSIENT_FAILURE", !.idle = 0]
               f == IF HasBody(e) THEN p ELSE NoEntry
    <2>1. p.state = "TRANSIENT_FAILURE"
      BY <1>1 DEF Entry
    <2>2. m_entries' = [m_entries EXCEPT ![h] = f] /\ UNCHANGED m_next_generation
      BY <1>5 DEF RetryInactive
    <2> HIDE DEF p
    <2>3. ~IsActive(f)
      BY <2>1, NoEntryType DEF IsActive, ActiveStates
    <2> HIDE DEF f
    <2> QED BY <2>2, <2>3, OneWindStep, Zenon DEF Winds
  <1> QED BY <1>2, <1>3, <1>4, <1>5, RetainEnds DEF HashCall

(* The reconcile sweep ends the stale attempts. *)
LEMMA SweepEnds ==
    ASSUME Inv, ExpireStaleAttempts
    PROVE  AllWind
  <1>1. ASSUME NEW k \in Hash PROVE Winds(m_entries[k], m_entries'[k])
    <2>1. m_entries[k] \in Entry
      BY DEF Inv, TypeOK
    <2>2. ~IsActive(ExpiredInSweep(m_entries[k]))
      BY <2>1, ExpiredEntry
    <2>3. m_entries'[k] \in {ExpiredInSweep(m_entries[k]), m_entries[k]}
      BY DEF ExpireStaleAttempts
    <2> QED BY <2>2, <2>3 DEF Winds
  <1> QED BY <1>1 DEF ExpireStaleAttempts, AllWind

(* The clock moves the two ages of an entry forward and nothing else. *)
LEMMA TickFacts ==
    ASSUME Inv, Tick, NEW k \in Hash
    PROVE  /\ m_entries'[k].state = m_entries[k].state
           /\ m_entries'[k].generation = m_entries[k].generation
           /\ m_entries'[k].cancelled = m_entries[k].cancelled
           /\ m_entries[k].idle \in Nat /\ m_entries'[k].idle \in Nat
           /\ m_entries'[k].idle >= m_entries[k].idle
           /\ m_entries'[k].body.bytes = m_entries[k].body.bytes
           /\ m_entries[k].body.age \in Nat /\ m_entries'[k].body.age \in Nat
           /\ m_entries'[k].body.age >= m_entries[k].body.age
  <1> DEFINE e == m_entries[k]
             i == IF IsActive(e) /\ e.idle <= AsyncStaleAfter THEN e.idle + 1 ELSE e.idle
             n == IF HasBody(e) /\ e.body.age <= RetainedMaxAge
                  THEN e.body.age + 1 ELSE e.body.age
             y == [e.body EXCEPT !.age = n]
  <1>1. e \in Entry /\ e.body \in Body
    BY DEF Inv, TypeOK, Entry
  <1>2. m_entries'[k] = [e EXCEPT !.idle = i, !.body = y]
    BY <1>1, Zenon DEF Tick, Entry
  <1>3. e.idle \in Nat /\ i \in Nat /\ i >= e.idle
    BY <1>1 DEF Entry
  <1>4. e.body.age \in Nat /\ n \in Nat /\ n >= e.body.age
    BY <1>1 DEF Body
  <1> HIDE DEF i, n
  <1>5. y.bytes = e.body.bytes /\ y.age = n
    BY <1>1 DEF Body
  <1> HIDE DEF y
  <1>6. /\ m_entries'[k].state = e.state /\ m_entries'[k].generation = e.generation
        /\ m_entries'[k].cancelled = e.cancelled
        /\ m_entries'[k].idle = i /\ m_entries'[k].body = y
    BY <1>1, <1>2 DEF Entry
  <1> QED BY <1>3, <1>4, <1>5, <1>6

(* The clock lets leases run out and ends nothing. *)
LEMMA TickRunsOut ==
    ASSUME Inv, Tick
    PROVE  AL!Next
  <1>1. ASSUME NEW k \in Hash
        PROVE  /\ m_entries'[k].state = m_entries[k].state
               /\ m_entries'[k].generation = m_entries[k].generation
               /\ m_entries[k].idle \in Nat /\ m_entries'[k].idle \in Nat
               /\ m_entries'[k].idle >= m_entries[k].idle
    BY TickFacts
  <1>2. \A k \in Hash : IsActive(m_entries'[k]) <=> IsActive(m_entries[k])
    BY <1>1 DEF IsActive
  <1>3. \A k \in Hash : IsStale(m_entries[k]) => IsStale(m_entries'[k])
    BY <1>1, <1>2 DEF IsStale
  <1>4. \A k \in Hash : IsStale(m_entries'[k]) =>
           IsActive(m_entries[k]) /\ m_entries[k].generation # 0
    BY <1>2 DEF IsStale, Inv, EntryOK
  <1>5. UNCHANGED m_next_generation
    BY Zenon DEF Tick
  <1>6. AL!RunOut
    BY <1>1, <1>2, <1>3, <1>4, <1>5 DEF AL!RunOut
  <1> QED BY <1>6 DEF AL!Next

(* Every step of the table is a step of AttemptLease or leaves it alone. *)
LEMMA StepImplements == Inv /\ [Next]_vars => [AL!Next]_(AL!vars)
  <1> SUFFICES ASSUME Inv, [Next]_vars PROVE [AL!Next]_(AL!vars)
    OBVIOUS
  <1>1. ASSUME NextRetry PROVE AllWind
    BY <1>1, EraseEnds DEF NextRetry, Prunable
  <1>2. CASE Next
    BY <1>1, <1>2, HashCallEnds, BeginAcquires, TokenCallEnds, SweepEnds, WindStep,
       TickRunsOut DEF Next
  <1>3. CASE UNCHANGED vars
    BY <1>3 DEF vars, AL!vars
  <1> QED BY <1>2, <1>3

(* The lifecycle table refines AttemptLease: for every block hash at most  *)
(* one attempt is live, its generation is fresh, and only a stale attempt  *)
(* is displaced, whichever calls and late callbacks arrive in which order. *)
THEOREM ImplementsAttemptLease == Spec => RefinesAttemptLease
  <1>1. Init => AL!Init
    BY NoEntryType DEF Init, AL!Init, IsStale
  <1> QED BY <1>1, StepImplements, InvariantHolds, PTL
      DEF Spec, RefinesAttemptLease, AL!Spec
-----------------------------------------------------------------------------
(* What no step does: take away a live attempt from behind its holder's    *)
(* back, make a retained body younger, or exceed the cap on retained       *)
(* bodies.                                                                 *)

(* The holder of a live attempt's token has not ended it.  LateCallback-   *)
(* Harmless needs this beside Inv: a token that ends an attempt does so    *)
(* for the first time.                                                     *)
LiveUnreleased ==
    \A h \in Hash :
        IsActive(m_entries[h]) => ~attempts[m_entries[h].generation].released

USE LifecycleAssumption DEF Generation

-----------------------------------------------------------------------------
(* LiveUnreleased is inductive relative to Inv.                            *)

(* The live attempt of a hash is a generation handed out for that hash. *)
LEMMA LiveGeneration ==
    ASSUME Inv, NEW h \in Hash, IsActive(m_entries[h])
    PROVE  /\ m_entries[h].generation \in Generation
           /\ m_entries[h].generation <= m_next_generation
           /\ attempts[m_entries[h].generation].hash = {h}
  BY DEF Inv, TypeOK, EntryOK

(* A step that begins and releases nothing. *)
LEMMA QuietUnreleased ==
    ASSUME Inv, LiveUnreleased, AllWind,
           \A g \in Generation : attempts'[g].released = attempts[g].released
    PROVE  LiveUnreleased'
  <1> SUFFICES ASSUME NEW h \in Hash, IsActive(m_entries'[h])
               PROVE  ~attempts'[m_entries'[h].generation].released
    BY DEF LiveUnreleased
  <1>1. IsActive(m_entries[h]) /\ m_entries'[h].generation = m_entries[h].generation
    BY DEF AllWind, Winds
  <1> QED BY <1>1, LiveGeneration DEF LiveUnreleased

(* A step that releases the attempt of h and leaves h without one. *)
LEMMA ReleaseUnreleased ==
    ASSUME Inv, LiveUnreleased, AllWind,
           NEW g \in Generation, NEW h \in Hash, Find(g, h),
           ~IsActive(m_entries'[h]),
           \A k \in Generation \ {g} : attempts'[k].released = attempts[k].released
    PROVE  LiveUnreleased'
  <1> SUFFICES ASSUME NEW k \in Hash, IsActive(m_entries'[k])
               PROVE  ~attempts'[m_entries'[k].generation].released
    BY DEF LiveUnreleased
  <1>1. IsActive(m_entries[k]) /\ m_entries'[k].generation = m_entries[k].generation
    BY DEF AllWind, Winds
  <1>2. k # h
    OBVIOUS
  <1>3. m_entries[k].generation \in Generation \ {g}
    <2>1. attempts[m_entries[k].generation].hash = {k} /\ attempts[g].hash = {h}
      BY <1>1, LiveGeneration DEF Find
    <2>2. m_entries[k].generation # g
      BY <1>2, <2>1
    <2> QED BY <1>1, <2>2, LiveGeneration
  <1> QED BY <1>1, <1>3 DEF LiveUnreleased

(* The calls that end an attempt by its own token. *)
LEMMA RetryTerminalFacts ==
    ASSUME Inv, NEW g \in Generation, NEW h \in Hash, Retry(g, h) \/ Terminal(g, h)
    PROVE  /\ Find(g, h) /\ ~IsActive(m_entries'[h]) /\ attempts'[g].released
           /\ \A k \in Hash \ {h} : m_entries'[k] = m_entries[k]
           /\ \A k \in Generation \ {g} : attempts'[k].released = attempts[k].released
  <1> DEFINE e == m_entries[h]
  <1>1. e \in Entry /\ attempts \in [Generation -> Attempt]
    BY DEF Inv, TypeOK
  <1>2. CASE Retry(g, h)
    <2> DEFINE p == [e EXCEPT !.state = "TRANSIENT_FAILURE", !.idle = 0, !.lease = 0,
                              !.cancelled = 0, !.resources = 0]
               f == IF HasBody(e) THEN p ELSE NoEntry
               a == [attempts[g] EXCEPT !.released = TRUE]
    <2>1. p.state = "TRANSIENT_FAILURE" /\ a.released
      BY <1>1 DEF Entry, Attempt
    <2>2. /\ m_entries' = [m_entries EXCEPT ![h] = f] /\ Find(g, h)
          /\ attempts' = [attempts EXCEPT ![g] = a]
      BY <1>1, <1>2 DEF Retry
    <2> HIDE DEF p, a
    <2>3. ~IsActive(f)
      BY <2>1, NoEntryType DEF IsActive, ActiveStates
    <2> HIDE DEF f
    <2> QED BY <1>1, <2>1, <2>2, <2>3 DEF Inv, TypeOK
  <1>3. CASE Terminal(g, h)
    <2> DEFINE R == RaiseFlags({h})
               a == [R[g] EXCEPT !.released = TRUE]
    <2>1. /\ R \in [Generation -> Attempt]
          /\ \A k \in Generation : R[k].released = attempts[k].released
      BY RaiseFlagsType DEF Inv
    <2> HIDE DEF R
    <2>2. a.released
      BY <2>1 DEF Attempt
    <2>3. attempts' = [R EXCEPT ![g] = a] /\ Find(g, h)
      BY <1>3, <2>1 DEF Terminal, R
    <2> HIDE DEF a
    <2>4. attempts'[g].released
          /\ \A k \in Generation \ {g} : attempts'[k].released = attempts[k].released
      BY <2>1, <2>2, <2>3
    <2>5. m_entries' = [m_entries EXCEPT ![h] = NoEntry]
      BY <1>3, EraseOne DEF Terminal, Inv
    <2> QED BY <2>3, <2>4, <2>5, NoEntryType DEF Inv, TypeOK
  <1> QED BY <1>2, <1>3

(* What Begin does to the entries and to the records of the attempts. *)
LEMMA BeginFacts ==
    ASSUME Inv, NEW h \in Hash, Begin(h)
    PROVE  /\ ~IsActive(m_entries[h]) \/ IsStale(m_entries[h])
           /\ m_next_generation + 1 \in Generation
           /\ m_entries'[h].generation = m_next_generation + 1
           /\ \A k \in Hash \ {h} : m_entries'[k] = m_entries[k]
           /\ ~attempts'[m_next_generation + 1].released
           /\ \A k \in Generation \ {m_next_generation + 1} :
                 attempts'[k].released = attempts[k].released
  <1> DEFINE o == m_entries[h]
             e == IF IsStale(o) THEN Expired(o) ELSE o
             g == m_next_generation + 1
             f == [e EXCEPT !.state = "ADMISSION_PENDING", !.idle = 0,
                            !.lease = 0, !.cancelled = 0, !.generation = g]
             a == [NoAttempt EXCEPT !.hash = {h}]
             R == RaiseFlags(IF IsStale(o) THEN {h} ELSE {})
  <1>1. /\ g \in Generation /\ ~IsActive(e)
        /\ m_entries' = [m_entries EXCEPT ![h] = f]
        /\ attempts' = [R EXCEPT ![g] = a]
    BY DEF Begin
  <1>2. e \in Entry
    BY ExpiredEntry DEF Inv, TypeOK
  <1>3. f.generation = g
    BY <1>2 DEF Entry
  <1>4. ~IsActive(o) \/ IsStale(o)
    BY <1>1
  <1>5. a.released = FALSE
    BY DEF NoAttempt
  <1>6. /\ R \in [Generation -> Attempt]
        /\ \A k \in Generation : R[k].released = attempts[k].released
    <2>1. (IF IsStale(o) THEN {h} ELSE {}) \in SUBSET Hash
      OBVIOUS
    <2> QED BY <2>1, RaiseFlagsType DEF Inv
  <1> HIDE DEF e, f, a, R
  <1>7. m_entries'[h] = f /\ \A k \in Hash \ {h} : m_entries'[k] = m_entries[k]
    BY <1>1 DEF Inv, TypeOK
  <1>8. attempts'[g] = a /\ \A k \in Generation \ {g} : attempts'[k] = R[k]
    BY <1>1, <1>6
  <1> QED BY <1>1, <1>3, <1>4, <1>5, <1>6, <1>7, <1>8

(* What Retain does to the entries: those of S go, none of them with an    *)
(* attempt, and h goes only because its body's time was over; then h may   *)
(* receive the body.                                                       *)
LEMMA RetainFacts ==
    ASSUME Inv, NEW h \in Hash, NEW b \in Sizes, Retain(h, b)
    PROVE  \E S \in SUBSET Hash :
              /\ attempts' = RaiseFlags(S)
              /\ \A k \in S : ~IsActive(m_entries[k])
              /\ h \in S => h \in Prunable(m_entries)
              /\ \A k \in Hash \ {h} :
                    m_entries'[k] = IF k \in S THEN NoEntry ELSE m_entries[k]
              /\ LET e == IF h \in S THEN NoEntry ELSE m_entries[h]
                 IN  m_entries'[h] \in {e, RetainedEntry(e, b)}
  <1> DEFINE P == Prunable(m_entries)
             E == EraseAll(m_entries, P)
             total == m_retained_bytes - BytesOf(m_entries, P)
  <1>1. PICK V \in Victims(E, total, h, b) :
           /\ attempts' = RaiseFlags(P \cup V)
           /\ \/ m_entries' = [EraseAll(E, V) EXCEPT
                                  ![h] = RetainedEntry(EraseAll(E, V)[h], b)]
              \/ m_entries' = EraseAll(E, V)
    BY Zenon DEF Retain
  <1> DEFINE S == P \cup V
             F == EraseAll(m_entries, S)
  <1>2. /\ S \in SUBSET Hash /\ \A k \in S : ~IsActive(m_entries[k])
        /\ EraseAll(E, V) = F /\ h \notin V
    <2>1. TypeOK
      BY DEF Inv
    <2>2. V \in Victims(EraseAll(m_entries, Prunable(m_entries)), total, h, b)
      OBVIOUS
    <2> HIDE DEF total
    <2>3. /\ h \notin V /\ P \cup V \subseteq Hash
          /\ \A k \in P \cup V : ~IsActive(m_entries[k])
          /\ EraseAll(E, V) = EraseAll(m_entries, P \cup V)
      BY <2>1, <2>2, EvictionFacts
    <2> HIDE DEF P, E
    <2> QED BY <2>3
  <1>3. h \in S => h \in Prunable(m_entries)
    BY <1>2
  <1>4. attempts' = RaiseFlags(S)
    BY <1>1
  <1>5. m_entries' = F \/ m_entries' = [F EXCEPT ![h] = RetainedEntry(F[h], b)]
    BY <1>1, <1>2
  <1> HIDE DEF S, P, E, total
  <1>6. \A k \in Hash : F[k] = IF k \in S THEN NoEntry ELSE m_entries[k]
    BY DEF EraseAll
  <1>7. /\ m_entries'[h] \in {F[h], RetainedEntry(F[h], b)}
        /\ \A k \in Hash \ {h} : m_entries'[k] = F[k]
    <2>1. F = [k \in Hash |-> F[k]]
      BY DEF EraseAll
    <2> HIDE DEF F
    <2>2. CASE m_entries' = F
      BY <2>2
    <2>3. CASE m_entries' = [F EXCEPT ![h] = RetainedEntry(F[h], b)]
      BY <2>1, <2>3
    <2> QED BY <1>5, <2>2, <2>3
  <1> HIDE DEF F
  <1> QED BY <1>2, <1>3, <1>4, <1>6, <1>7

(* Every step keeps the live attempts unreleased. *)
LEMMA NextUnreleased == Inv /\ LiveUnreleased /\ [Next]_vars => LiveUnreleased'
  <1> SUFFICES ASSUME Inv, LiveUnreleased, [Next]_vars PROVE LiveUnreleased'
    OBVIOUS
  <1> DEFINE Quiet == \A g \in Generation : attempts'[g].released = attempts[g].released
  <1>1. ASSUME NEW S \in SUBSET Hash, attempts' = RaiseFlags(S) PROVE Quiet
    BY <1>1, RaiseFlagsType DEF Inv
  <1>2. ASSUME NEW h \in Hash, HashCall(h) PROVE LiveUnreleased'
    <2>1. CASE Begin(h)
      <3> SUFFICES ASSUME NEW k \in Hash, IsActive(m_entries'[k])
                   PROVE  ~attempts'[m_entries'[k].generation].released
        BY DEF LiveUnreleased
      <3>1. CASE k = h
        BY <3>1, <2>1, BeginFacts
      <3>2. CASE k # h
        <4>1. IsActive(m_entries[k]) /\ m_entries'[k] = m_entries[k]
          BY <3>2, <2>1, BeginFacts
        <4>2. m_next_generation \in Nat
          BY DEF Inv, TypeOK
        <4>3. m_entries[k].generation \in Generation \ {m_next_generation + 1}
          BY <4>1, <4>2, LiveGeneration
        <4> QED BY <4>1, <4>3, <2>1, BeginFacts DEF LiveUnreleased
      <3> QED BY <3>1, <3>2
    <2>2. CASE ~Begin(h)
      <3>1. AllWind
        BY <1>2, <2>2, HashCallEnds
      <3>2. ASSUME NEW b \in Sizes, Retain(h, b) PROVE Quiet
        <4>1. PICK S \in SUBSET Hash : attempts' = RaiseFlags(S)
          BY <3>2, RetainFacts
        <4> QED BY <4>1, <1>1
      <3>3. ASSUME RetryInactive(h) PROVE Quiet
        BY <3>3 DEF RetryInactive
      <3>4. ASSUME QueryIsActive(h) \/ ExpireActiveWithoutBody(h) \/ TerminalRetained(h)
            PROVE  Quiet
        <4>1. attempts' = RaiseFlags({h})
          BY <3>4 DEF QueryIsActive, ExpireActiveWithoutBody, TerminalRetained
        <4> QED BY <4>1, <1>1
      <3>5. Quiet
        BY <1>2, <2>2, <3>2, <3>3, <3>4 DEF HashCall
      <3> QED BY <3>1, <3>5, QuietUnreleased
    <2> QED BY <2>1, <2>2
  <1>3. ASSUME NEW g \in Generation, NEW h \in Hash, TokenCall(g, h)
        PROVE  LiveUnreleased'
    <2>1. AllWind
      BY <1>3, TokenCallEnds
    <2>2. CASE Retry(g, h) \/ Terminal(g, h)
      BY <2>1, <2>2, RetryTerminalFacts, ReleaseUnreleased
    <2>3. ASSUME NEW leased \in BOOLEAN, Queue(g, h, leased) PROVE Quiet
      <3> DEFINE a == [attempts[g] EXCEPT !.flag = "clear"]
      <3>1. a.released = attempts[g].released
        BY DEF Inv, TypeOK, Attempt
      <3>2. attempts' = [attempts EXCEPT ![g] = a]
        BY <2>3 DEF Queue, Inv, TypeOK
      <3> HIDE DEF a
      <3> QED BY <3>1, <3>2 DEF Inv, TypeOK
    <2>4. ASSUME Start(g, h) \/ Park(g, h) \/ Completing(g, h) PROVE Quiet
      BY <2>4 DEF Start, Park, Completing
    <2> QED BY <1>3, <2>1, <2>2, <2>3, <2>4, QuietUnreleased DEF TokenCall
  <1>4. CASE ExpireStaleAttempts
    <2>1. attempts' = RaiseFlags({h \in Hash : IsStale(m_entries[h])})
      BY <1>4 DEF ExpireStaleAttempts
    <2>2. Quiet
      BY <2>1, <1>1
    <2> QED BY <1>4, <2>2, SweepEnds, QuietUnreleased
  <1>5. CASE NextRetry
    <2>1. /\ attempts' = RaiseFlags(Prunable(m_entries))
          /\ Prunable(m_entries) \in SUBSET Hash
      BY <1>5 DEF NextRetry, Prunable
    <2>2. Quiet
      BY <2>1, <1>1
    <2>3. AllWind
      BY <1>5, <2>1, EraseEnds DEF NextRetry
    <2> QED BY <2>2, <2>3, QuietUnreleased
  <1>6. CASE Tick
    <2>1. /\ UNCHANGED attempts
          /\ \A k \in Hash : /\ m_entries'[k].state = m_entries[k].state
                             /\ m_entries'[k].generation = m_entries[k].generation
      BY <1>6, TickFacts, Zenon DEF Tick
    <2> QED BY <2>1 DEF LiveUnreleased, IsActive
  <1>7. CASE UNCHANGED vars
    BY <1>7 DEF vars, LiveUnreleased
  <1> QED BY <1>2, <1>3, <1>4, <1>5, <1>6, <1>7 DEF Next

(* Inv and LiveUnreleased hold in every reachable state. *)
LEMMA UnreleasedHolds == Spec => []LiveUnreleased
  <1>1. Init => LiveUnreleased
    BY NoEntryType DEF Init, LiveUnreleased
  <1> QED BY <1>1, NextUnreleased, InvariantHolds, PTL DEF Spec

-----------------------------------------------------------------------------
(* A live attempt that is neither stale nor without a body keeps its entry *)
(* or is ended by its own token.                                           *)

(* What RetainedEntry keeps of the body and of the attempt. *)
LEMMA RetainedEntryKeeps ==
    ASSUME NEW e \in Entry, NEW b \in Sizes
    PROVE  /\ RetainedEntry(e, b).body.age = e.body.age
           /\ RetainedEntry(e, b).body.bytes = b
           /\ HasBody(RetainedEntry(e, b))
           /\ IsActive(e) => AttemptKept(e, RetainedEntry(e, b))
  <1> DEFINE y == [e.body EXCEPT !.bytes = b]
             p == [e EXCEPT !.body = y]
             q == [p EXCEPT !.state = "BODY_RETAINED", !.idle = 0]
  <1>1. y.age = e.body.age /\ y.bytes = b
    BY DEF Entry, Body
  <1>2. RetainedEntry(e, b) = IF IsActive(e) THEN p ELSE q
    BY DEF RetainedEntry, Entry
  <1> HIDE DEF y
  <1>3. p.body = y /\ q.body = y
    BY DEF Entry
  <1> HIDE DEF p, q
  <1>4. RetainedEntry(e, b).body.age = e.body.age /\ RetainedEntry(e, b).body.bytes = b
    BY <1>1, <1>2, <1>3
  <1> QED BY <1>4, RetainedEntryFacts DEF AttemptKept

(* One step and one hash. *)
LEMMA AttemptKeptOrReleased ==
    ASSUME Inv, LiveUnreleased, Next, NEW h \in Hash,
           IsActive(m_entries[h]), ~IsStale(m_entries[h]), HasBody(m_entries[h])
    PROVE  LET e == m_entries[h]
           IN  \/ AttemptKept(e, m_entries'[h])
               \/ ~attempts[e.generation].released /\ attempts'[e.generation].released
  <1> DEFINE e == m_entries[h]
             Kept == AttemptKept(e, m_entries'[h])
             Ended == ~attempts[e.generation].released
                         /\ attempts'[e.generation].released
  <1>1. e \in Entry /\ EntryOK(h)
    BY DEF Inv, TypeOK
  <1>2. ASSUME m_entries'[h] = e PROVE Kept
    BY <1>2 DEF AttemptKept
  <1>3. ASSUME NEW k \in Hash, NEW f, m_entries' = [m_entries EXCEPT ![k] = f],
               k = h => AttemptKept(e, f)
        PROVE  Kept
    <2>1. CASE k = h
      BY <2>1, <1>3 DEF Inv, TypeOK
    <2>2. CASE k # h
      BY <2>2, <1>2, <1>3 DEF Inv, TypeOK
    <2> QED BY <2>1, <2>2
  <1>4. ASSUME NEW k \in Hash, HashCall(k) PROVE Kept
    <2>1. CASE Begin(k)
      <3>1. k # h
        BY <2>1, BeginFacts
      <3> QED BY <2>1, <3>1, <1>2, BeginFacts
    <2>2. ASSUME NEW b \in Sizes, Retain(k, b) PROVE Kept
      <3>1. PICK S \in SUBSET Hash :
               /\ \A j \in S : ~IsActive(m_entries[j])
               /\ \A j \in Hash \ {k} :
                     m_entries'[j] = IF j \in S THEN NoEntry ELSE m_entries[j]
               /\ LET x == IF k \in S THEN NoEntry ELSE m_entries[k]
                  IN  m_entries'[k] \in {x, RetainedEntry(x, b)}
        BY <2>2, RetainFacts
      <3>2. h \notin S
        BY <3>1
      <3>3. m_entries'[h] \in {e, RetainedEntry(e, b)}
        BY <3>1, <3>2
      <3> QED BY <3>3, <1>1, <1>2, RetainedEntryKeeps
    <2>3. CASE QueryIsActive(k)
      BY <2>3, <1>3, Zenon DEF QueryIsActive
    <2>4. CASE ExpireActiveWithoutBody(k)
      BY <2>4, <1>3, EraseOne, Zenon DEF ExpireActiveWithoutBody, Inv
    <2>5. CASE TerminalRetained(k)
      BY <2>5, <1>3, EraseOne, Zenon DEF TerminalRetained, Inv
    <2>6. CASE RetryInactive(k)
      BY <2>6, <1>3, Zenon DEF RetryInactive
    <2> QED BY <1>4, <2>1, <2>2, <2>3, <2>4, <2>5, <2>6 DEF HashCall
  <1>5. ASSUME NEW g \in Generation, NEW k \in Hash, TokenCall(g, k)
        PROVE  Kept \/ Ended
    <2>1. CASE Retry(g, k) \/ Terminal(g, k)
      <3>1. CASE k = h
        BY <3>1, <2>1, RetryTerminalFacts DEF Find, LiveUnreleased
      <3>2. CASE k # h
        BY <3>2, <2>1, <1>2, RetryTerminalFacts
      <3> QED BY <3>1, <3>2
    <2>2. ASSUME NEW leased \in BOOLEAN, Queue(g, k, leased) PROVE Kept
      <3> DEFINE x == m_entries[k]
                 f == [x EXCEPT !.state = "QUEUED", !.idle = 0, !.cancelled = g,
                                !.resources = g, !.lease = IF leased THEN g ELSE 0]
      <3>1. m_entries' = [m_entries EXCEPT ![k] = f] /\ Find(g, k)
        BY <2>2 DEF Queue
      <3>2. k = h => /\ f.state = "QUEUED" /\ f.generation = e.generation
                     /\ f.cancelled = g /\ f.body = e.body
        BY <1>1 DEF Entry
      <3> HIDE DEF f
      <3>3. k = h => AttemptKept(e, f)
        BY <1>1, <3>1, <3>2
           DEF AttemptKept, EntryOK, Find, IsActive, ActiveStates, HasBody
      <3> QED BY <3>1, <3>3, <1>3, Zenon
    <2>3. ASSUME Start(g, k) PROVE Kept
      <3> DEFINE f == [m_entries[k] EXCEPT !.state = "RUNNING", !.idle = 0]
      <3>1. m_entries' = [m_entries EXCEPT ![k] = f]
        BY <2>3 DEF Start
      <3>2. k = h => /\ f.state = "RUNNING" /\ f.generation = e.generation
                     /\ f.cancelled = e.cancelled /\ f.body = e.body
        BY <1>1 DEF Entry
      <3> HIDE DEF f
      <3>3. k = h => AttemptKept(e, f)
        BY <3>2 DEF AttemptKept, IsActive, ActiveStates, HasBody
      <3> QED BY <3>1, <3>3, <1>3, Zenon
    <2>4. ASSUME Park(g, k) PROVE Kept
      <3> DEFINE f == [m_entries[k] EXCEPT !.state = "AWAITING_QUORUM", !.idle = 0,
                                           !.lease = 0]
      <3>1. m_entries' = [m_entries EXCEPT ![k] = f]
        BY <2>4 DEF Park
      <3>2. k = h => /\ f.state = "AWAITING_QUORUM" /\ f.generation = e.generation
                     /\ f.cancelled = e.cancelled /\ f.body = e.body
        BY <1>1 DEF Entry
      <3> HIDE DEF f
      <3>3. k = h => AttemptKept(e, f)
        BY <3>2 DEF AttemptKept, IsActive, ActiveStates, HasBody
      <3> QED BY <3>1, <3>3, <1>3, Zenon
    <2>5. ASSUME Completing(g, k) PROVE Kept
      <3> DEFINE f == [m_entries[k] EXCEPT !.state = "COMPLETING", !.idle = 0]
      <3>1. m_entries' = [m_entries EXCEPT ![k] = f]
        BY <2>5 DEF Completing
      <3>2. k = h => /\ f.state = "COMPLETING" /\ f.generation = e.generation
                     /\ f.cancelled = e.cancelled /\ f.body = e.body
        BY <1>1 DEF Entry
      <3> HIDE DEF f
      <3>3. k = h => AttemptKept(e, f)
        BY <3>2 DEF AttemptKept, IsActive, ActiveStates, HasBody
      <3> QED BY <3>1, <3>3, <1>3, Zenon
    <2> QED BY <1>5, <2>1, <2>2, <2>3, <2>4, <2>5 DEF TokenCall
  <1>6. CASE ExpireStaleAttempts
    BY <1>6, <1>2 DEF ExpireStaleAttempts
  <1>7. CASE NextRetry
    BY <1>7, <1>2 DEF NextRetry, Prunable, EraseAll
  <1>8. CASE Tick
    BY <1>8, TickFacts DEF AttemptKept, IsActive, HasBody
  <1> QED BY <1>4, <1>5, <1>6, <1>7, <1>8 DEF Next

(* However late a callback or a sweep comes, a live attempt with a body    *)
(* that is not stale keeps its generation, its flag and its body until a   *)
(* call with its own token ends it.                                        *)
THEOREM LateCallbacksHarmless == Spec => LateCallbackHarmless
  <1> DEFINE Step ==
        \A h \in Hash :
           LET e == m_entries[h]
           IN  IsActive(e) /\ ~IsStale(e) /\ HasBody(e) =>
                  \/ AttemptKept(e, m_entries'[h])
                  \/ ~attempts[e.generation].released
                         /\ attempts'[e.generation].released
  <1>1. Inv /\ LiveUnreleased /\ [Next]_vars => [Step]_vars
    BY AttemptKeptOrReleased
  <1>2. Spec => [][Step]_vars
    <2> HIDE DEF Step
    <2> QED BY <1>1, InvariantHolds, UnreleasedHolds, PTL DEF Spec
  <1> QED BY <1>2 DEF LateCallbackHarmless

-----------------------------------------------------------------------------
(* Retained bodies. *)

(* Only Retain stores a body: any other step keeps the body of a hash, no  *)
(* younger than before, or removes it.                                     *)
LEMMA BodyKept ==
    ASSUME Inv, Next, NEW h \in Hash, HasBody(m_entries'[h]),
           ~ \E k \in Hash, b \in Sizes : Retain(k, b)
    PROVE  /\ HasBody(m_entries[h])
           /\ m_entries'[h].body.age >= m_entries[h].body.age
  <1> DEFINE e == m_entries[h]
             Goal == HasBody(e) /\ m_entries'[h].body.age >= e.body.age
  <1>1. e \in Entry /\ e.body.age \in Nat
    BY DEF Inv, TypeOK, Entry, Body
  <1>2. ASSUME m_entries'[h].body = e.body PROVE Goal
    BY <1>1, <1>2 DEF HasBody
  <1>3. ASSUME NEW k \in Hash, NEW f, m_entries' = [m_entries EXCEPT ![k] = f],
               k = h => f.body = e.body \/ ~HasBody(f)
        PROVE  Goal
    <2>1. CASE k = h
      BY <2>1, <1>2, <1>3 DEF Inv, TypeOK
    <2>2. CASE k # h
      BY <2>2, <1>2, <1>3 DEF Inv, TypeOK
    <2> QED BY <2>1, <2>2
  <1>4. ASSUME NEW k \in Hash, HashCall(k) PROVE Goal
    <2>1. ASSUME NEW x \in Entry
          PROVE  Expired(x).body = x.body \/ ~HasBody(Expired(x))
      BY NoEntryType DEF Expired, Entry
    <2>2. CASE Begin(k)
      <3> DEFINE o == m_entries[k]
                 x == IF IsStale(o) THEN Expired(o) ELSE o
                 f == [x EXCEPT !.state = "ADMISSION_PENDING", !.idle = 0, !.lease = 0,
                                !.cancelled = 0, !.generation = m_next_generation + 1]
      <3>1. o \in Entry /\ x \in Entry
        BY ExpiredEntry DEF Inv, TypeOK
      <3>2. x.body = o.body \/ ~HasBody(x)
        BY <2>1, <3>1
      <3>3. m_entries' = [m_entries EXCEPT ![k] = f]
        BY <2>2 DEF Begin
      <3> HIDE DEF x
      <3>4. f.body = x.body
        BY <3>1 DEF Entry
      <3> HIDE DEF f
      <3> QED BY <3>2, <3>3, <3>4, <1>3, Zenon DEF HasBody
    <2>4. CASE QueryIsActive(k)
      <3>1. m_entries' = [m_entries EXCEPT ![k] = Expired(m_entries[k])]
        BY <2>4 DEF QueryIsActive
      <3> QED BY <3>1, <2>1, <1>1, <1>3, Zenon
    <2>5. CASE ExpireActiveWithoutBody(k) \/ TerminalRetained(k)
      <3>1. m_entries' = [m_entries EXCEPT ![k] = NoEntry]
        BY <2>5, EraseOne, Zenon DEF ExpireActiveWithoutBody, TerminalRetained, Inv
      <3> QED BY <3>1, NoEntryType, <1>3, Zenon
    <2>6. CASE RetryInactive(k)
      <3> DEFINE x == m_entries[k]
                 p == [x EXCEPT !.state = "TRANSIENT_FAILURE", !.idle = 0]
                 f == IF HasBody(x) THEN p ELSE NoEntry
      <3>1. m_entries' = [m_entries EXCEPT ![k] = f]
        BY <2>6 DEF RetryInactive
      <3>2. k = h => p.body = e.body
        BY <1>1 DEF Entry
      <3> HIDE DEF p
      <3>3. k = h => f.body = e.body \/ ~HasBody(f)
        BY <3>2, NoEntryType
      <3> HIDE DEF f
      <3> QED BY <3>1, <3>3, <1>3, Zenon
    <2> QED BY <1>4, <2>2, <2>4, <2>5, <2>6 DEF HashCall
  <1>5. ASSUME NEW g \in Generation, NEW k \in Hash, TokenCall(g, k) PROVE Goal
    <2>1. ASSUME NEW leased \in BOOLEAN, Queue(g, k, leased) PROVE Goal
      <3> DEFINE f == [m_entries[k] EXCEPT !.state = "QUEUED", !.idle = 0,
                          !.cancelled = g, !.resources = g,
                          !.lease = IF leased THEN g ELSE 0]
      <3>1. m_entries' = [m_entries EXCEPT ![k] = f]
        BY <2>1 DEF Queue
      <3>2. k = h => f.body = e.body
        BY <1>1 DEF Entry
      <3> HIDE DEF f
      <3> QED BY <3>1, <3>2, <1>3, Zenon
    <2>2. ASSUME Start(g, k) \/ Park(g, k) \/ Completing(g, k) PROVE Goal
      <3> DEFINE r == [m_entries[k] EXCEPT !.state = "RUNNING", !.idle = 0]
                 p == [m_entries[k] EXCEPT !.state = "AWAITING_QUORUM", !.idle = 0,
                                           !.lease = 0]
                 c == [m_entries[k] EXCEPT !.state = "COMPLETING", !.idle = 0]
      <3>1. \E f \in {r, p, c} : m_entries' = [m_entries EXCEPT ![k] = f]
        BY <2>2 DEF Start, Park, Completing
      <3>2. k = h => r.body = e.body /\ p.body = e.body /\ c.body = e.body
        BY <1>1 DEF Entry
      <3> HIDE DEF r, p, c
      <3> QED BY <3>1, <3>2, <1>3, Zenon
    <2>3. ASSUME Retry(g, k) PROVE Goal
      <3> DEFINE x == m_entries[k]
                 p == [x EXCEPT !.state = "TRANSIENT_FAILURE", !.idle = 0, !.lease = 0,
                                !.cancelled = 0, !.resources = 0]
                 f == IF HasBody(x) THEN p ELSE NoEntry
      <3>1. m_entries' = [m_entries EXCEPT ![k] = f]
        BY <2>3 DEF Retry
      <3>2. k = h => p.body = e.body
        BY <1>1 DEF Entry
      <3> HIDE DEF p
      <3>3. k = h => f.body = e.body \/ ~HasBody(f)
        BY <3>2, NoEntryType
      <3> HIDE DEF f
      <3> QED BY <3>1, <3>3, <1>3, Zenon
    <2>4. ASSUME Terminal(g, k) PROVE Goal
      <3>1. m_entries' = [m_entries EXCEPT ![k] = NoEntry]
        BY <2>4, EraseOne DEF Terminal, Inv
      <3> QED BY <3>1, NoEntryType, <1>3, Zenon
    <2> QED BY <1>5, <2>1, <2>2, <2>3, <2>4 DEF TokenCall
  <1>6. CASE ExpireStaleAttempts
    <2>1. m_entries'[h] \in {e, ExpiredInSweep(e)}
      BY <1>6 DEF ExpireStaleAttempts
    <2>2. ExpiredInSweep(e).body = e.body \/ ~HasBody(ExpiredInSweep(e))
      BY <1>1, NoEntryType DEF ExpiredInSweep, Entry
    <2> QED BY <2>1, <2>2, <1>2
  <1>7. CASE NextRetry
    <2>1. m_entries'[h] \in {e, NoEntry}
      BY <1>7 DEF NextRetry, EraseAll
    <2> QED BY <2>1, <1>2, NoEntryType
  <1>8. CASE Tick
    BY <1>8, TickFacts DEF HasBody
  <1> QED BY <1>4, <1>5, <1>6, <1>7, <1>8 DEF Next

(* One step and one hash: a body grows younger only when Retain found its  *)
(* time over and stored it anew.                                           *)
LEMMA BodyGrowsOlder ==
    ASSUME Inv, Next, NEW h \in Hash,
           HasBody(m_entries[h]), HasBody(m_entries'[h]),
           m_entries'[h].body.age < m_entries[h].body.age
    PROVE  m_entries[h].body.age > RetainedMaxAge
  <1> DEFINE e == m_entries[h]
  <1>1. e \in Entry /\ e.body.age \in Nat
    BY DEF Inv, TypeOK, Entry, Body
  <1>2. m_entries'[h] # e
    BY <1>1
  <1>3. m_entries'[h].body.age \in Nat
    BY NextInv DEF Inv, TypeOK, Entry, Body
  <1>4. PICK k \in Hash, b \in Sizes : Retain(k, b)
    BY <1>1, <1>3, BodyKept
  <1>5. PICK S \in SUBSET Hash :
           /\ k \in S => k \in Prunable(m_entries)
           /\ \A j \in Hash \ {k} :
                 m_entries'[j] = IF j \in S THEN NoEntry ELSE m_entries[j]
           /\ LET x == IF k \in S THEN NoEntry ELSE m_entries[k]
              IN  m_entries'[k] \in {x, RetainedEntry(x, b)}
    BY <1>4, RetainFacts
  <1>6. k = h
    BY <1>5, <1>2, NoEntryType
  <1>7. CASE h \in S
    BY <1>5, <1>6, <1>7 DEF Prunable
  <1>8. CASE h \notin S
    <2>1. m_entries'[h] = RetainedEntry(e, b)
      BY <1>5, <1>6, <1>8, <1>2
    <2> QED BY <2>1, <1>1, RetainedEntryKeeps
  <1> QED BY <1>7, <1>8

(* Deliveries and retries never extend a body's time to live: it grows     *)
(* younger only if its time was already over.                              *)
THEOREM BodyAgesNotRefreshed == Spec => BodyAgeNotRefreshed
  <1> DEFINE Step ==
        \A h \in Hash :
           /\ HasBody(m_entries[h])
           /\ HasBody(m_entries'[h])
           /\ m_entries'[h].body.age < m_entries[h].body.age
           => m_entries[h].body.age > RetainedMaxAge
  <1>1. Inv /\ [Next]_vars => [Step]_vars
    BY BodyGrowsOlder
  <1>2. Spec => [][Step]_vars
    <2> HIDE DEF Step
    <2> QED BY <1>1, InvariantHolds, PTL DEF Spec
  <1> QED BY <1>2 DEF BodyAgeNotRefreshed

(* A table whose bodies are among those of a table within the cap is       *)
(* within it too.                                                          *)
LEMMA FewerBodies ==
    ASSUME NEW E, NEW F, RetainedCount(E) <= MaxRetainedCount,
           Retained(F) \subseteq Retained(E)
    PROVE  RetainedCount(F) <= MaxRetainedCount
  <1>1. IsFiniteSet(Retained(E))
    BY FS_Subset DEF Retained
  <1>2. /\ IsFiniteSet(Retained(F))
        /\ Cardinality(Retained(F)) <= Cardinality(Retained(E))
    BY <1>1, FS_Subset
  <1>3. Cardinality(Retained(E)) \in Nat /\ Cardinality(Retained(F)) \in Nat
    BY <1>1, <1>2, FS_CardinalityType
  <1> QED BY <1>2, <1>3 DEF RetainedCount

(* Retain makes room before it stores. *)
LEMMA RetainCount ==
    ASSUME Inv, RetainedCountBounded, NEW h \in Hash, NEW b \in Sizes, Retain(h, b)
    PROVE  RetainedCountBounded'
  <1> DEFINE P == Prunable(m_entries)
             E == EraseAll(m_entries, P)
             total == m_retained_bytes - BytesOf(m_entries, P)
  <1>1. PICK V \in Victims(E, total, h, b) :
           \/ /\ Fits(E, total, h, b, V)
              /\ m_entries' = [EraseAll(E, V) EXCEPT
                                  ![h] = RetainedEntry(EraseAll(E, V)[h], b)]
           \/ m_entries' = EraseAll(E, V)
    BY DEF Retain
  <1> HIDE DEF P, total
  <1>2. Retained(EraseAll(E, V)) \subseteq Retained(m_entries)
    BY NoEntryType DEF Retained, EraseAll
  <1>3. CASE m_entries' = EraseAll(E, V)
    BY <1>2, <1>3, FewerBodies DEF RetainedCountBounded
  <1>4. CASE /\ Fits(E, total, h, b, V)
             /\ m_entries' = [EraseAll(E, V) EXCEPT
                                 ![h] = RetainedEntry(EraseAll(E, V)[h], b)]
    <2> DEFINE K == Retained(E) \ (V \cup {h})
    <2>1. Cardinality(K) + 1 <= MaxRetainedCount
      BY <1>4 DEF Fits
    <2>2. IsFiniteSet(K) /\ h \notin K
      BY FS_Subset DEF Retained
    <2>3. \A k \in Hash \ {h} : m_entries'[k] = IF k \in V THEN NoEntry ELSE E[k]
      BY <1>4 DEF EraseAll
    <2> HIDE DEF E
    <2>4. Retained(m_entries') \subseteq K \cup {h}
      BY <2>3, NoEntryType DEF Retained
    <2> HIDE DEF K
    <2>5. IsFiniteSet(K \cup {h}) /\ Cardinality(K \cup {h}) = Cardinality(K) + 1
      BY <2>2, FS_AddElement
    <2>6. /\ IsFiniteSet(Retained(m_entries'))
          /\ Cardinality(Retained(m_entries')) <= Cardinality(K \cup {h})
      BY <2>4, <2>5, FS_Subset
    <2>7. Cardinality(K) \in Nat /\ Cardinality(Retained(m_entries')) \in Nat
      BY <2>2, <2>6, FS_CardinalityType
    <2>8. Cardinality(Retained(m_entries')) <= MaxRetainedCount
      BY <2>1, <2>5, <2>6, <2>7
    <2> QED BY <2>8 DEF RetainedCountBounded, RetainedCount, Retained
  <1> QED BY <1>1, <1>3, <1>4

(* The table never holds more bodies than m_max_retained_count, although   *)
(* the bodies of live attempts can neither expire nor be evicted.          *)
THEOREM RetainedCountsBounded == Spec => []RetainedCountBounded
  <1>1. Init => RetainedCountBounded
    <2> SUFFICES ASSUME Init PROVE RetainedCountBounded
      OBVIOUS
    <2>1. Retained(m_entries) = {}
      BY NoEntryType DEF Init, Retained
    <2> QED BY <2>1, FS_EmptySet DEF RetainedCountBounded, RetainedCount
  <1>2. Inv /\ RetainedCountBounded /\ [Next]_vars => RetainedCountBounded'
    <2> SUFFICES ASSUME Inv, RetainedCountBounded, [Next]_vars
                 PROVE  RetainedCountBounded'
      OBVIOUS
    <2>1. CASE \E h \in Hash, b \in Sizes : Retain(h, b)
      BY <2>1, RetainCount
    <2>2. CASE Next /\ ~ \E h \in Hash, b \in Sizes : Retain(h, b)
      <3>1. Retained(m_entries') \subseteq Retained(m_entries)
        BY <2>2, BodyKept DEF Retained
      <3>2. RetainedCount(m_entries') <= MaxRetainedCount
        BY <3>1, FewerBodies DEF RetainedCountBounded
      <3> QED BY <3>2 DEF RetainedCountBounded, RetainedCount, Retained
    <2>3. CASE UNCHANGED vars
      BY <2>3 DEF vars, RetainedCountBounded, RetainedCount, Retained
    <2> QED BY <2>1, <2>2, <2>3
  <1> QED BY <1>1, <1>2, InvariantHolds, PTL DEF Spec
-----------------------------------------------------------------------------
(* The byte total.                                                         *)

(* A table whose bodies have sizes. *)
Sized(E) == \A h \in Hash : E[h].body.bytes \in Nat

(* There are finitely many bytes. *)
LEMMA BytesFinite ==
    ASSUME NEW E, Sized(E), NEW S \in SUBSET Hash
    PROVE  IsFiniteSet(Bytes(E, S)) /\ BytesOf(E, S) \in Nat
  <1> DEFINE f == [h \in S |-> {h} \X (1..E[h].body.bytes)]
             T == {{h} \X (1..E[h].body.bytes) : h \in S}
  <1>1. IsFiniteSet(S)
    BY FS_Subset
  <1>2. f \in Surjection(S, T)
    BY DEF Surjection
  <1>3. IsFiniteSet(T)
    BY <1>1, <1>2, FS_Surjection
  <1>4. ASSUME NEW X \in T PROVE IsFiniteSet(X)
    <2>1. PICK h \in S : X = {h} \X (1..E[h].body.bytes)
      OBVIOUS
    <2>2. E[h].body.bytes \in Int /\ 1 \in Int
      BY DEF Sized
    <2>3. IsFiniteSet(1..E[h].body.bytes) /\ IsFiniteSet({h})
      BY <2>2, FS_Interval, FS_Singleton, Zenon
    <2> QED BY <2>1, <2>3, FS_Product, Zenon
  <1>5. IsFiniteSet(Bytes(E, S))
    BY <1>3, <1>4, FS_UNION, Zenon DEF Bytes
  <1> QED BY <1>5, FS_CardinalityType DEF BytesOf

(* The bytes of two sets of entries add up. *)
LEMMA BytesAdd ==
    ASSUME NEW E, Sized(E), NEW S \in SUBSET Hash, NEW T \in SUBSET Hash,
           S \cap T = {}
    PROVE  BytesOf(E, S \cup T) = BytesOf(E, S) + BytesOf(E, T)
  <1>1. /\ IsFiniteSet(Bytes(E, S)) /\ IsFiniteSet(Bytes(E, T))
        /\ BytesOf(E, S) \in Nat /\ BytesOf(E, T) \in Nat
    BY BytesFinite
  <1>2. Bytes(E, S \cup T) = Bytes(E, S) \cup Bytes(E, T)
    BY DEF Bytes
  <1>3. Bytes(E, S) \cap Bytes(E, T) = {}
    BY DEF Bytes
  <1> DEFINE A == Bytes(E, S)
             B == Bytes(E, T)
  <1> HIDE DEF A, B
  <1>4. IsFiniteSet(A) /\ IsFiniteSet(B) /\ A \cap B = {}
    BY <1>1, <1>3 DEF A, B
  <1>5. Cardinality(A \cup B) = Cardinality(A) + Cardinality(B) - Cardinality(A \cap B)
    BY <1>4, FS_Union, Zenon
  <1>6. Cardinality(A \cap B) = 0
    BY <1>4, FS_EmptySet
  <1>7. /\ BytesOf(E, S \cup T) = Cardinality(A \cup B)
        /\ BytesOf(E, S) = Cardinality(A) /\ BytesOf(E, T) = Cardinality(B)
    BY <1>2 DEF BytesOf, A, B
  <1> QED BY <1>1, <1>5, <1>6, <1>7

(* One entry has the bytes of its body. *)
LEMMA BytesOne ==
    ASSUME NEW E, Sized(E), NEW h \in Hash
    PROVE  BytesOf(E, {h}) = E[h].body.bytes
  <1> DEFINE n == E[h].body.bytes
  <1>1. n \in Nat
    BY DEF Sized
  <1>2. Bytes(E, {h}) = {h} \X (1..n)
    BY DEF Bytes
  <1> HIDE DEF n
  <1>3. n \in Int /\ 1 \in Int
    BY <1>1
  <1>4. IsFiniteSet(1..n) /\ Cardinality(1..n) = IF 1 > n THEN 0 ELSE n - 1 + 1
    BY <1>3, FS_Interval, Zenon
  <1>5. IsFiniteSet({h}) /\ Cardinality({h}) = 1
    BY FS_Singleton, Zenon
  <1>6. Cardinality({h} \X (1..n)) = Cardinality({h}) * Cardinality(1..n)
    BY <1>4, <1>5, FS_Product, Zenon
  <1>7. Cardinality({h} \X (1..n)) = n
    BY <1>1, <1>4, <1>5, <1>6
  <1> QED BY <1>2, <1>7 DEF BytesOf, n

(* The bytes depend on the sizes only. *)
LEMMA BytesSame ==
    ASSUME NEW E, NEW F, NEW S,
           \A h \in S : F[h].body.bytes = E[h].body.bytes
    PROVE  BytesOf(F, S) = BytesOf(E, S)
  <1>1. Bytes(F, S) = Bytes(E, S)
    BY DEF Bytes
  <1> QED BY <1>1 DEF BytesOf

(* Entries without a body have no bytes. *)
LEMMA BytesNone ==
    ASSUME NEW E, NEW S, \A h \in S : E[h].body.bytes = 0
    PROVE  BytesOf(E, S) = 0
  <1>1. Bytes(E, S) = {}
    BY DEF Bytes
  <1> QED BY <1>1, FS_EmptySet DEF BytesOf

(* Erasing entries takes their bytes away. *)
LEMMA BytesErased ==
    ASSUME NEW E, Sized(E), NEW S \in SUBSET Hash
    PROVE  /\ Sized(EraseAll(E, S))
           /\ BytesOf(EraseAll(E, S), Hash) = BytesOf(E, Hash) - BytesOf(E, S)
           /\ BytesOf(E, Hash) \in Nat /\ BytesOf(E, S) \in Nat
  <1> DEFINE F == EraseAll(E, S)
             R == Hash \ S
  <1>1. /\ \A h \in S : F[h].body.bytes = 0
        /\ \A h \in R : F[h].body.bytes = E[h].body.bytes
    BY NoEntryType DEF EraseAll, HasBody
  <1>2. Sized(F)
    BY <1>1 DEF Sized
  <1> HIDE DEF F
  <1>3. Hash = S \cup R /\ S \cap R = {} /\ R \in SUBSET Hash
    OBVIOUS
  <1> HIDE DEF R
  <1>4. BytesOf(F, R) = BytesOf(E, R) /\ BytesOf(F, S) = 0
    BY <1>1, BytesSame, BytesNone
  <1>5. BytesOf(F, Hash) = BytesOf(F, S) + BytesOf(F, R)
    BY <1>2, <1>3, BytesAdd
  <1>6. BytesOf(E, Hash) = BytesOf(E, S) + BytesOf(E, R)
    BY <1>3, BytesAdd
  <1>7. BytesOf(E, Hash) \in Nat /\ BytesOf(E, S) \in Nat /\ BytesOf(E, R) \in Nat
    BY <1>3, BytesFinite
  <1>8. Sized(F) /\ BytesOf(F, Hash) = BytesOf(E, Hash) - BytesOf(E, S)
    BY <1>2, <1>4, <1>5, <1>6, <1>7
  <1> QED BY <1>7, <1>8 DEF F

(* Storing a body of size c in the entry of h changes the bytes by that    *)
(* entry's.                                                                *)
LEMMA BytesStored ==
    ASSUME NEW E, NEW F, Sized(E), NEW h \in Hash, NEW c \in Nat,
           F[h].body.bytes = c,
           \A k \in Hash \ {h} : F[k].body.bytes = E[k].body.bytes
    PROVE  BytesOf(F, Hash) = BytesOf(E, Hash) - E[h].body.bytes + c
  <1> DEFINE R == Hash \ {h}
  <1>1. Hash = {h} \cup R /\ {h} \cap R = {} /\ R \in SUBSET Hash /\ {h} \in SUBSET Hash
    OBVIOUS
  <1>2. BytesOf(F, R) = BytesOf(E, R)
    BY BytesSame
  <1> HIDE DEF R
  <1>3. Sized(F)
    BY DEF Sized
  <1>4. BytesOf(F, Hash) = BytesOf(F, {h}) + BytesOf(F, R)
    BY <1>1, <1>3, BytesAdd
  <1>5. BytesOf(E, Hash) = BytesOf(E, {h}) + BytesOf(E, R)
    BY <1>1, BytesAdd
  <1>6. BytesOf(F, {h}) = c /\ BytesOf(E, {h}) = E[h].body.bytes
    BY <1>3, BytesOne
  <1>7. BytesOf(E, R) \in Nat /\ E[h].body.bytes \in Nat
    BY <1>1, BytesFinite DEF Sized
  <1> QED BY <1>2, <1>4, <1>5, <1>6, <1>7

(* The calls that release a body. *)
Releases ==
    \/ NextRetry
    \/ \E h \in Hash : TerminalRetained(h)
    \/ \E g \in Generation, h \in Hash : Terminal(g, h)

(* Any other step but Retain leaves every size as it is. *)
LEMMA SizesKept ==
    ASSUME Inv, Next, ~Releases, ~ \E k \in Hash, b \in Sizes : Retain(k, b)
    PROVE  /\ m_retained_bytes' = m_retained_bytes
           /\ \A h \in Hash : m_entries'[h].body.bytes = m_entries[h].body.bytes
  <1> DEFINE Same(e, f) == f.body = e.body \/ (~HasBody(e) /\ ~HasBody(f))
             Goal == /\ m_retained_bytes' = m_retained_bytes
                     /\ \A h \in Hash : m_entries'[h].body.bytes = m_entries[h].body.bytes
  <1>1. m_entries \in [Hash -> Entry]
    BY DEF Inv, TypeOK
  <1>2. ASSUME NEW k \in Hash, NEW f, m_entries' = [m_entries EXCEPT ![k] = f],
               Same(m_entries[k], f), m_retained_bytes' = m_retained_bytes
        PROVE  Goal
    BY <1>1, <1>2 DEF HasBody
  <1>3. ASSUME NEW e \in Entry
        PROVE  Same(e, Expired(e)) /\ Same(e, ExpiredInSweep(e))
    BY NoEntryType DEF Expired, ExpiredInSweep, Entry
  <1>4. ASSUME NEW k \in Hash, HashCall(k) PROVE Goal
    <2> DEFINE o == m_entries[k]
    <2>1. o \in Entry
      BY <1>1
    <2>2. CASE Begin(k)
      <3> DEFINE x == IF IsStale(o) THEN Expired(o) ELSE o
                 f == [x EXCEPT !.state = "ADMISSION_PENDING", !.idle = 0, !.lease = 0,
                                !.cancelled = 0, !.generation = m_next_generation + 1]
      <3>1. x \in Entry
        BY <2>1, ExpiredEntry
      <3>2. Same(o, x)
        BY <2>1, <1>3
      <3>3. m_entries' = [m_entries EXCEPT ![k] = f] /\ m_retained_bytes' = m_retained_bytes
        BY <2>2 DEF Begin
      <3> HIDE DEF x
      <3>4. f.body = x.body
        BY <3>1 DEF Entry
      <3> HIDE DEF f
      <3>5. Same(o, f)
        BY <3>2, <3>4 DEF HasBody
      <3> QED BY <3>3, <3>5, <1>2, Zenon
    <2>3. CASE QueryIsActive(k)
      <3>1. /\ m_entries' = [m_entries EXCEPT ![k] = Expired(o)]
            /\ m_retained_bytes' = m_retained_bytes
        BY <2>3 DEF QueryIsActive
      <3> QED BY <3>1, <2>1, <1>2, <1>3, Zenon
    <2>4. CASE ExpireActiveWithoutBody(k)
      <3>1. m_entries' = [m_entries EXCEPT ![k] = NoEntry]
        BY <2>4, EraseOne, Zenon DEF ExpireActiveWithoutBody, Inv
      <3>2. ~HasBody(o) /\ m_retained_bytes' = m_retained_bytes
        BY <2>4 DEF ExpireActiveWithoutBody
      <3> QED BY <3>1, <3>2, NoEntryType, <1>2, Zenon
    <2>5. CASE RetryInactive(k)
      <3> DEFINE p == [o EXCEPT !.state = "TRANSIENT_FAILURE", !.idle = 0]
                 f == IF HasBody(o) THEN p ELSE NoEntry
      <3>1. m_entries' = [m_entries EXCEPT ![k] = f] /\ m_retained_bytes' = m_retained_bytes
        BY <2>5 DEF RetryInactive
      <3>2. p.body = o.body
        BY <2>1 DEF Entry
      <3> HIDE DEF p
      <3>3. Same(o, f)
        BY <3>2, NoEntryType
      <3> HIDE DEF f
      <3> QED BY <3>1, <3>3, <1>2, Zenon
    <2>6. ~TerminalRetained(k)
      BY DEF Releases
    <2> HIDE DEF Goal
    <2> QED BY <1>4, <2>2, <2>3, <2>4, <2>5, <2>6 DEF HashCall
  <1>5. ASSUME NEW g \in Generation, NEW k \in Hash, TokenCall(g, k) PROVE Goal
    <2> DEFINE o == m_entries[k]
    <2>1. o \in Entry
      BY <1>1
    <2>2. ASSUME NEW leased \in BOOLEAN, Queue(g, k, leased) PROVE Goal
      <3> DEFINE f == [o EXCEPT !.state = "QUEUED", !.idle = 0, !.cancelled = g,
                                !.resources = g, !.lease = IF leased THEN g ELSE 0]
      <3>1. m_entries' = [m_entries EXCEPT ![k] = f] /\ m_retained_bytes' = m_retained_bytes
        BY <2>2 DEF Queue
      <3>2. f.body = o.body
        BY <2>1 DEF Entry
      <3> HIDE DEF f
      <3> QED BY <3>1, <3>2, <1>2, Zenon
    <2>3. ASSUME Start(g, k) \/ Park(g, k) \/ Completing(g, k) PROVE Goal
      <3> DEFINE r == [o EXCEPT !.state = "RUNNING", !.idle = 0]
                 p == [o EXCEPT !.state = "AWAITING_QUORUM", !.idle = 0, !.lease = 0]
                 c == [o EXCEPT !.state = "COMPLETING", !.idle = 0]
      <3>1. PICK f \in {r, p, c} : m_entries' = [m_entries EXCEPT ![k] = f]
        BY <2>3 DEF Start, Park, Completing
      <3>2. r.body = o.body /\ p.body = o.body /\ c.body = o.body
        BY <2>1 DEF Entry
      <3>3. m_retained_bytes' = m_retained_bytes
        BY <2>3 DEF Start, Park, Completing
      <3> HIDE DEF r, p, c
      <3>4. f.body = o.body
        BY <3>2
      <3> QED BY <3>1, <3>3, <3>4, <1>2, Zenon
    <2>4. ASSUME Retry(g, k) PROVE Goal
      <3> DEFINE p == [o EXCEPT !.state = "TRANSIENT_FAILURE", !.idle = 0, !.lease = 0,
                                !.cancelled = 0, !.resources = 0]
                 f == IF HasBody(o) THEN p ELSE NoEntry
      <3>1. m_entries' = [m_entries EXCEPT ![k] = f] /\ m_retained_bytes' = m_retained_bytes
        BY <2>4 DEF Retry
      <3>2. p.body = o.body
        BY <2>1 DEF Entry
      <3> HIDE DEF p
      <3>3. Same(o, f)
        BY <3>2, NoEntryType
      <3> HIDE DEF f
      <3> QED BY <3>1, <3>3, <1>2, Zenon
    <2>5. ~Terminal(g, k)
      BY DEF Releases
    <2> HIDE DEF Goal
    <2> QED BY <1>5, <2>2, <2>3, <2>4, <2>5 DEF TokenCall
  <1>6. CASE ExpireStaleAttempts
    <2>1. \A h \in Hash : m_entries'[h] \in {m_entries[h], ExpiredInSweep(m_entries[h])}
      BY <1>6 DEF ExpireStaleAttempts
    <2>2. \A h \in Hash : Same(m_entries[h], m_entries'[h])
      BY <1>1, <1>3, <2>1
    <2>3. m_retained_bytes' = m_retained_bytes
      BY <1>6 DEF ExpireStaleAttempts
    <2> QED BY <2>2, <2>3 DEF HasBody
  <1>7. CASE Tick
    <2>1. m_retained_bytes' = m_retained_bytes
      BY <1>7, Zenon DEF Tick
    <2> QED BY <1>7, <2>1, TickFacts
  <1>8. ~NextRetry
    BY DEF Releases
  <1> QED BY <1>4, <1>5, <1>6, <1>7, <1>8 DEF Next

(* The sizes of a table of the right type. *)
LEMMA EntriesSized == Inv => Sized(m_entries)
  <1>1. Sizes \cup {0} \subseteq Nat
    OBVIOUS
  <1>2. ASSUME NEW e \in Entry PROVE e.body.bytes \in Sizes \cup {0}
    BY DEF Entry, Body
  <1> QED BY <1>1, <1>2, Zenon DEF Inv, TypeOK, Sized

(* Releasing bodies gives their bytes back. *)
LEMMA ReleaseBytes ==
    ASSUME Inv, RetainedBytesExact, NEW S \in SUBSET Hash,
           m_entries' = EraseAll(m_entries, S),
           m_retained_bytes' = m_retained_bytes - BytesOf(m_entries, S)
    PROVE  RetainedBytesExact'
  <1>1. /\ BytesOf(m_entries', Hash) = BytesOf(m_entries, Hash) - BytesOf(m_entries, S)
        /\ BytesOf(m_entries, Hash) \in Nat /\ BytesOf(m_entries, S) \in Nat
    BY EntriesSized, BytesErased
  <1>2. BytesOf(m_entries', Hash) = BytesOf(m_entries, Hash)'
    BY DEF BytesOf, Bytes
  <1> QED BY <1>1, <1>2 DEF RetainedBytesExact

(* Retain takes the bytes of what it evicts, then adds the new body's. *)
LEMMA RetainBytes ==
    ASSUME Inv, RetainedBytesExact, NEW h \in Hash, NEW b \in Sizes, Retain(h, b)
    PROVE  RetainedBytesExact'
  <1> DEFINE P == Prunable(m_entries)
             E == EraseAll(m_entries, P)
             total == m_retained_bytes - BytesOf(m_entries, P)
  <1>1. PICK V \in Victims(E, total, h, b) :
           \/ /\ Fits(E, total, h, b, V)
              /\ m_entries' = [EraseAll(E, V) EXCEPT
                                  ![h] = RetainedEntry(EraseAll(E, V)[h], b)]
              /\ m_retained_bytes' = total - BytesOf(E, V) - E[h].body.bytes + b
           \/ /\ m_entries' = EraseAll(E, V)
              /\ m_retained_bytes' = total - BytesOf(E, V)
    BY DEF Retain
  <1>2. P \in SUBSET Hash /\ V \in SUBSET Hash /\ h \notin V
    BY Zenon DEF Prunable, Victims, Evictable
  <1>3. /\ Sized(E) /\ BytesOf(E, Hash) = BytesOf(m_entries, Hash) - BytesOf(m_entries, P)
        /\ BytesOf(m_entries, Hash) \in Nat /\ BytesOf(m_entries, P) \in Nat
    BY <1>2, EntriesSized, BytesErased
  <1>4. total = BytesOf(E, Hash) /\ total <= MaxRetainedBytes
    BY <1>3 DEF RetainedBytesExact
  <1>5. E \in [Hash -> Entry]
    BY NoEntryType DEF EraseAll, Inv, TypeOK
  <1> HIDE DEF P, E, total
  <1> DEFINE F == EraseAll(E, V)
  <1>6. /\ Sized(F) /\ BytesOf(F, Hash) = total - BytesOf(E, V)
        /\ total \in Nat /\ BytesOf(E, V) \in Nat
    BY <1>2, <1>3, <1>4, BytesErased, Zenon
  <1>7. F[h] = E[h] /\ F \in [Hash -> Entry]
    BY <1>2, <1>5, NoEntryType DEF EraseAll
  <1>8. BytesOf(m_entries', Hash) = BytesOf(m_entries, Hash)'
    BY DEF BytesOf, Bytes
  <1>9. CASE m_entries' = F /\ m_retained_bytes' = total - BytesOf(E, V)
    <2>1. m_retained_bytes' <= MaxRetainedBytes
      BY <1>4, <1>6, <1>9
    <2> QED BY <1>6, <1>8, <1>9, <2>1 DEF RetainedBytesExact
  <1>10. CASE /\ Fits(E, total, h, b, V)
              /\ m_entries' = [F EXCEPT ![h] = RetainedEntry(F[h], b)]
              /\ m_retained_bytes' = total - BytesOf(E, V) - E[h].body.bytes + b
    <2> HIDE DEF F
    <2>1. RetainedEntry(F[h], b).body.bytes = b
      BY <1>7, RetainedEntryKeeps
    <2>2. /\ m_entries'[h].body.bytes = b
          /\ \A k \in Hash \ {h} : m_entries'[k].body.bytes = F[k].body.bytes
      BY <1>7, <1>10, <2>1
    <2>3. b \in Nat
      BY LifecycleAssumption
    <2>4. BytesOf(m_entries', Hash) = BytesOf(F, Hash) - F[h].body.bytes + b
      BY <1>6, <2>2, <2>3, BytesStored
    <2>5. m_retained_bytes' <= MaxRetainedBytes
      BY <1>10 DEF Fits
    <2> QED BY <1>6, <1>7, <1>8, <1>10, <2>4, <2>5 DEF RetainedBytesExact
  <1> QED BY <1>1, <1>9, <1>10

(* The running total of bytes is exact and within its cap, through every   *)
(* insertion, replacement, eviction and erasure.                           *)
THEOREM RetainedBytesAreExact == Spec => []RetainedBytesExact
  <1>1. Init => RetainedBytesExact
    <2> SUFFICES ASSUME Init PROVE RetainedBytesExact
      OBVIOUS
    <2>1. \A h \in Hash : m_entries[h].body.bytes = 0
      BY NoEntryType DEF Init, HasBody
    <2>2. BytesOf(m_entries, Hash) = 0
      BY <2>1, BytesNone
    <2> QED BY <2>2 DEF Init, RetainedBytesExact
  <1>2. Inv /\ RetainedBytesExact /\ [Next]_vars => RetainedBytesExact'
    <2> SUFFICES ASSUME Inv, RetainedBytesExact, [Next]_vars
                 PROVE  RetainedBytesExact'
      OBVIOUS
    <2>1. CASE \E h \in Hash, b \in Sizes : Retain(h, b)
      BY <2>1, RetainBytes
    <2>2. CASE Releases
      <3>1. \E S \in SUBSET Hash :
               /\ m_entries' = EraseAll(m_entries, S)
               /\ m_retained_bytes' = m_retained_bytes - BytesOf(m_entries, S)
        <4>1. CASE NextRetry
          BY <4>1 DEF NextRetry, Prunable
        <4>2. ASSUME NEW h \in Hash, m_entries' = EraseAll(m_entries, {h}),
                     m_retained_bytes' = m_retained_bytes - m_entries[h].body.bytes
              PROVE  \E S \in SUBSET Hash :
                        /\ m_entries' = EraseAll(m_entries, S)
                        /\ m_retained_bytes' = m_retained_bytes - BytesOf(m_entries, S)
          <5>1. BytesOf(m_entries, {h}) = m_entries[h].body.bytes
            BY EntriesSized, BytesOne
          <5> QED BY <4>2, <5>1
        <4>3. ASSUME NEW h \in Hash, TerminalRetained(h) \/ \E g \in Generation : Terminal(g, h)
              PROVE  /\ m_entries' = EraseAll(m_entries, {h})
                     /\ m_retained_bytes' = m_retained_bytes - m_entries[h].body.bytes
          BY <4>3, Zenon DEF TerminalRetained, Terminal
        <4> QED BY <2>2, <4>1, <4>2, <4>3, Zenon DEF Releases
      <3> QED BY <3>1, ReleaseBytes
    <2>3. CASE Next /\ ~Releases /\ ~ \E h \in Hash, b \in Sizes : Retain(h, b)
      <3>1. /\ m_retained_bytes' = m_retained_bytes
            /\ \A h \in Hash : m_entries'[h].body.bytes = m_entries[h].body.bytes
        BY <2>3, SizesKept
      <3>2. BytesOf(m_entries', Hash) = BytesOf(m_entries, Hash)
        BY <3>1, BytesSame
      <3>3. BytesOf(m_entries', Hash) = BytesOf(m_entries, Hash)'
        BY DEF BytesOf, Bytes
      <3> QED BY <3>1, <3>2, <3>3 DEF RetainedBytesExact
    <2>4. CASE UNCHANGED vars
      BY <2>4 DEF vars, RetainedBytesExact, BytesOf, Bytes
    <2> QED BY <2>1, <2>2, <2>3, <2>4
  <1> QED BY <1>1, <1>2, InvariantHolds, PTL DEF Spec
=============================================================================
