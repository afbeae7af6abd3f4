# A TLA+ verification of the BTX node

BTX is a full node derived from Bitcoin Knots. Its proof of work is a matrix
multiplication whose full check (ExactReplay) occupies an accelerator for seconds,
so a node cannot verify every block body it is sent as it arrives. Around that one
expensive operation the node keeps a pipeline of bounded tables, leases, tickets and
cooldowns, used by several threads at once. Beside the coins it keeps the state of a
shielded pool in stores of its own, which have to stay in step with the chain
through crashes and reorganisations. Transactions leave it through Dandelion++ stem
relay, which several threads share. This project models the pipeline, that state and
the stem relay. Everything else the node does is listed below with the reason it is
or is not covered.

## The system and its parts

What follows a block body, in the order of the code:

1. `PeerManagerImpl` (`net_processing.cpp`) receives headers, tickets
   (`rcadmit`) and bodies on the message thread, and retries deferred bodies on
   the scheduler thread.
2. `RCAdmissionStore` (`node/matmul_rc_admission.*`) keeps the tickets peers pay
   for an ExactReplay attempt. Admission consumes one, then either starts the
   work or rolls the ticket back.
3. `RCDeferredBodyCooldowns` (same files) keeps a body that came without a
   ticket from being requested again at once from the same netgroup.
4. `MatMulBlockLifecycle` (`node/matmul_block_lifecycle.h`) owns every retained
   body and every attempt: its generation, pending-work lease, cancellation flag
   and source pin.
5. `MatMulVerifyWorker` (`node/matmul_verify_worker.*`) runs the jobs, parks
   those that wait for a quorum of attestations and calls back.
6. `RCAcceleratorScheduler` (`matmul/matmul_v4_rc_accelerator_scheduler.*`)
   hands the single device to one thread at a time, over four priority lanes.

What follows a valid block: `ConnectBlock` and `DisconnectBlock` (`validation.cpp`)
move the shielded state, write by write, between a PREPARED marker and a seal
(`shielded/nullifier.cpp`, `shielded/turnstile.cpp`,
`shielded/unshield_velocity.cpp`); `FlushStateToDisk` writes the block index, prunes
blocks and writes the coins on its own schedule; `EnsureShieldedStateInitialized`
makes one state of what a restart finds.

What follows a transaction: `AcceptStemTransaction` of `DandelionManager`
(`dandelion.cpp`) takes it into the stempool and names a relay, for a `DLTX`
message and for `BroadcastTransaction` alike. It is fluffed, that is relayed to
everyone, when its embargo ends, when it is evicted or when it cannot be sent.

Besides these the node has snapshot transfer, block chunk transport, shielded
proofs, the numeric proof-of-work kernels, and what it inherits
from Bitcoin: chain validation, coins, mempool, peer and address management, RPC
and the wallet. `PROJECT.json` lists each with its status.

| Part | State | Modules | Status |
|---|---|---|---|
| Lifecycle table | entries, byte total, generations, callers' tokens | `MatMulBlockLifecycle`, `AttemptLease` | modelled but for retry delays and counters; safety and refinement proved |
| Accelerator scheduler | waiter queue, owner, latches, capacity | `RCAcceleratorScheduler` | modelled but for statistics; all its safety properties proved |
| Ticket store | two tiers, four count maps, rate history | `RCAdmissionStore` | modelled but for the ticket hash; all its properties proved |
| Cooldowns | deadlines | `RCDeferredBodyCooldowns` | modelled and proved |
| Verify worker | job table, queue, parked set, thread locals | `MatMulVerifyWorker` | modelled but for durations and counters; every safety property proved |
| Shielded state | five kinds of store, marker, seal, coins, block files, memory | `ShieldedTransitionJournal` | connect, disconnect, flush, prune, crash and restart; all its safety properties proved |
| Dandelion++ | stempool, pending list, seen filter, relays, three locks, five threads | `DandelionManager` | modelled but for relay pools and the unbroadcast set |
| Admission handlers, attestation quorum | | environment of the worker and of the ticket store | partly |
| Headers sync, sketch cache | | none | not modelled |
| Numeric kernels, proofs, scripts, sockets, RPC, wallet | | none | out of scope |

Each class of the pipeline is entered through its own mutex and calls the next one
without holding it. The modules are therefore joined at the calls: the worker's
environment may do whatever the lifecycle table (`LifecycleCancels`), the scheduler
(`SchedulerPreempts`, any outcome of `Acquire`) and the quorum (`MmAttest`, then
`WakeParked`, or `SubmitMatMulAttestations`) can do, in any order, and the lifecycle
table's environment may do whatever a worker's late callback can.

## The modules

Names of variables, actions and helpers are the code's where it has them. Each
public method of these classes runs under one mutex and is one action, with the
pruning, expiry and eviction it does inside included. `Tick` is the clock: the
models keep ages (or time left) where the code keeps time points, counted just
far enough to decide every comparison. Operators commented "Mutant" are
deliberately wrong variants of the definition that follows them. They are used
by no specification; substituting one for its original makes the property named
in `PROJECT.json` fail, which shows that the property depends on that code.

### `MatMulBlockLifecycle`

`m_entries` maps a hash to an entry: state, generation, idle time, body (size
and age), `lease`, `cancelled` and `resources`. The last three name the
generation they were created for, which is how a leaked one is told from a
rightful one. `attempts` is what the callers hold: for each generation its hash,
the state of its cancellation flag, and whether its holder has ended it.

| Action | Code |
|---|---|
| `Begin`, `QueryIsActive` | `Begin`, `IsActive(hash)`, each first expiring a stale attempt |
| `Retain` | `Retain`, with its prune and its eviction loop, also when it then refuses |
| `Queue`, `Start`, `Park`, `Completing`, `Retry`, `Terminal` | the token calls |
| `ExpireActiveWithoutBody`, `RetryInactive`, `TerminalRetained` | the hash-only calls |
| `NextRetry` | the prune it does; which body it offers is left open |
| `ExpireStaleAttempts` | the reconcile sweep |

`ShouldSkipFetchWhileAsyncPending` takes the mutex twice and appears as two
actions, `ExpireActiveWithoutBody` and `QueryIsActive`, with any steps between.
The environment is the most general one: any method at any time, with any token
ever issued.

`AttemptLease` is what the table promises: per hash at most one owner, owners
never reused, an owner replaced only after it ended or ran out. The mapping
takes the generation of a live entry as the owner and stale entries as overdue.

### `RCAcceleratorScheduler`

`m_waiters` is the set of threads in the queue and `older` the order of their
sequence numbers; `call[t]` has the local variables of thread t's `Acquire` and its
preemption latch. `Enter` is `Acquire` up to and
including its first pass through the wait loop; `Poll` is a later pass;
`Release` is the lease's destructor; `Cancel` is a caller raising its own latch.
The lock is dropped around one log line per process. The pass that follows could
only have decided to wait, so this is not a step of its own.

### `RCAdmissionStore`

The two entry maps, the four count maps the code maintains beside them, and the
submission history. `receipts` are the tickets callers hold between `Consume`
and its end, which is `Commit` or `RestoreConsumed`. `paid` is a ghost count of
tickets stored and not yet spent. A ticket is reduced to whether
`CheckRCAdmissionTicket` accepts it. Where the code breaks a tie in age by the
order of hashes, the model breaks it either way.

### `RCDeferredBodyCooldowns`

`m_deadlines` with the time left. `Mark` and `Contains` remove only the key they
look at; `Size` prunes all.

### `MatMulVerifyWorker`

`m_pending`, `m_queue` and `m_awaiting_quorum` are the class's containers; `job`
is the `PendingVerify` each request created, `req` what its caller has been told,
and `worker[w]` the local variables of a pool thread with the point of
`WorkerLoop` it has reached. A step is one region under `m_mutex`, or one call
made outside it:

| Action | Code |
|---|---|
| `Enqueue`, `Join`, `HandoffAuthenticatedTip` | `Enqueue` for a new hash, for a known one, and the handoff of a paid attempt |
| `CancelIf` | `Cancel` and `CancelIf`, which drop header-only jobs |
| `Scan`, `FinishExpired`, `Take` | the top of the loop: expiry of parked jobs, then the choice of a job |
| `Start`, `Acquire`, `Replay`, `Trusted` | mode and memo checks, the accelerator lease, the replay, the quorum of a mirror |
| `Park`, `Recheck` | parking, and the second look at the quorum after it |
| `Complete`, `FinishRetryable` | delivery of a verdict or of `retryable_failure` |
| `MmAttest`, `WakeParked` | the `MMATTEST` handler: an attestation completes a quorum; `NotifyQuorumReady` |
| `SubmitMatMulAttestations` | the RPC, which completes a quorum and wakes nobody |
| `Stop`, `StopJoined` | `Stop` before and after it joins the threads |
| `LifecycleCancels`, `SchedulerPreempts` | the other holders of the latch raise it |

A replay ends with the block's verdict, a local failure or a cancellation; which
blocks are valid (`Valid`) is fixed, so that a wrong verdict is one the worker
made up. From `nMatMulRCCoupledHeight` on (one of `CoupledHeights`) a replay answers
only yes or no, so that one cut by its latch looks like a negative verdict; the
thread then goes by the latch and by `body_joined` as the code does. How long a
backoff, a quorum wait or a replay lasts is left open.

`missed` is a history variable: the hashes that were parked, and rechecked, when
the RPC completed their quorum. Nothing wakes these jobs but a later message or
their deadline, and `NoLostQuorum` excepts them.

### `ShieldedTransitionJournal`

`db` holds the shielded stores: nullifiers, anchors, velocity log, pool balance,
snapshot (tree and pool), accumulator, the pin that seals a state, and the marker.
`unsynced` holds what `db` was before each write since the last synced one: a
process crash keeps `db`, a power loss may bring one of those back. The coins tip,
the block index (`index`: where undo data is, and which blocks failed) and the block
files (`pruned`) are durable apart from them, `undo`, `failed` and `mem` are the
live copies, and a crash goes back to the last flushed ones. `op` is what the node
is doing and the list of writes it still has to make: `ConnectWrites`,
`DisconnectWrites` (another order), `RedoWrites` or `RebuildWrites`. Each write is
an action of its own and a crash may fall between any two, also while a start is
repairing what an earlier crash has left.

| Action | Code |
|---|---|
| `ConnectBlock`, `DisconnectBlock` | the checks before the first write |
| `WriteMarker` to `WritePoolBalance` | the durable writes of both, of a redo and of a rebuild; `ConnectVelocity` also checks the cap |
| `WritePersistedState` to `ClearMutationMarker` | `PersistShieldedState`: snapshot, accumulator, pin, marker |
| `FlushStateToDisk`, `FlushCoins` | the block index and the pruned files, then the coins, with a crash possible between |
| `Shutdown`, `Crash` | the sealing flush; the end of the process or of the machine's power |
| `RestorePreparedTransition`, `ClearStaleMarker`, `AbandonMarker` | a start that finds a marker |
| `AcceptSnapshot`, `RepairVelocity`, `AuditSnapshot`, `BridgeGap`, `RejectSnapshot` | a start that finds none |

Blocks are a constant tree with the height, nullifiers, anchors and value of each.
The reference for every store is what a block's ancestors imply (`Chain`, the least
set that has the block and its blocks' parents, then `NullifiersAt`, `AnchorsAt`,
`PoolAt`, `VelocityAt`). An anchor may be created, consumed and created again, so
`AnchorsAt` and the redo (`AnchorsToInsert`, `AnchorsToRemove`) go by the last block
that touches it. Amounts are counted by the unit (`UnitsOut`, `UnitsIn`).

Two things the properties have to say around. `strays` is a history variable: the
blocks that were rejected after some of their writes, which the stores may still
hold; it lets the other properties hold beside the disagreement found here.
`Covers` says that the velocity log has every height of the next window. It does
unless more blocks were disconnected in a row than the buffer `Prune` keeps below
the window, which `unshield_velocity.h` says of it too.

### `DandelionManager`

The manager's members under their names, `peer` for the connections and `place`
for where the node has a transaction otherwise. `msg`, `rpc` and `sched` are the
threads that run the handlers, each with its position and locals. Unlike the
classes above, the manager calls `CConnman` while it holds its mutex, and `ForNode`
runs its callback under `m_nodes_mutex`. A step is therefore what a thread does
between two locks, and a thread waits for a lock another one holds.

| Action | Code |
|---|---|
| `ReceiveDltx`, `AcceptDltx`, `RouteDltx`, `SendDltx`, `RemoveDltx`, `FluffDltx` | the `DLTX` handler, with `AcceptStemTransaction` and the `ForNode` callback |
| `ReceiveTx`, `Graduate` | the `TX` handler and `ProcessValidTx` |
| `BroadcastTransaction`, `AcceptLocal`, `RouteLocal`, `SendLocal`, `RemoveLocal` | `BroadcastTransaction` |
| `TransactionAddedToMempool` | the notification the scheduler thread delivers, which queues the relay of every mempool addition |
| `CheckEmbargoes`, `FluffExpired`, `MaybeRotateEpoch`, `RotateEpochInternal` | the embargo monitor |
| `Verack`, `DandelionAcc`, `Disconnect`, `PeerDisconnected`, `ReseatRelays` | connections; `FinalizeNode` waits for the message handler's references |
| `ConnectBlock`, `BlockConnected`, `NewPoWValidBlock`, `AnnounceToNodes` | validation and its notifications |
| `MempoolRemove`, `FilterRolls`, `EmbargoExpires` | the mempool, the rolling filter and the clock |

`added` is the queue of mempool additions whose notification is still to come.
`owed` is a history variable: the transactions the stempool has accepted that are
not yet relayed, refused, confirmed or dropped because the pending list is full. A
transaction that a `TX` message takes out of the stempool is relayed by its
notification. Which of two entries that came in the same second is the older one
is left open. An embargo is due or not, and an epoch may end at any
time. The relay pools only choose among the connected relays, so any of these may
be chosen.

## The runs

| Run | Question | Result |
|---|---|---|
| `lifecycle_attempts` | Do leases, flags and entries follow the live attempt whatever late callbacks do, does the table implement `AttemptLease`, and is no hash blocked for ever by a forgotten attempt? | holds |
| `lifecycle_retention` | Are both caps and the byte total kept while attempts pin bodies, and is a body's time to live never renewed? | holds |
| `scheduler` | Exclusive lease, mining quantum, lane reservations, FIFO within a lane, preemption policy; does every `Acquire` return? | holds |
| `scheduler_free_turn` | Does a starved mining waiter (or a reseal) get a free device? | violated |
| `admission_store` | Exact counts, all quotas, rollback always possible, one attempt per ticket | holds |
| `cooldowns` | No renewal, expired ones evicted first, every suppression ends | holds |
| `worker` | Is every job in one place and answered, no wake-up lost, no body dropped, no cancelled replay taken for a verdict, no paid attempt spent twice? | holds |
| `journal` | Is the serving node in the state of its chain however it came up, can every marked database be repaired, and does an unpruned node always come back? | holds |
| `journal_prepared_resumed` | Does a node that keeps its blocks resume every prepared transition to its tip? | violated |
| `journal_velocity_reject` | Does a block over the cap leave nothing behind? | violated |
| `dandelion` | Is no stem transaction lost whatever is evicted, expires, disconnects or confirms meanwhile, is the accounting exact, and does every stem phase end? | holds |
| `dandelion_lock_order` | Is `cs_main` never awaited under `m_nodes_mutex` by one thread while another does the reverse? | violated |

### The four disagreements

- `scheduler_free_turn`. In `IsFirst` a tip validation yields to starved mining,
  mining yields to a reseal and the reseal yields to the tip validation. With
  one of each waiting, nobody takes the free device until a deadline or a
  cancellation breaks the cycle. `AcquireReturns` shows that one does.
- `journal_prepared_resumed`. `DisconnectBlock` syncs its PREPARED marker at once,
  but the block index is written only with the coins. A block connected and then
  disconnected between two flushes is unknown to the index a crash leaves behind,
  or its undo data is, so `redo_prepared_transition_stores` gives up and the start
  wipes the stores and rebuilds them from the chain. A comment says that "the next
  startup resumes instead of discarding 100k+ blocks of otherwise valid persisted
  state". `PreparedTransitionNotDiscarded` is what does hold: nothing is wiped
  if the index has the blocks and undo data the redo reads.
- `journal_velocity_reject`. `ConnectBlock` writes a block's nullifiers and anchor
  changes before it compares the window with the cap. A rejected block so leaves
  them in the stores of a serving node, and a sibling that spends the same notes
  is refused until a rebuild wipes the stores. A comment promises that "a
  violation rejects the block cleanly".
- `dandelion_lock_order`. If the relay chosen for a `DLTX` does not support
  Dandelion++, the handler fluffs the transaction inside the `ForNode` callback,
  and so locks `cs_main` under `m_nodes_mutex`. `NewPoWValidBlock` goes over the
  nodes under `cs_main`. A comment in `net_processing.cpp` says "Never nest cs_main
  inside ForEachNode/ForNode". The callback also locks `m_mutex`, which
  `MaybeRotateEpoch` and `AcceptStemTransaction` hold while they go over the nodes.
  Such a relay is selected only while no peer supports Dandelion++; it is kept
  until the epoch ends or the relay leaves, also when peers that do come later.
  `StemEnds` is stated up to a circular wait.

Smaller observations, which no run is about:

- The sweep `ExpireStaleAttempts` keeps `owned_resources` of an entry that has a
  body, the single-hash `ExpireStaleAttempt` clears them. An attempt swept and
  begun again carries the old generation's source pin until `Queue` replaces it.
- The waiter a tip validation displaces is the oldest eligible one of any lane. If
  it is a speculative one, the tip lane stays full and the tip validation is turned
  away after the speculative waiter was dropped.
- `ProcessValidTx` says that a transaction of the stempool "will be relayed when
  the embargo expires", and then removes it from the stempool. Neither the embargo
  nor the branch that skips the relay matters: `TransactionAddedToMempool` queues
  the relay of every mempool addition.
- `ReattemptInitialBroadcast` skips what is "currently in the Dandelion++ stempool"
  by `HaveStemTx`, which also matches what has long left it.
- The cap is a share of the pool at the start of the block. A comment in
  `consensus/params.h` says "at the window start". The rule is modelled as coded.
- A PREPARED marker can be resumed only if the coins tip is its target. A connect
  cut before its coins are flushed is finished by a rebuild if the blocks are
  there, and refused if they are pruned.
- The prune lock keeps fewer blocks than the two windows a start re-reads, so a
  pruned node may refuse a clean restart while the cap is active.
  `UnprunedRestarts` is stated for nodes that keep their blocks.
- A mirror thread between its first look at the quorum and its second may put its
  job back into the queue after `Stop` has emptied it.
  `StoppedReplayerAnswersAll` is stated for nodes that replay.
- `submitmatmulattestations` stores attestations but does not call
  `NotifyQuorumReady`, which the `MMATTEST` handler does. A job parked then waits for
  its deadline or for the next message about its block.
- A comment in `WorkerLoop` says "Cancellation means no verdict". In the coupled
  check a cut replay returns false; if a body has joined the job meanwhile, its
  caller and the memo get that as a verdict. `VerdictSound` names this
  case (`CutCoupled`) and shows it is the only one.
- A waiter whose deadline passes is reaped by whichever `Acquire` comes first. If
  it is not its own pass, a preemption deferred for it may never be raised;
  `TimeoutImpliesPreempted` is about a waiter that gives up by itself.

### Bounds

- Lifecycle: two hashes and three generations are what it takes for a token two
  generations old to meet a new attempt while another hash competes for the retained
  slot. Three hashes with sizes 1 and 2 in a table of two bodies and three bytes let
  either cap bind first and let one delivery evict two bodies. Age limits of zero to
  two ticks separate fresh, at the limit and over it. The number of attempts
  (`MaxGeneration`) is the one artificial bound.
- Scheduler: three threads with one slot per lane (two for mining) fill lanes,
  displace and reap; the violation uses the code's two slots per lane and four
  threads. Waits of two ticks pass both the anti-starvation quantum and the
  deadline.
- Ticket store: three hashes, two netgroups, each quota at one or two, and at most
  three tickets outstanding (`MaxPaid`): enough to fill each tier with a ticket out
  on a receipt, so that a rollback has to evict by hash, by netgroup and globally.
- Cooldowns: four keys with room for three.
- Worker: one pool thread, three requests and two sibling hashes, one of them valid,
  at a height where the coupled check may or may not apply, with room for two parked
  jobs and one byte. The third request may join a queued, parked or running job,
  take over its paid attempt, or be submitted after it has been answered. Two
  threads are too many states for a run of its own; the invariant of the proofs,
  which covers any number, was also checked with two threads and two requests.
- Dandelion++: three transactions of sizes one, two and two, one of them local, two
  peers of different netgroups, and a stempool of two entries and three bytes: either
  limit may bind first, one stem may evict two, and the pending list fills. With
  three transactions nothing overflows it. Four inputs (`MaxInputs`) from peers,
  users, blocks and the mempool are what it takes to stem, evict, lose the relay and
  confirm. The node starts with peers that do and do not support Dandelion++.
- Journal: the nine blocks of `MCShieldedTransitionJournal`, which fork once to
  valid and twice to invalid branches, with a window of two blocks. Forks as deep as
  the window, anchors consumed on one branch and created again by leaving it, and
  heights that leave the log all occur. Blocks up to height three (`ReorgFloor`)
  stay connected, so no reorganisation is deeper than the window and the log always
  covers it; deeper ones are left to the proofs. Two crashes (`MaxCrashes`) are what
  it takes to die in an operation and again in its repair. The first start finds a
  new database or one of an older version.

Symmetry is used over hashes, netgroups and threads, and only in runs without
liveness. Deadlock is checked where the clock runs (`Tick` is always enabled). The
worker may stop, a node may refuse to start, and the inputs of the Dandelion++ runs
are bounded, so these runs end in states without a successor and leave the deadlock
check out.

### Fairness

- `lifecycle_attempts`: weak fairness of the clock and of `ExpireStaleAttempts`,
  which `PeerManagerImpl` calls from its recurring reconcile pass. Nothing is
  assumed of workers or callbacks.
- `scheduler`: weak fairness of the clock and of every waiter's `Poll` (`Acquire`
  waits at most 25 ms between passes). Nothing is assumed of the owner, which may
  never release.
- `cooldowns`: weak fairness of the clock only. Whether a deadline is over depends
  on the clock alone.
- `worker`: weak fairness of each pool thread, whose waits all have deadlines and
  whose replay terminates, and of the end of `Stop`. Nothing is assumed of callers,
  attestations, the scheduler or the lifecycle table.
- `journal`: weak fairness of `Startup` and of the writes of an operation that has
  begun, which are straight-line code. Crashes are bounded, as are those of any run
  that ends well.
- `dandelion`: weak fairness of the threads' own steps taken together, the clock and
  the queue of notifications included. Without inputs no thread can go on for ever,
  so each of them gets its turn. Nothing is assumed of peers, users or blocks.

## The proofs

All theorems hold for every value of the constants that the module's named
assumption admits. Each rests on an inductive invariant, and each proof has one
lemma per action; actions that change one entry, job or thread share step lemmas,
so that each has only to show what that one thing becomes.

### Lifecycle table

`MatMulBlockLifecycleProofs` (from `LifecycleAssumption`: a finite set of hashes,
any sizes, caps, limits and number of attempts) proves `TypeCorrect`,
`InactiveEntriesOwnBody`, `LeasesFollowAttempts` and `AbandonedJobsCancelled`.
None of the last three is inductive alone. `Inv` adds that an absent hash has the
empty entry, that an entry's flag is its own generation's and is held only by a
live attempt, and above all that a generation stored in an entry was issued
before and for that very hash. Without this last fact `Begin` could hand out a
generation another entry still holds, and the flag it creates would hide the
orphaned job of that entry.

`ImplementsAttemptLease` shows that the initial states map to those of
`AttemptLease` and every step maps to a step of it or to a stutter. `Inv` supplies
that a new generation was never an owner before. `LateCallbacksHarmless` needs
besides `Inv` that the holder of a live attempt has not ended it.
`BodyAgesNotRefreshed` follows step by step. `RetainedCountsBounded` is an argument
about cardinality: `Retain` adds one body, and only after the eviction loop has
left room for it. For `RetainedBytesAreExact` the sizes are added up as the number
of bytes of all bodies, each byte tagged with its hash, so that a sum is again a
cardinality: erasing an entry removes its bytes from the set, storing one adds them.

### Cooldowns

`RCDeferredBodyCooldownsProofs` proves the capacity bound (`TypeCorrect`),
`DeadlinesNotRefreshed` and `LiveOnesEvictedLast`. The bound needs no
strengthening: the entry `Mark` evicts is in the map and is not the one it adds.
The last one rests on the bound: if the marked key has an expired entry of its own,
the others are too few for an eviction.

### Scheduler

`RCAcceleratorSchedulerProofs` proves `DeviceHasOneOwner` and `MiningQuantumKept`
for any number of threads, lane limits and quanta. Their invariant says nothing of
the queue: a thread holds the device exactly if it is the recorded owner, and a
mining owner's latch is raised only after its minimum lease. Within a step the
latches may be raised before the owner changes, so both are stated of any such
intermediate calls (`CallsOK`).

`QueueHolds` adds that who is queued waits, that a thread outside `Acquire` shows no
latch, and that arrival orders the queue linearly. The other theorems are about
single steps and start from it: `PreemptionsJustified`, `ReservedLanesKept`,
`GrantsInOrder` and `DeferredPreemptionKept`. Each needs to know what a pass of the
wait loop leaves alone (`PassOnly`, `EnterOnly`, `PollOnly`): the calls of the other
threads but for the owner's latch, and the queue but for the caller, the expired and
the one victim of a full lane. A thread that has just queued has not waited, so its
first pass does not give up; for this `SchedulerAssumption` says that
`DEFAULT_MAX_QUEUE_WAIT` is positive.

### Ticket store

`RCAdmissionStoreProofs` (from `AdmissionAssumption`: finite sets of hashes and
netgroups, any quotas and windows) proves every property of the store. Here the
invariant is the conjunction of what is to be proved: `AlwaysCountsExact`,
`AlwaysTiersBounded` and `AlwaysGrantsPaid` hold together or not at all, since each
quota is enforced through the counters. The work is in the counting: a counter
stays the cardinality of its part of the map when a set of keys is erased and
another added (`CountsChanged`), and the oldest n of a set have n members
(`Oldest`, by induction on n). `AlwaysRollbackPossible` adds that each of the three
eviction loops of `RestoreConsumed` finds enough candidates. That
`PruneSubmissionHistory` may drop a prefix of a history
(`AlwaysPruneDropsExpired`) holds because histories are ordered by age.

### Verify worker

`MatMulVerifyWorkerInvariant` proves the invariant of the worker pool for any number
of threads, hashes and requests, `MatMulVerifyWorkerProofs` what follows from it.
Its core is that a registered job is in the queue, parked, or held by the one thread
that runs its hash, and nowhere else (`QueueOK`, `ParkedOK`, `HeldOK`, `HeldOnce`,
`Placed`); that expired jobs and those `Stop` took are no longer registered
(`GoneOK`); and that a request hangs on one job only (`OwnersOK`). The handoff needs
one fact more: a parked job has given its lease back (`ParkedUnpaid`), or a paid
attempt could be taken from a job that is not in the queue. The theorems draw the
conclusions: `JobInOnePlace`, `NoWakeupLost`, `LatchSparesBodies`,
`BodiesNeverDropped` and `VerdictsSound`. `NoWakeupLost` holds but for what the RPC
completed (`missed`), and `VerdictsSound` but for a cut coupled replay that a body
joined; that a positive verdict is right needs no exception. The last two name what
each action can tell a caller (`Told`) and use `OwnersOK` to conclude that the job
it speaks of is the caller's own.

The rest looks at what a step does to each job: but for the one a request leads or
joins, it is left alone, gives something up (`Lessened`), or is destroyed together
with an answer to all who hang on it (`Released`). From this follow

- `AttemptsHandedOffOnce`, with the invariant that a lease is held by one job, and by
  the job that paid for it as long as it may be handed on (`LeasesHeldOnce`);
- `ParkedBytesAreExact`: `BytesOf` counts the bytes of a set of jobs as pairs of a
  job and an index, so that cardinalities of disjoint unions stand in for sums;
- `AnswersAccountedFor`: whoever is owed an answer has a live job, and every live
  job is registered, with a thread that expires it, or with `Stop`. With it,
  `StopAnswersAll`: on a node that replays nothing is parked and no thread puts a
  job back into the queue `Stop` has emptied (`ThreadsOK`, `PoolOK`), so that after
  the joins only what `Stop` took is left, and `Stop` answers for it. On a trusted
  mirror `PoolOK` says nothing, and the property is not claimed there.

### Shielded state

`ShieldedTransitionJournalInvariant` states the invariant `IInv` and shows that the
steps that need no arithmetic of paths keep it; `ShieldedTransitionJournalProofs`
adds those that do, and the theorems. They hold for any block tree with heights,
any window, cap and retention, and any number of crashes
(`JournalAssumption`): `AlwaysLiveStateMatchesChain`, `AlwaysUnmarkedMeansWhole`,
`AlwaysMarkedMeansRepairable`, `AlwaysVerdictsFollowChain` and
`AlwaysPreparedTransitionNotDiscarded`. The last one is about transitions whose
blocks and undo data the block index has (`Redoable`), wherever a crash cuts the
flush of index, files and coins.

`IInv` has two halves. `DisksOK` says of every database a crash may bring back, the
present one and each one before an unsynced write, what a restart relies on: the
snapshot and the pin are of one block; without a marker the stores are of the
snapshot's block; with a PREPARED marker they can be repaired. The other half says
how far a running operation has come, by the number of writes left
(`MarkerPhase`, `StoresPhase`, `PoolPhase`, `PersistPhase`), so that the last
write, which clears the marker, finds all stores at the target.

What makes a database repairable has to be kept by each write, in the order of any
of the operations, so `Repairable` does not name the writes done: it says that doing
them all, again or not, yields the stores of the target. `Good` says that no block
of a chain spends what an ancestor has spent, creates an anchor that stands or
consumes one that does not, up to strays; `ConnectBlock`'s checks give it, and with
it undoing a block is the inverse of applying it. Around a fork the argument is
about the blocks of the two branches in order of height: the last that touches an
anchor decides, and the lowest undone one gives the state of the fork point back.
The pool needs that units are additive along a chain.

The logs are related to the chain by `LogOf`: every entry is true, though some may
be missing. Two logs that are true and cover the window agree on it, so the
verdicts agree.

### What is only model-checked

- liveness (`AttemptNeverStuck`, `AcquireReturns`, `SuppressionEnds`,
  `RequestsAnswered`, `UnprunedRestarts`, `StemEnds`): fairness and `ENABLED` are
  beyond the prover;
- the stem relay: its accounting is a sum over the stempool, and its properties go
  through the positions of five threads.

The library's induction theorems take an operator as a parameter and cannot be
used. Where a proof needs induction it takes a least counterexample instead, from
the well-foundedness of the subsets of a finite set (`NatMinimum`).

## What is not modelled

- In the pipeline: the order in which the message handlers of `PeerManagerImpl` make
  their calls (the models allow any); the retry delay of a body, which only steers
  which body `NextRetry` offers; the lengths of backoffs and waits; progress
  counters and statistics; the arithmetic of tickets and replays, whose verdict is
  an input; signatures and signer sets of the quorum; the test-only `Clear` methods.
- In the shielded state: the rebuild of a running node after a rejected shielded
  proof (`RebuildShieldedStateFromActiveChain`), the migrations of older state pins,
  the digest of the commitment index, the refresh of the history window,
  `-resetshieldedstate`, assumeutxo chainstates, the replay of half-flushed coins (a
  coins flush is atomic), anchor maturity, activation and end heights, and the
  saturation of amounts.
- In the stem relay: the relay pool of each source and its hash order, the byte part
  of the rate limit, the false positives of the seen filter, the unbroadcast set
  with `ReattemptInitialBroadcast`, two concurrent calls of `BroadcastTransaction`,
  and shielded bandwidth budgets. A transaction alone fits the stempool, so
  `STEMPOOL_FULL` does not occur.
- Headers synchronisation, the sketch cache, chunk transport and snapshot transfer
  have no module. They share no state with what is modelled.
- Data races: every modelled class is guarded by a mutex. Latches are atomics read
  and written with relaxed order, and the models treat each access as one step.
- Numeric kernels, cryptography, scripts, sockets, RPC, wallet and the parts
  inherited from Bitcoin unchanged, for the reasons given in `PROJECT.json`.
