---------------------- MODULE ShieldedTransitionJournal ----------------------
(***************************************************************************)
(* The durable shielded state of ChainstateManager and the journal that     *)
(* carries it through crashes.                                              *)
(*                                                                          *)
(* Connecting or disconnecting a block changes several stores, each by a    *)
(* write of its own: spent nullifiers, settlement anchors, the log of the   *)
(* unshield velocity cap, the pool balance, and the snapshot a restart      *)
(* loads.  A PREPARED marker (source, target and the target's tree and      *)
(* pool) goes first and is cleared last.  The coins database is flushed on  *)
(* its own schedule, so a restart begins at a tip that may be behind, ahead *)
(* of or on another branch than the snapshot.                               *)
(*                                                                          *)
(* A block is what it does to the stores.  Recovery-exit commitments and    *)
(* netting manifests are inserted and removed as nullifiers are, and the    *)
(* account registry grows and is truncated as the note tree is, so each     *)
(* pair is one store here.  The tree is the set of blocks whose outputs it  *)
(* holds; a digest is the value it covers.  The cap is active at every      *)
(* height, -fastshieldedstartup and -shieldedstartupaudit keep their        *)
(* defaults, and the chainstate is not an assumeutxo one.  A failed write   *)
(* shuts the node down, which is a crash.  Left out: the rebuild of a       *)
(* running node after a shielded proof is rejected                          *)
(* (RebuildShieldedStateFromActiveChain), and so the blocks that cause it.  *)
(***************************************************************************)
EXTENDS Integers, Sequences, FiniteSets, Functions

CONSTANTS
    Block, Genesis,
    Parent,         \* the parent of each block but Genesis
    Height,         \* nHeight
    Nullifiers,     \* the nullifiers each block spends
    Created,        \* the settlement anchors it creates
    Consumed,       \* ... and consumes
    ValueBalance,   \* what it takes out of the pool, or adds if negative
    MaxMoney,       \* MAX_MONEY
    Window,         \* nShieldedUnshieldVelocityWindowBlocks
    CapBps,         \* nShieldedUnshieldVelocityCapBps
    MinCap,         \* the floor of the cap
    AnchorDepth,    \* SHIELDED_ANCHOR_DEPTH
    Retention,      \* blocks the prune lock keeps below the tip
    MaxCrashes,     \* bound: crashes in one behaviour
    ReorgFloor,     \* bound: blocks up to this height stay connected
    None            \* no block: a null CBlockIndex

ASSUME JournalAssumption ==
    /\ Genesis \in Block /\ None \notin Block
    /\ Parent \in [Block \ {Genesis} -> Block]
    /\ Height \in [Block -> Nat]
    /\ Height[Genesis] = 0
    /\ \A b \in Block \ {Genesis} : Height[b] = Height[Parent[b]] + 1
    /\ ValueBalance \in [Block -> -MaxMoney..MaxMoney]
    /\ \A f \in {Nullifiers, Created, Consumed} : DOMAIN f = Block
    /\ {Window, AnchorDepth} \subseteq Nat \ {0}
    /\ {MaxMoney, CapBps, MinCap, Retention, MaxCrashes, ReorgFloor}
           \subseteq Nat

Heads == Block \cup {None}

(* A set of blocks that has the parent of each of its blocks. *)
Rooted(S) == \A b \in S \ {Genesis} : Parent[b] \in S

(* Chain[b] is b and its ancestors, the least rooted set that has b. *)
Chain ==
    [b \in Heads |->
        IF b = None THEN {}
        ELSE {c \in Block :
                 \A S \in SUBSET Block : b \in S /\ Rooted(S) => c \in S}]

VARIABLES
    db,         \* the shielded stores
    unsynced,   \* the stores before each write since the last synced one
    coins,      \* the tip of the coins database
    index,      \* the block index on disk: the blocks whose undo data it knows,
                \* and the ones marked BLOCK_FAILED_VALID
    pruned,     \* block files below this height are gone
    tip,        \* the active tip
    mem,        \* the live tree, pool and velocity log, and whether this
                \* process has persisted them
    op,         \* what the node is doing, and the writes it still has to do
    undo,       \* blocks whose undo data the index in memory knows
    failed,     \* ... and the ones it marks BLOCK_FAILED_VALID
    strays,     \* history: blocks that were rejected after some of their writes
    crashes

vars ==
    <<db, unsynced, coins, index, pruned, tip, mem, op, undo, failed, strays,
      crashes>>
-----------------------------------------------------------------------------
(* What a chain implies.                                                    *)

Gather(f, bs) == UNION {f[b] : b \in bs}

Undone(src, dst) == Chain[src] \ Chain[dst]

Applied(src, dst) == Chain[dst] \ Chain[src]

(* What the blocks bs take out of the pool less what they add, each counted *)
(* by the unit.                                                             *)
UnitsOut(bs) == {p \in bs \X (1..MaxMoney) : p[2] <= ValueBalance[p[1]]}

UnitsIn(bs) == {p \in bs \X (1..MaxMoney) : p[2] <= -ValueBalance[p[1]]}

NetOut(bs) == Cardinality(UnitsOut(bs)) - Cardinality(UnitsIn(bs))

(* The anchors a block of bs creates and neither it nor a later one         *)
(* consumes.  An anchor that was consumed may be created again.             *)
Standing(bs) ==
    UNION {Created[c] \ Gather(Consumed, {d \in bs : Height[d] >= Height[c]}) :
              c \in bs}

NullifiersAt == [b \in Heads |-> Gather(Nullifiers, Chain[b])]

AnchorsAt == [b \in Heads |-> Standing(Chain[b])]

PoolAt == [b \in Heads |-> -NetOut(Chain[b])]
-----------------------------------------------------------------------------
(* ShieldedUnshieldVelocity: a log from heights to net egress.              *)

NonNegative(v) == IF v > 0 THEN v ELSE 0

RecordBlock(log, h, egress) ==
    [k \in DOMAIN log \cup {h} |-> IF k = h THEN NonNegative(egress) ELSE log[k]]

UndoBlock(log, h) == Restrict(log, DOMAIN log \ {h})

Prune(log, keep_from) == Restrict(log, {h \in DOMAIN log : h >= keep_from})

InWindow(log, h) == Restrict(log, {k \in DOMAIN log : h - Window < k /\ k <= h})

WindowTotal(log, h) == FoldFunction(+, 0, InWindow(log, h))

WindowCap(pool) ==
    LET cap == (pool * CapBps) \div 10000
    IN  IF pool <= 0 \/ CapBps = 0 \/ cap < MinCap THEN MinCap ELSE cap

EmptyLog == [h \in {} |-> 0]

(* RebuildRecentShieldedUnshieldVelocity: the log the blocks of b imply. *)
VelocityAt ==
    [b \in Block |->
        LET kept == {c \in Chain[b] : Height[c] >= Height[b] - 2 * Window}
        IN  [h \in {Height[c] : c \in kept} |->
                NonNegative(NetOut({c \in kept : Height[c] = h}))]]

(* A log that is not in the database loads as an empty one. *)
Loaded(log) == IF log = None THEN EmptyLog ELSE log

(* Two logs are told apart by what they allow the next block. *)
SameWindow(log1, log2, b) ==
    WindowTotal(log1, Height[b] + 1) = WindowTotal(log2, Height[b] + 1)
-----------------------------------------------------------------------------
(* Block files.                                                             *)

Readable(bs) == \A b \in bs : Height[b] >= pruned

FullBlocks(b) == Readable(Chain[b])

RecentBlocks(b) ==
    Readable({c \in Chain[b] : Height[c] >= Height[b] - 2 * Window})

Path(src, dst) == Undone(src, dst) \cup Applied(src, dst)

(* redo_prepared_transition_stores reads the blocks on the way and the undo *)
(* data of the ones it undoes.  The blocks of the tip have theirs.          *)
Redoable(src, dst) ==
    /\ Readable(Path(src, dst))
    /\ Path(src, dst) \subseteq undo

(* What WriteBlockIndexDB writes. *)
BlockIndex == [undo |-> undo, failed |-> failed]
-----------------------------------------------------------------------------
(* The stores.                                                              *)

NoSnapshot == [tip |-> None, tree |-> {}, pool |-> 0]

NoPin ==
    [tree |-> {}, pool |-> 0, velocity |-> EmptyLog, nullifiers |-> {},
     anchors |-> {}]

NoMarker ==
    [prepared |-> FALSE, src |-> None, dst |-> None, tree |-> {}, pool |-> 0]

EmptyDb ==
    [nullifiers |-> {}, anchors |-> {}, velocity |-> None, pool |-> 0,
     snapshot |-> NoSnapshot, accumulator |-> None, pin |-> NoPin,
     marker |-> NoMarker]

NoMem == [tree |-> {}, pool |-> 0, velocity |-> EmptyLog, sealed |-> FALSE]

(* ComputeShieldedSnapshotStatePin, for live values m. *)
StatePin(m) ==
    [tree |-> m.tree, pool |-> m.pool, velocity |-> m.velocity,
     nullifiers |-> db.nullifiers, anchors |-> db.anchors]

(* The live values a restart loads from the snapshot. *)
FromSnapshot ==
    [tree |-> db.snapshot.tree, pool |-> db.snapshot.pool,
     velocity |-> Loaded(db.velocity), sealed |-> FALSE]

AccumulatorVerified == db.accumulator = db.nullifiers

(* The tree and the pool of dst, from those of src. *)
ProjectedTree(src, dst) == (mem.tree \ Undone(src, dst)) \cup Applied(src, dst)

ProjectedPool(src, dst) ==
    mem.pool + NetOut(Undone(src, dst)) - NetOut(Applied(src, dst))

LegacyMarker(dst) == [NoMarker EXCEPT !.dst = dst]

PreparedMarker(src, dst) ==
    [prepared |-> TRUE, src |-> src, dst |-> dst,
     tree |-> ProjectedTree(src, dst), pool |-> ProjectedPool(src, dst)]

(* The anchors that undoing the blocks bs, highest first, gives back: a     *)
(* block has consumed them, and no lower one has created them.              *)
GivenBack(bs) ==
    UNION {(Consumed[c] \ Created[c])
              \ UNION {Created[d] \ Consumed[d] :
                           d \in {e \in bs : Height[e] < Height[c]}} :
              c \in bs}

(* Mutant: anchors that the undone blocks consumed are not given back. *)
AnchorsToInsertForward(src, dst) == Standing(Applied(src, dst))

(* What is inserted into and removed from the anchors on the way from src   *)
(* to dst: the last block that touches an anchor decides.                   *)
AnchorsToInsert(src, dst) ==
    Standing(Applied(src, dst))
        \cup (GivenBack(Undone(src, dst)) \ Gather(Consumed, Applied(src, dst)))

AnchorsToRemove(src, dst) ==
    (Gather(Consumed, Applied(src, dst))
        \cup UNION {Created[c] \ Consumed[c] : c \in Undone(src, dst)})
    \ AnchorsToInsert(src, dst)
-----------------------------------------------------------------------------
(* The writes of each operation, in order.                                  *)

PersistWrites == <<"state", "accumulator", "pin", "clear">>

(* Mutant: the marker follows the nullifiers. *)
ConnectMarkerLate ==
    <<"insert nullifiers", "marker", "insert anchors", "remove anchors",
      "velocity", "pool">> \o PersistWrites

ConnectWrites ==
    <<"marker", "insert nullifiers", "insert anchors", "remove anchors",
      "velocity", "pool">> \o PersistWrites

DisconnectWrites ==
    <<"marker", "remove nullifiers", "remove anchors", "insert anchors",
      "pool", "velocity">> \o PersistWrites

RedoWrites ==
    <<"remove nullifiers", "insert nullifiers", "remove anchors",
      "insert anchors", "velocity", "pool">> \o PersistWrites

RebuildWrites ==
    <<"wipe", "marker", "insert nullifiers", "insert anchors", "pool",
      "velocity">> \o PersistWrites

(* repaired tells whether a startup has repaired anything. *)
Task(kind, src, dst, todo, repaired) ==
    [kind |-> kind, src |-> src, dst |-> dst, todo |-> todo,
     repaired |-> repaired]

At(kind) == Task(kind, None, None, <<>>, FALSE)

Is(kinds) == op.kind \in kinds

Doing(kinds, step) == Is(kinds) /\ op.todo # <<>> /\ Head(op.todo) = step

Advance == op' = [op EXCEPT !.todo = Tail(@)]

(* A write is synced, and with it all earlier ones, or a power loss may     *)
(* undo it.                                                                 *)
Synced == unsynced' = {}

Unsynced == unsynced' = unsynced \cup {db}

Running == {"connect", "disconnect", "redo", "rebuild", "audit", "shutdown"}

(* A database an older version has left: no pin, no velocity log, and       *)
(* perhaps no accumulator.                                                  *)
OlderDb(accumulator) ==
    [nullifiers |-> NullifiersAt[Genesis], anchors |-> AnchorsAt[Genesis],
     velocity |-> None, pool |-> PoolAt[Genesis],
     snapshot |-> [tip |-> Genesis, tree |-> Chain[Genesis],
                   pool |-> PoolAt[Genesis]],
     accumulator |-> accumulator, pin |-> NoPin, marker |-> NoMarker]

(* The first start, or the first one of this version. *)
Init ==
    /\ db \in {EmptyDb, OlderDb(None), OlderDb(NullifiersAt[Genesis])}
    /\ unsynced = {}
    /\ coins = Genesis
    /\ index = [undo |-> {Genesis}, failed |-> {}]
    /\ pruned = 0
    /\ tip = Genesis
    /\ mem = NoMem
    /\ op = At("down")
    /\ undo = {Genesis}
    /\ failed = {}
    /\ strays = {}
    /\ crashes = 0
-----------------------------------------------------------------------------
(* The chain moves.                                                         *)

(* ConnectBlock's checks against the stores, before any write. *)
Refutes(b) ==
    \/ Nullifiers[b] \cap db.nullifiers # {}
    \/ Created[b] \cap db.anchors # {}
    \/ ~(Consumed[b] \subseteq db.anchors \cup Created[b])

ConnectBlock(b) ==
    /\ Is({"idle"})
    /\ b # Genesis /\ Parent[b] = tip
    /\ b \notin failed
    /\ Readable({b})
    /\ IF Refutes(b)
       THEN failed' = failed \cup {b} /\ UNCHANGED op
       ELSE /\ op' = Task("connect", tip, b, ConnectWrites, FALSE)
            /\ UNCHANGED failed
    /\ UNCHANGED <<db, unsynced, coins, index, pruned, tip, mem, undo, strays,
                   crashes>>

DisconnectBlock ==
    /\ Is({"idle"})
    /\ tip # Genesis
    /\ Height[tip] > ReorgFloor
    /\ Readable({tip})
    /\ op' = Task("disconnect", tip, Parent[tip], DisconnectWrites, FALSE)
    /\ UNCHANGED <<db, unsynced, coins, index, pruned, tip, mem, undo, failed,
                   strays, crashes>>

(* FlushStateToDisk: the block index, the block files below first_kept, and *)
(* then the coins, each a write of its own.                                 *)
FlushStateToDisk(first_kept) ==
    /\ Is({"idle"})
    /\ first_kept = pruned
         \/ (first_kept > pruned /\ first_kept <= Height[tip] - Retention)
    /\ <<first_kept, tip, BlockIndex>> # <<pruned, coins, index>>
    /\ index' = BlockIndex
    /\ pruned' = first_kept
    /\ op' = At("flush")
    /\ UNCHANGED <<db, unsynced, coins, tip, mem, undo, failed, strays,
                   crashes>>

Shutdown ==
    /\ Is({"idle"})
    /\ index' = BlockIndex
    /\ op' = At("stop")
    /\ UNCHANGED <<db, unsynced, coins, pruned, tip, mem, undo, failed, strays,
                   crashes>>

(* A shutdown then persists a state this process has only loaded. *)
FlushCoins ==
    /\ Is({"flush", "stop"})
    /\ coins' = tip
    /\ \/ /\ Is({"flush"})
          /\ op' = At("idle")
          /\ UNCHANGED <<mem, unsynced>>
       \/ /\ Is({"stop"}) /\ mem.sealed
          /\ op' = At("down")
          /\ mem' = NoMem
          /\ Synced
       \/ /\ Is({"stop"}) /\ ~mem.sealed
          /\ op' = Task("shutdown", tip, tip, PersistWrites, FALSE)
          /\ UNCHANGED <<mem, unsynced>>
    /\ UNCHANGED <<db, index, pruned, tip, undo, failed, strays, crashes>>

(* The process dies, or the machine does and loses a suffix of the unsynced *)
(* writes.  The next one starts from the index and the coins on disk.       *)
Crash ==
    /\ ~Is({"down", "refused"})
    /\ crashes < MaxCrashes
    /\ crashes' = crashes + 1
    /\ op' = At("down")
    /\ mem' = NoMem
    /\ tip' = coins
    /\ undo' = index.undo
    /\ failed' = index.failed
    /\ db' \in {db} \cup unsynced
    /\ Synced
    /\ UNCHANGED <<coins, index, pruned, strays>>
-----------------------------------------------------------------------------
(* The writes.                                                              *)

(* The PREPARED marker; a rebuild writes a legacy one.  The marker of a gap  *)
(* is then redone like one that was found, and that may fail.               *)
WriteMarker ==
    /\ Doing(Running, "marker")
    /\ db' = [db EXCEPT !.marker =
                IF Is({"rebuild"}) THEN LegacyMarker(op.dst)
                ELSE PreparedMarker(op.src, op.dst)]
    /\ IF Is({"redo"}) /\ ~Redoable(op.src, op.dst)
       THEN op' = At("unresumed")
       ELSE Advance
    /\ Synced
    /\ UNCHANGED <<coins, index, pruned, tip, mem, undo, failed, strays,
                   crashes>>

InsertNullifiers ==
    /\ Doing(Running, "insert nullifiers")
    /\ db' = [db EXCEPT !.nullifiers =
                @ \cup Gather(Nullifiers, Applied(op.src, op.dst))]
    /\ Advance
    /\ Synced
    /\ UNCHANGED <<coins, index, pruned, tip, mem, undo, failed, strays,
                   crashes>>

(* Mutant: nothing is removed. *)
KeepNullifiers ==
    /\ Doing(Running, "remove nullifiers")
    /\ Advance
    /\ UNCHANGED <<db, unsynced, coins, index, pruned, tip, mem, undo, failed,
                   strays, crashes>>

RemoveNullifiers ==
    /\ Doing(Running, "remove nullifiers")
    /\ db' = [db EXCEPT !.nullifiers =
                @ \ Gather(Nullifiers, Undone(op.src, op.dst))]
    /\ Advance
    /\ Synced
    /\ UNCHANGED <<coins, index, pruned, tip, mem, undo, failed, strays,
                   crashes>>

InsertSettlementAnchors ==
    /\ Doing(Running, "insert anchors")
    /\ db' = [db EXCEPT !.anchors = @ \cup AnchorsToInsert(op.src, op.dst)]
    /\ Advance
    /\ Synced
    /\ UNCHANGED <<coins, index, pruned, tip, mem, undo, failed, strays,
                   crashes>>

RemoveSettlementAnchors ==
    /\ Doing(Running, "remove anchors")
    /\ db' = [db EXCEPT !.anchors = @ \ AnchorsToRemove(op.src, op.dst)]
    /\ Advance
    /\ Synced
    /\ UNCHANGED <<coins, index, pruned, tip, mem, undo, failed, strays,
                   crashes>>

(* ConnectBlock records the block and applies the cap; a block over it is   *)
(* rejected here, after the writes that precede.                            *)
ConnectVelocity ==
    LET h == Height[op.dst]
        pool_end == ProjectedPool(op.src, op.dst)
        next == RecordBlock(mem.velocity, h, mem.pool - pool_end)
    IN  /\ Doing({"connect"}, "velocity")
        /\ IF WindowTotal(next, h) > WindowCap(mem.pool)
           THEN /\ failed' = failed \cup {op.dst}
                /\ strays' = strays \cup {op.dst}
                /\ op' = At("idle")
                /\ UNCHANGED <<db, unsynced>>
           ELSE /\ db' = [db EXCEPT !.velocity = Prune(next, h - 2 * Window)]
                /\ Synced
                /\ Advance
                /\ UNCHANGED <<failed, strays>>
        /\ UNCHANGED <<coins, index, pruned, tip, mem, undo, crashes>>

(* Mutant: the entry of the disconnected block stays. *)
DisconnectKeepsVelocity ==
    /\ Doing({"disconnect"}, "velocity")
    /\ Advance
    /\ UNCHANGED <<db, unsynced, mem, coins, index, pruned, tip, undo, failed,
                   strays, crashes>>

DisconnectVelocity ==
    LET next == UndoBlock(mem.velocity, Height[op.src])
    IN  /\ Doing({"disconnect"}, "velocity")
        /\ db' = [db EXCEPT !.velocity = next]
        /\ mem' = [mem EXCEPT !.velocity = next]
        /\ Advance
        /\ Synced
        /\ UNCHANGED <<coins, index, pruned, tip, undo, failed, strays,
                       crashes>>

(* A startup derives the log from the blocks, if they are still there. *)
RebuildVelocity ==
    /\ Doing({"redo", "rebuild"}, "velocity")
    /\ IF RecentBlocks(op.dst)
       THEN /\ db' = [db EXCEPT !.velocity = VelocityAt[op.dst]]
            /\ mem' = [mem EXCEPT !.velocity = VelocityAt[op.dst]]
            /\ Synced
            /\ Advance
       ELSE op' = At("unresumed") /\ UNCHANGED <<db, unsynced, mem>>
    /\ UNCHANGED <<coins, index, pruned, tip, undo, failed, strays, crashes>>

(* The balance, and then the live state: a redo takes it from the marker.   *)
(* ConnectBlock goes on to WriteBlockUndo.                                   *)
WritePoolBalance ==
    LET tree == IF Is({"redo"}) THEN db.marker.tree
                ELSE ProjectedTree(op.src, op.dst)
        pool == IF Is({"redo"}) THEN db.marker.pool
                ELSE ProjectedPool(op.src, op.dst)
    IN  /\ Doing(Running, "pool")
        /\ db' = [db EXCEPT !.pool = pool]
        /\ mem' = [mem EXCEPT !.tree = tree, !.pool = pool,
                              !.velocity = Loaded(db.velocity)]
        /\ undo' = IF Is({"connect"}) THEN undo \cup {op.dst} ELSE undo
        /\ Advance
        /\ Synced
        /\ UNCHANGED <<coins, index, pruned, tip, failed, strays, crashes>>

WipeStores ==
    /\ Doing({"rebuild"}, "wipe")
    /\ db' = EmptyDb
    /\ Advance
    /\ Synced
    /\ UNCHANGED <<coins, index, pruned, tip, mem, undo, failed, strays,
                   crashes>>
-----------------------------------------------------------------------------
(* PersistShieldedState: three writes, and the marker is cleared.           *)

WritePersistedState ==
    /\ Doing(Running, "state")
    /\ db' = [db EXCEPT !.snapshot =
                [tip |-> op.dst, tree |-> mem.tree, pool |-> mem.pool]]
    /\ Advance
    /\ Synced
    /\ UNCHANGED <<coins, index, pruned, tip, mem, undo, failed, strays,
                   crashes>>

PersistNullifierAccumulator ==
    /\ Doing(Running, "accumulator")
    /\ db' = [db EXCEPT !.accumulator = db.nullifiers]
    /\ Advance
    /\ Unsynced
    /\ UNCHANGED <<coins, index, pruned, tip, mem, undo, failed, strays,
                   crashes>>

PersistShieldedStatePin ==
    /\ Doing(Running, "pin")
    /\ db' = [db EXCEPT !.pin = StatePin(mem)]
    /\ Advance
    /\ Unsynced
    /\ UNCHANGED <<coins, index, pruned, tip, mem, undo, failed, strays,
                   crashes>>

HasShieldedBundle(b) ==
    \/ Nullifiers[b] \cup Created[b] \cup Consumed[b] # {}
    \/ ValueBalance[b] # 0

(* AutoReconsiderShieldedInvalidBlocksAfterStartupRepair. *)
Reconsidered(b) ==
    {c \in failed : /\ Parent[c] \in Chain[b]
                    /\ Readable({c})
                    /\ HasShieldedBundle(c)}

ClearMutationMarker ==
    /\ Doing(Running, "clear")
    /\ db' = [db EXCEPT !.marker = NoMarker]
    /\ tip' = op.dst
    /\ op' = At(IF Is({"shutdown"}) THEN "down" ELSE "idle")
    /\ mem' = IF Is({"shutdown"}) THEN NoMem ELSE [mem EXCEPT !.sealed = TRUE]
    /\ failed' = IF op.repaired THEN failed \ Reconsidered(op.dst) ELSE failed
    /\ IF Is({"shutdown"}) THEN Synced ELSE Unsynced
    /\ UNCHANGED <<coins, index, pruned, undo, strays, crashes>>
-----------------------------------------------------------------------------
(* EnsureShieldedStateInitialized.                                          *)

PinVerified == db.pin = StatePin(FromSnapshot)

(* rebuild_from_chain checks the blocks before it wipes anything. *)
RebuildOrRefuse ==
    /\ op' = IF FullBlocks(tip)
             THEN Task("rebuild", None, tip, RebuildWrites, TRUE)
             ELSE At("refused")
    /\ mem' = NoMem

(* Mutant: only a transition that adds blocks is resumed. *)
ResumableForward ==
    /\ db.marker # NoMarker
    /\ db.marker.prepared
    /\ db.marker.dst = tip
    /\ Undone(db.marker.src, tip) = {}
    /\ Redoable(db.marker.src, tip)

Resumable ==
    /\ db.marker # NoMarker
    /\ db.marker.prepared
    /\ db.marker.dst = tip
    /\ Redoable(db.marker.src, tip)

RestorePreparedTransition ==
    /\ Is({"down"})
    /\ Resumable
    /\ op' = Task("redo", db.marker.src, tip, RedoWrites, TRUE)
    /\ UNCHANGED <<db, unsynced, coins, index, pruned, tip, mem, undo, failed,
                   strays, crashes>>

Unresumed ==
    \/ Is({"down"}) /\ db.marker # NoMarker /\ ~Resumable
    \/ Is({"unresumed"})

(* The snapshot already is the marker's target, and proves it. *)
StaleMarker ==
    /\ db.marker.prepared
    /\ db.marker.dst = tip
    /\ db.snapshot # NoSnapshot
    /\ db.snapshot.tip = tip
    /\ AccumulatorVerified
    /\ PinVerified

ClearStaleMarker ==
    /\ Unresumed
    /\ StaleMarker
    /\ db' = [db EXCEPT !.marker = NoMarker]
    /\ op' = At("load")
    /\ mem' = NoMem
    /\ Unsynced
    /\ UNCHANGED <<coins, index, pruned, tip, undo, failed, strays, crashes>>

(* Mutant: every marker that cannot be resumed ends the startup. *)
RefuseMarker ==
    /\ Unresumed
    /\ ~StaleMarker
    /\ op' = At("refused")
    /\ mem' = NoMem
    /\ UNCHANGED <<db, unsynced, coins, index, pruned, tip, undo, failed,
                   strays, crashes>>

AbandonMarker ==
    /\ Unresumed
    /\ ~StaleMarker
    /\ RebuildOrRefuse
    /\ UNCHANGED <<db, unsynced, coins, index, pruned, tip, undo, failed,
                   strays, crashes>>

Loading == Is({"load"}) \/ (Is({"down"}) /\ db.marker = NoMarker)

AtTip == db.snapshot # NoSnapshot /\ db.snapshot.tip = tip

VelocityDrifted ==
    \/ db.velocity = None
    \/ ~SameWindow(Loaded(db.velocity), VelocityAt[tip], tip)

(* verify_or_repair_startup_velocity. *)
RepairVelocity ==
    /\ Loading
    /\ AtTip
    /\ RecentBlocks(tip)
    /\ VelocityDrifted
    /\ db' = [db EXCEPT !.velocity = VelocityAt[tip]]
    /\ op' = [At("load") EXCEPT !.repaired = TRUE]
    /\ Synced
    /\ UNCHANGED <<coins, index, pruned, tip, mem, undo, failed, strays,
                   crashes>>

(* The cheap evidence: the accumulator and the pin. *)
AcceptSnapshot ==
    /\ Loading
    /\ AtTip
    /\ RecentBlocks(tip)
    /\ ~VelocityDrifted
    /\ AccumulatorVerified
    /\ PinVerified
    /\ mem' = FromSnapshot
    /\ op' = At("idle")
    /\ failed' = IF op.repaired THEN failed \ Reconsidered(tip) ELSE failed
    /\ UNCHANGED <<db, unsynced, coins, index, pruned, tip, undo, strays,
                   crashes>>

(* AuditShieldedStateAgainstChain. *)
AuditPasses ==
    /\ db.snapshot.tree = Chain[tip]
    /\ db.snapshot.pool = PoolAt[tip]
    /\ db.nullifiers = NullifiersAt[tip]

(* Without a pin the anchors are synced and the rest audited. *)
AuditSnapshot ==
    /\ Loading
    /\ AtTip
    /\ FullBlocks(tip)
    /\ ~VelocityDrifted
    /\ AccumulatorVerified
    /\ ~PinVerified
    /\ AuditPasses
    /\ db' = [db EXCEPT !.anchors = AnchorsAt[tip]]
    /\ mem' = FromSnapshot
    /\ op' = Task("audit", tip, tip, PersistWrites, op.repaired)
    /\ Synced
    /\ UNCHANGED <<coins, index, pruned, tip, undo, failed, strays, crashes>>

(* A pinned snapshot elsewhere is carried to the tip by a journaled redo.   *)
(* The index may know a block and not its undo data (the block arrived      *)
(* before the index was written and was connected after), or not know the   *)
(* block.  In the first case the gap is begun and fails.                    *)
Bridgeable ==
    LET src == db.snapshot.tip
    IN  /\ AccumulatorVerified
        /\ PinVerified
        /\ Readable(Path(src, tip))
        /\ \/ Undone(src, tip) = {}
           \/ Applied(src, tip) = {}
           \/ Cardinality(Path(src, tip)) <= AnchorDepth

BridgeGap ==
    /\ Loading
    /\ db.snapshot # NoSnapshot
    /\ db.snapshot.tip # tip
    /\ Bridgeable
    /\ mem' = FromSnapshot
    /\ op' = Task("redo", db.snapshot.tip, tip,
                  <<"marker">> \o RedoWrites, TRUE)
    /\ UNCHANGED <<db, unsynced, coins, index, pruned, tip, undo, failed,
                   strays, crashes>>

(* No snapshot, or one whose evidence fails. *)
Unusable ==
    IF db.snapshot = NoSnapshot THEN TRUE
    ELSE IF ~AtTip THEN ~(Bridgeable /\ Redoable(db.snapshot.tip, tip))
    ELSE IF ~RecentBlocks(tip) THEN TRUE
    ELSE /\ ~VelocityDrifted
         /\ \/ ~AccumulatorVerified
            \/ ~PinVerified /\ ~(FullBlocks(tip) /\ AuditPasses)

RejectSnapshot ==
    /\ Loading
    /\ Unusable
    /\ RebuildOrRefuse
    /\ UNCHANGED <<db, unsynced, coins, index, pruned, tip, undo, failed,
                   strays, crashes>>
-----------------------------------------------------------------------------
Writes ==
    \/ FlushCoins \/ WriteMarker \/ InsertNullifiers \/ RemoveNullifiers
    \/ InsertSettlementAnchors \/ RemoveSettlementAnchors
    \/ ConnectVelocity \/ DisconnectVelocity \/ RebuildVelocity
    \/ WritePoolBalance \/ WipeStores \/ WritePersistedState
    \/ PersistNullifierAccumulator \/ PersistShieldedStatePin
    \/ ClearMutationMarker

Startup ==
    \/ RestorePreparedTransition \/ ClearStaleMarker \/ AbandonMarker
    \/ RepairVelocity \/ AcceptSnapshot \/ AuditSnapshot \/ BridgeGap
    \/ RejectSnapshot

Next ==
    \/ \E b \in Block : ConnectBlock(b)
    \/ DisconnectBlock
    \/ \E h \in {Height[b] : b \in Block} : FlushStateToDisk(h)
    \/ Shutdown
    \/ Crash
    \/ Writes
    \/ Startup

Spec == Init /\ [][Next]_vars

(* An operation that has begun runs on until the process dies. *)
FairSpec == Spec /\ WF_vars(Startup) /\ WF_vars(Writes)
-----------------------------------------------------------------------------
(* What the properties speak of.                                            *)

(* The stores nullifiers and anchors are those of b, up to what rejected    *)
(* blocks have left behind.                                                 *)
StoresOf(b, nullifiers, anchors) ==
    /\ NullifiersAt[b] \subseteq nullifiers
    /\ nullifiers \subseteq NullifiersAt[b] \cup Gather(Nullifiers, strays)
    /\ AnchorsAt[b] \ Gather(Consumed, strays) \subseteq anchors
    /\ anchors \subseteq AnchorsAt[b] \cup Gather(Created, strays)

(* What the blocks alone say of b, with no store consulted. *)
ChainValid(b) ==
    LET log == RecordBlock(VelocityAt[Parent[b]], Height[b], ValueBalance[b])
    IN  /\ Nullifiers[b] \cap NullifiersAt[Parent[b]] = {}
        /\ Created[b] \cap AnchorsAt[Parent[b]] = {}
        /\ Consumed[b] \subseteq AnchorsAt[Parent[b]] \cup Created[b]
        /\ ~(WindowTotal(log, Height[b]) > WindowCap(PoolAt[Parent[b]]))

(* The log holds all the heights the next block's window has.  It does      *)
(* unless more blocks were disconnected in a row than the buffer Prune      *)
(* keeps below the window ("reorgs up to the buffer depth can restore       *)
(* exactly", unshield_velocity.h).                                          *)
Covers(log, b) ==
    \A c \in Chain[b] : Height[c] > Height[b] + 1 - Window => Height[c] \in DOMAIN log

VelocityOf(b, log) == Covers(log, b) => SameWindow(log, VelocityAt[b], b)
-----------------------------------------------------------------------------
(* Whenever the node serves, however it came up and however often it died,  *)
(* the live state and the stores are what the active chain implies: tree,   *)
(* pool, what the velocity cap allows the next block, nullifiers, anchors.  *)
LiveStateMatchesChain ==
    Is({"idle"}) =>
        /\ mem.tree = Chain[tip]
        /\ mem.pool = PoolAt[tip] /\ db.pool = mem.pool
        /\ VelocityOf(tip, mem.velocity)
        /\ StoresOf(tip, db.nullifiers, db.anchors)

(* A database without a marker is whole: its stores and its snapshot are    *)
(* all of one block.  The startup trusts this when it finds no marker.      *)
UnmarkedMeansWhole ==
    (db.marker = NoMarker /\ db.snapshot # NoSnapshot) =>
        LET b == db.snapshot.tip
        IN  /\ db.snapshot.tree = Chain[b]
            /\ db.snapshot.pool = PoolAt[b] /\ db.pool = PoolAt[b]
            /\ VelocityOf(b, Loaded(db.velocity))
            /\ AccumulatorVerified \/ db.accumulator = None
            /\ StoresOf(b, db.nullifiers, db.anchors)

(* While a PREPARED marker is in place, whatever prefix of the writes has   *)
(* reached the disk, redoing them all yields the stores of the target       *)
(* ("Every operation below is safe to repeat").                             *)
MarkedMeansRepairable ==
    (db.marker # NoMarker /\ db.marker.prepared) =>
        LET src == db.marker.src
            dst == db.marker.dst
        IN  /\ db.marker.tree = Chain[dst]
            /\ db.marker.pool = PoolAt[dst]
            /\ StoresOf(dst,
                 (db.nullifiers \ Gather(Nullifiers, Undone(src, dst)))
                     \cup Gather(Nullifiers, Applied(src, dst)),
                 (db.anchors \ AnchorsToRemove(src, dst))
                     \cup AnchorsToInsert(src, dst))

(* What ConnectBlock decides from its stores is what the blocks say: it     *)
(* rejects no block its chain allows and connects none its chain forbids,   *)
(* as long as no rejected block has left writes behind and the velocity log *)
(* covers the window.  A crash goes back to the verdicts the index recorded *)
(* and decides nothing.                                                     *)
VerdictsFollowChain ==
    [][(strays = {} /\ Covers(mem.velocity, tip) /\ op'.kind # "down") =>
        /\ \A b \in failed' \ failed : ~ChainValid(b)
        /\ (Doing({"connect"}, "velocity") /\ op'.kind = "connect")
              => ChainValid(op.dst)]_vars

(* A startup never discards the stores while the journal can finish them:   *)
(* the marker leads to the tip, the block files are there, and the blocks   *)
(* to undo were connected before the index was last written.                *)
PreparedTransitionNotDiscarded ==
    [][(/\ db.marker # NoMarker
        /\ db.marker.prepared
        /\ db.marker.dst = tip
        /\ Redoable(db.marker.src, tip)
        /\ RecentBlocks(tip)) => db' # EmptyDb]_vars

(* A node that keeps all its blocks resumes every transition to its tip:    *)
(* "a crash at any point leaves PREPARED in place and the next startup      *)
(* resumes instead of discarding 100k+ blocks of otherwise valid persisted  *)
(* state" (validation.cpp).                                                 *)
PreparedTransitionResumed ==
    [][(/\ db.marker # NoMarker
        /\ db.marker.prepared
        /\ db.marker.dst = tip
        /\ pruned = 0) => db' # EmptyDb]_vars

(* A node that keeps all its blocks comes back from every crash. *)
UnprunedRestarts == (Is({"down"}) /\ pruned = 0) ~> Is({"idle"})

(* A block rejected by the velocity cap leaves nothing behind: "Computed,   *)
(* checked, and persisted before the pool-balance commit so a violation     *)
(* rejects the block cleanly" (validation.cpp).                             *)
RejectedCleanly ==
    Is({"idle"}) => db.nullifiers = NullifiersAt[tip]
                    /\ db.anchors = AnchorsAt[tip]
====
