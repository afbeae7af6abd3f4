----------------- MODULE ShieldedTransitionJournalInvariant -----------------
(***************************************************************************)
(* The inductive invariant of ShieldedTransitionJournal, for every tree of  *)
(* blocks and every number of crashes: the order of the writes of every     *)
(* operation, and the steps that preserve the invariant by that order or by *)
(* what one block does to the stores.  The steps that move the stores along *)
(* a whole path are in ShieldedTransitionJournalProofs.                     *)
(***************************************************************************)
EXTENDS ShieldedTransitionJournal, TLAPS
-----------------------------------------------------------------------------
(* Chains.                                                                  *)

(* The block tree. *)
LEMMA Tree ==
    /\ Genesis \in Block /\ None \notin Block /\ Height[Genesis] = 0
    /\ \A b \in Block : Height[b] \in Nat
    /\ \A b \in Block \ {Genesis} :
         Parent[b] \in Block /\ Height[b] = Height[Parent[b]] + 1
  BY JournalAssumption

(* A chain is a set of blocks, closed under Parent, and the least such set. *)
LEMMA ChainRooted ==
    ASSUME NEW b \in Block
    PROVE  /\ b \in Chain[b]
           /\ Chain[b] \in SUBSET Block
           /\ Rooted(Chain[b])
           /\ \A S \in SUBSET Block : b \in S /\ Rooted(S) => Chain[b] \subseteq S
<1>1. Chain[b] = {c \in Block :
                    \A S \in SUBSET Block : b \in S /\ Rooted(S) => c \in S}
  BY Tree DEF Chain, Heads
<1>2. Rooted(Chain[b])
  BY <1>1, Tree DEF Rooted
<1> QED
  BY <1>1, <1>2

(* The chain of a block is the block and the chain of its parent. *)
LEMMA ChainParent ==
    ASSUME NEW b \in Block \ {Genesis}
    PROVE  Chain[b] = {b} \cup Chain[Parent[b]]
<1>1. Parent[b] \in Block
  BY Tree
<1>2. Chain[Parent[b]] \subseteq Chain[b]
  BY <1>1, ChainRooted DEF Rooted
<1>3. Rooted({b} \cup Chain[Parent[b]])
  BY <1>1, ChainRooted DEF Rooted
<1>4. Chain[b] \subseteq {b} \cup Chain[Parent[b]]
  BY <1>1, <1>3, ChainRooted
<1> QED
  BY <1>2, <1>4, ChainRooted

(* A block of a chain is below its tip. *)
LEMMA ChainHeight ==
    ASSUME NEW b \in Block, NEW c \in Chain[b]
    PROVE  c \in Block /\ (c = b \/ Height[c] < Height[b])
<1> DEFINE S == {b} \cup {d \in Block : Height[d] < Height[b]}
<1>1. Rooted(S)
  <2> SUFFICES ASSUME NEW d \in S \ {Genesis} PROVE Parent[d] \in S
    BY DEF Rooted
  <2>1. d \in Block \ {Genesis} /\ Height[d] <= Height[b]
    BY Tree
  <2> QED
    BY <2>1, Tree
<1>2. Chain[b] \subseteq S
  BY <1>1, ChainRooted
<1> QED
  BY <1>2

(* A chain tells its tip. *)
LEMMA ChainInjective ==
    ASSUME NEW b \in Block, NEW c \in Block, Chain[b] = Chain[c]
    PROVE  b = c
<1>1. b \in Chain[c] /\ c \in Chain[b]
  BY ChainRooted
<1>2. Height[b] \in Nat /\ Height[c] \in Nat
  BY Tree
<1> QED
  BY <1>1, <1>2, ChainHeight

-----------------------------------------------------------------------------
(* Paths of at most one block.                                              *)

(* The step from a parent to its child, and back. *)
LEMMA OneBlockPath ==
    ASSUME NEW b \in Block \ {Genesis}
    PROVE  /\ Parent[b] \in Block
           /\ Undone(Parent[b], b) = {} /\ Applied(Parent[b], b) = {b}
           /\ Undone(b, Parent[b]) = {b} /\ Applied(b, Parent[b]) = {}
<1>1. Parent[b] \in Block /\ Height[Parent[b]] \in Nat /\ Height[b] = Height[Parent[b]] + 1
  BY Tree
<1>2. Chain[b] = {b} \cup Chain[Parent[b]]
  BY ChainParent
<1>3. b \notin Chain[Parent[b]]
  <2> SUFFICES ASSUME b \in Chain[Parent[b]] PROVE FALSE
    OBVIOUS
  <2>1. b = Parent[b] \/ Height[b] < Height[Parent[b]]
    BY <1>1, ChainHeight
  <2> QED
    BY <1>1, <2>1
<1> QED
  BY <1>1, <1>2, <1>3 DEF Undone, Applied

(* No block lies between a block and itself. *)
LEMMA SamePath ==
    ASSUME NEW b \in Heads
    PROVE  Undone(b, b) = {} /\ Applied(b, b) = {}
  BY DEF Undone, Applied

-----------------------------------------------------------------------------
(* The stores.                                                              *)

(* Block c could be connected to its parent, up to what the rejected blocks *)
(* S have left in the stores.                                               *)
Sound(c, S) ==
    /\ Nullifiers[c] \cap NullifiersAt[Parent[c]] = {}
    /\ Created[c] \cap AnchorsAt[Parent[c]] \subseteq Gather(Consumed, S)
    /\ Consumed[c] \subseteq
         AnchorsAt[Parent[c]] \cup Created[c] \cup Gather(Created, S)

Good(b, S) == b \in Block /\ \A c \in Chain[b] \ {Genesis} : Sound(c, S)

(* StoresOf, for the rejected blocks S. *)
Stores(b, n, a, S) ==
    /\ NullifiersAt[b] \subseteq n
    /\ n \subseteq NullifiersAt[b] \cup Gather(Nullifiers, S)
    /\ AnchorsAt[b] \ Gather(Consumed, S) \subseteq a
    /\ a \subseteq AnchorsAt[b] \cup Gather(Created, S)

(* Redoing the writes from src to dst yields the stores of dst. *)
Repairable(src, dst, n, a, S) ==
    Stores(dst,
           (n \ Gather(Nullifiers, Undone(src, dst)))
               \cup Gather(Nullifiers, Applied(src, dst)),
           (a \ AnchorsToRemove(src, dst)) \cup AnchorsToInsert(src, dst),
           S)

(* Membership in Gather, unfolded. *)
LEMMA InGather ==
    ASSUME NEW f, NEW bs, NEW x
    PROVE  x \in Gather(f, bs) <=> \E b \in bs : x \in f[b]
  BY DEF Gather

(* An anchor stands if a block creates it and no such or later one consumes *)
(* it.                                                                      *)
Stands(x, bs) ==
    \E c \in bs : /\ x \in Created[c]
                  /\ \A d \in bs : Height[d] >= Height[c] => x \notin Consumed[d]

(* Membership in Standing, unfolded. *)
LEMMA InStanding ==
    ASSUME NEW bs, NEW x
    PROVE  x \in Standing(bs) <=> Stands(x, bs)
<1>1. x \in Standing(bs)
        <=> \E c \in bs : x \in Created[c] \ Gather(Consumed, {d \in bs : Height[d] >= Height[c]})
  BY DEF Standing
<1>2. ASSUME NEW c \in bs
      PROVE  x \in Gather(Consumed, {d \in bs : Height[d] >= Height[c]})
               <=> \E d \in bs : Height[d] >= Height[c] /\ x \in Consumed[d]
  BY DEF Gather
<1> QED
  BY <1>1, <1>2, Zenon DEF Stands

(* A block leaves an anchor that it has created. *)
Leaves(c, x) == x \in Created[c] /\ x \notin Consumed[c]

(* A block takes an anchor of an earlier one. *)
Takes(c, x) == x \in Consumed[c] /\ x \notin Created[c]

(* Membership in GivenBack, unfolded. *)
LEMMA InGivenBack ==
    ASSUME NEW bs, NEW x
    PROVE  x \in GivenBack(bs)
             <=> \E c \in bs : /\ Takes(c, x)
                               /\ \A d \in bs : Height[d] < Height[c] => ~Leaves(d, x)
<1>1. x \in GivenBack(bs)
        <=> \E c \in bs :
              x \in (Consumed[c] \ Created[c])
                       \ UNION {Created[d] \ Consumed[d] :
                                    d \in {e \in bs : Height[e] < Height[c]}}
  BY DEF GivenBack
<1>2. ASSUME NEW c \in bs
      PROVE  x \in UNION {Created[d] \ Consumed[d] :
                              d \in {e \in bs : Height[e] < Height[c]}}
               <=> \E d \in bs : Height[d] < Height[c] /\ Leaves(d, x)
  BY DEF Leaves
<1> QED
  BY <1>1, <1>2 DEF Takes

(* Membership in AnchorsToInsert, unfolded. *)
LEMMA InInsert ==
    ASSUME NEW src, NEW dst, NEW x
    PROVE  x \in AnchorsToInsert(src, dst)
             <=> \/ Stands(x, Applied(src, dst))
                 \/ /\ x \in GivenBack(Undone(src, dst))
                    /\ \A v \in Applied(src, dst) : x \notin Consumed[v]
  BY InStanding, InGather DEF AnchorsToInsert

(* Membership in AnchorsToRemove, unfolded. *)
LEMMA InRemove ==
    ASSUME NEW src, NEW dst, NEW x
    PROVE  x \in AnchorsToRemove(src, dst)
             <=> /\ \/ \E v \in Applied(src, dst) : x \in Consumed[v]
                    \/ \E c \in Undone(src, dst) : Leaves(c, x)
                 /\ x \notin AnchorsToInsert(src, dst)
  BY InGather DEF AnchorsToRemove, Leaves

(* A path of no blocks changes nothing. *)
LEMMA StayRepairable ==
    ASSUME NEW b \in Block, NEW S, NEW n, NEW a
    PROVE  /\ AnchorsToInsert(b, b) = {} /\ AnchorsToRemove(b, b) = {}
           /\ Gather(Nullifiers, Undone(b, b)) = {}
           /\ Gather(Nullifiers, Applied(b, b)) = {}
           /\ Repairable(b, b, n, a, S) <=> Stores(b, n, a, S)
<1>1. Undone(b, b) = {} /\ Applied(b, b) = {}
  BY SamePath DEF Heads
<1>2. Gather(Nullifiers, {}) = {}
  BY DEF Gather
<1>3. \A x : x \notin AnchorsToInsert(b, b)
  BY <1>1, InInsert, InGivenBack DEF Stands
<1>4. \A x : x \notin AnchorsToRemove(b, b)
  BY <1>1, InRemove
<1>5. AnchorsToInsert(b, b) = {} /\ AnchorsToRemove(b, b) = {}
  BY <1>3, <1>4
<1>6. /\ (n \ Gather(Nullifiers, Undone(b, b))) \cup Gather(Nullifiers, Applied(b, b)) = n
      /\ (a \ AnchorsToRemove(b, b)) \cup AnchorsToInsert(b, b) = a
  BY <1>1, <1>2, <1>5
<1>7. Repairable(b, b, n, a, S) <=> Stores(b, n, a, S)
  BY <1>6 DEF Repairable
<1> QED
  BY <1>1, <1>2, <1>5, <1>7

(* No anchor is both inserted and removed, so the two may come in any order *)
(* and be repeated; the nullifiers are removed first.                       *)
LEMMA RepairSteps ==
    ASSUME NEW src, NEW dst, NEW n, NEW a, NEW S, Repairable(src, dst, n, a, S)
    PROVE  LET Ins == AnchorsToInsert(src, dst)
               Rem == AnchorsToRemove(src, dst)
               U == Gather(Nullifiers, Undone(src, dst))
               V == Gather(Nullifiers, Applied(src, dst))
           IN  /\ Ins \cap Rem = {}
               /\ Repairable(src, dst, n, a \cup Ins, S)
               /\ Repairable(src, dst, n, a \ Rem, S)
               /\ Repairable(src, dst, n \cup V, a, S)
               /\ Repairable(src, dst, n \ U, a, S)
               /\ (n = (n \ U) \cup V /\ Ins \subseteq a /\ a \cap Rem = {})
                    => Stores(dst, n, a, S)
<1> DEFINE Ins == AnchorsToInsert(src, dst)
           Rem == AnchorsToRemove(src, dst)
           U == Gather(Nullifiers, Undone(src, dst))
           V == Gather(Nullifiers, Applied(src, dst))
           Null(m) == (m \ U) \cup V
           Anch(m) == (m \ Rem) \cup Ins
<1>1. Ins \cap Rem = {}
  BY DEF AnchorsToRemove
<1>2. \A m, k : Repairable(src, dst, m, k, S) <=> Stores(dst, Null(m), Anch(k), S)
  BY DEF Repairable
<1> HIDE DEF Ins, Rem, U, V
<1>3. Anch(a \cup Ins) = Anch(a) /\ Anch(a \ Rem) = Anch(a)
  BY <1>1
<1>4. Null(n \cup V) = Null(n) /\ Null(n \ U) = Null(n)
  OBVIOUS
<1>5. Ins \subseteq a /\ a \cap Rem = {} => Anch(a) = a
  OBVIOUS
<1> HIDE DEF Null, Anch
<1>6. /\ Repairable(src, dst, n, a \cup Ins, S) /\ Repairable(src, dst, n, a \ Rem, S)
      /\ Repairable(src, dst, n \cup V, a, S) /\ Repairable(src, dst, n \ U, a, S)
  BY <1>2, <1>3, <1>4
<1>7. ASSUME n = Null(n), Ins \subseteq a, a \cap Rem = {} PROVE Stores(dst, n, a, S)
  BY <1>2, <1>5, <1>7
<1> QED
  BY <1>1, <1>6, <1>7 DEF Ins, Rem, U, V, Null

(* A block is good if its parent is and it can be connected. *)
LEMMA GoodParent ==
    ASSUME NEW b \in Block \ {Genesis}, NEW S
    PROVE  Good(b, S) <=> Good(Parent[b], S) /\ Sound(b, S)
<1>1. Chain[b] = {b} \cup Chain[Parent[b]] /\ Parent[b] \in Block
  BY ChainParent, Tree
<1> QED
  BY <1>1 DEF Good

(* What a block passes in ConnectBlock, checked against its parent's stores *)
LEMMA NotRefuted ==
    ASSUME NEW b \in Block \ {Genesis}, NEW n, NEW a, NEW S,
           Stores(Parent[b], n, a, S),
           Nullifiers[b] \cap n = {}, Created[b] \cap a = {},
           Consumed[b] \subseteq a \cup Created[b]
    PROVE  Sound(b, S)
  BY DEF Sound, Stores

-----------------------------------------------------------------------------
(* The velocity log.                                                        *)

(* A log that tells the truth about blocks of b's chain, perhaps not about  *)
(* all of them.                                                             *)
LogOf(log, b) ==
    /\ log = [h \in DOMAIN log |-> log[h]]
    /\ \A h \in DOMAIN log :
         \E c \in Chain[b] : h = Height[c] /\ log[h] = NonNegative(ValueBalance[c])

(* The empty log records nothing wrong. *)
LEMMA EmptyLogOf == \A b : LogOf(EmptyLog, b)
  BY DEF LogOf, EmptyLog

(* A log stays right when entries are dropped, by Prune or UndoBlock. *)
LEMMA RestrictLogOf ==
    ASSUME NEW log, NEW b, LogOf(log, b), NEW H \in SUBSET DOMAIN log
    PROVE  LogOf(Restrict(log, H), b)
  BY DEF LogOf, Restrict

(* Disconnecting it takes it out. *)
LEMMA UndoLogOf ==
    ASSUME NEW b \in Block \ {Genesis}, NEW log, LogOf(log, b)
    PROVE  LogOf(UndoBlock(log, Height[b]), Parent[b])
<1> DEFINE D == DOMAIN log \ {Height[b]}
           new == Restrict(log, D)
<1>1. Chain[b] = {b} \cup Chain[Parent[b]]
  BY ChainParent
<1>2. LogOf(new, b)
  BY RestrictLogOf
<1>3. DOMAIN new = D
  BY DEF Restrict
<1> HIDE DEF new
<1>4. LogOf(new, Parent[b])
  BY <1>1, <1>2, <1>3 DEF LogOf
<1> QED
  BY <1>4 DEF new, UndoBlock

-----------------------------------------------------------------------------
(* The writes an operation still has to do.                                 *)

Program(kind) ==
    CASE kind = "connect" -> ConnectWrites
      [] kind = "disconnect" -> DisconnectWrites
      [] kind = "redo" -> <<"marker">> \o RedoWrites
      [] kind = "rebuild" -> RebuildWrites
      [] OTHER -> PersistWrites

Steps ==
    {"wipe", "marker", "insert nullifiers", "remove nullifiers",
     "insert anchors", "remove anchors", "velocity", "pool", "state",
     "accumulator", "pin", "clear"}

(* todo is the end of program. *)
Suffix(todo, program) ==
    /\ todo \in Seq(Steps)
    /\ Len(todo) <= Len(program)
    /\ \A i \in 1..Len(todo) : todo[i] = program[Len(program) - Len(todo) + i]

Left == Len(op.todo)

(* Which writes are still to be done, by the number that are left. *)
WipePending == op.kind = "rebuild" /\ Left >= 10

MarkerPending ==
    \/ op.kind \in {"connect", "disconnect"} /\ Left >= 10
    \/ op.kind = "redo" /\ Left >= 11
    \/ op.kind = "rebuild" /\ Left >= 9

RemovalPending ==
    \/ op.kind = "disconnect" /\ Left >= 9
    \/ op.kind = "redo" /\ Left >= 10

InsertionPending ==
    \/ op.kind \in {"connect", "redo"} /\ Left >= 9
    \/ op.kind = "rebuild" /\ Left >= 8

AnchorInsertionPending ==
    \/ op.kind = "connect" /\ Left >= 8
    \/ op.kind \in {"disconnect", "redo", "rebuild"} /\ Left >= 7

AnchorRemovalPending ==
    \/ op.kind = "connect" /\ Left >= 7
    \/ op.kind \in {"disconnect", "redo"} /\ Left >= 8

VelocityPending ==
    \/ op.kind \in {"connect", "redo"} /\ Left >= 6
    \/ op.kind \in {"disconnect", "rebuild"} /\ Left >= 5

PoolPending ==
    \/ op.kind \in {"connect", "redo"} /\ Left >= 5
    \/ op.kind \in {"disconnect", "rebuild"} /\ Left >= 6

StatePending == Left >= 4

AccumulatorPending == Left >= 3

(* The operations that write a PREPARED marker. *)
Journaled == {"connect", "disconnect", "redo"}
-----------------------------------------------------------------------------
(* The invariant.                                                           *)

IsDb(d) ==
    d = [nullifiers |-> d.nullifiers, anchors |-> d.anchors,
         velocity |-> d.velocity, pool |-> d.pool, snapshot |-> d.snapshot,
         accumulator |-> d.accumulator, pin |-> d.pin, marker |-> d.marker]

IsMem(m) ==
    m = [tree |-> m.tree, pool |-> m.pool, velocity |-> m.velocity,
         sealed |-> m.sealed]

IsOp(o) == o = Task(o.kind, o.src, o.dst, o.todo, o.repaired)

(* The stores of d are those of block b. *)
DbAt(d, b, S) ==
    /\ d.pool = PoolAt[b]
    /\ LogOf(Loaded(d.velocity), b)
    /\ Stores(b, d.nullifiers, d.anchors, S)

MemAt(m, b) ==
    /\ m.tree = Chain[b]
    /\ m.pool = PoolAt[b]
    /\ LogOf(m.velocity, b)

SnapshotOK(d, S) ==
    d.snapshot # NoSnapshot =>
        /\ Good(d.snapshot.tip, S)
        /\ d.snapshot.tree = Chain[d.snapshot.tip]
        /\ d.snapshot.pool = PoolAt[d.snapshot.tip]

PinOK(d, S) ==
    d.pin # NoPin =>
        \E b \in Block :
            /\ d.pin.tree = Chain[b]
            /\ d.pin.pool = PoolAt[b]
            /\ LogOf(d.pin.velocity, b)
            /\ Stores(b, d.pin.nullifiers, d.pin.anchors, S)

(* A marker that is in place leads to its target. *)
MarkerOK(d, S) ==
    d.marker.prepared =>
        /\ Good(d.marker.src, S) /\ Good(d.marker.dst, S)
        /\ d.marker.tree = Chain[d.marker.dst]
        /\ d.marker.pool = PoolAt[d.marker.dst]
        /\ Repairable(d.marker.src, d.marker.dst, d.nullifiers, d.anchors, S)
        /\ d.snapshot.tip = d.marker.dst => d.pool = PoolAt[d.marker.dst]

WholeOK(d, S) ==
    (d.marker = NoMarker /\ d.snapshot # NoSnapshot) =>
        /\ DbAt(d, d.snapshot.tip, S)
        /\ d.accumulator = d.nullifiers \/ d.accumulator = None

(* What a crash may find on the disk. *)
DbOK(d, S) ==
    /\ IsDb(d)
    /\ SnapshotOK(d, S)
    /\ PinOK(d, S)
    /\ MarkerOK(d, S)
    /\ WholeOK(d, S)

DisksOK == /\ \A d \in {db} \cup unsynced : DbOK(d, strays)
           /\ \A d \in unsynced : d.snapshot # NoSnapshot

(* The operation, the blocks it leads from and to, and its writes. *)
OpOK ==
    /\ IsOp(op)
    /\ op.kind \in Running => /\ Suffix(op.todo, Program(op.kind))
                              /\ op.todo # <<>>
                              /\ Good(op.dst, strays)
    /\ op.kind \notin Running => op.todo = <<>>
    /\ op.kind = "connect" => /\ op.dst \in Block \ {Genesis}
                              /\ op.src = Parent[op.dst]
                              /\ op.src = tip
    /\ op.kind = "disconnect" => /\ op.src \in Block \ {Genesis}
                                 /\ op.dst = Parent[op.src]
                                 /\ op.src = tip
    /\ op.kind = "redo" => Good(op.src, strays) /\ op.dst = tip
    /\ op.kind = "rebuild" => op.src = None /\ op.dst = tip
    /\ op.kind \in {"audit", "shutdown"} => op.src = tip /\ op.dst = tip

(* While nothing is under way, and before a marker is written, all is of    *)
(* one block.                                                               *)
SettledAt(b) ==
    /\ MemAt(mem, b)
    /\ DbAt(db, b, strays)
    /\ db.snapshot.tip = b

RestOK ==
    /\ op.kind \in {"idle", "flush", "stop"} => SettledAt(tip)
    /\ op.kind = "load" => db.marker = NoMarker
    /\ op.kind = "unresumed" => ~(Resumable /\ RecentBlocks(tip))

MarkerPhase ==
    op.kind \in Running =>
        /\ (op.kind \in Journaled /\ MarkerPending) => SettledAt(op.src)
        /\ (op.kind \in Journaled /\ ~MarkerPending) =>
               /\ db.marker.prepared
               /\ db.marker.src = op.src
               /\ db.marker.dst = op.dst
        /\ (op.kind = "rebuild" /\ ~MarkerPending) =>
               db.marker = LegacyMarker(op.dst)
        /\ (op.kind = "rebuild" /\ MarkerPending /\ ~WipePending) =>
               db = EmptyDb
        /\ (op.kind = "rebuild" /\ WipePending) =>
               ~(Resumable /\ RecentBlocks(tip))

(* Which of the writes to the nullifiers and the anchors have been done. *)
StoresPhase ==
    LET U == Gather(Nullifiers, Undone(op.src, op.dst))
        V == Gather(Nullifiers, Applied(op.src, op.dst))
    IN  (op.kind \in Running /\ ~MarkerPending /\ ~WipePending) =>
            /\ Repairable(op.src, op.dst, db.nullifiers, db.anchors, strays)
            /\ (~RemovalPending /\ InsertionPending) =>
                   db.nullifiers \cap U = {}
            /\ (~RemovalPending /\ ~InsertionPending) =>
                   db.nullifiers = (db.nullifiers \ U) \cup V
            /\ ~AnchorInsertionPending =>
                   AnchorsToInsert(op.src, op.dst) \subseteq db.anchors
            /\ ~AnchorRemovalPending =>
                   db.anchors \cap AnchorsToRemove(op.src, op.dst) = {}

(* The pool, the live state and the velocity log. *)
PoolPhase ==
    op.kind \in Running =>
        /\ (PoolPending /\ op.kind # "redo") =>
               mem.tree = Chain[op.src] /\ mem.pool = PoolAt[op.src]
        /\ (PoolPending /\ op.kind = "connect") => db.pool = PoolAt[op.src]
        /\ ~PoolPending => /\ mem.tree = Chain[op.dst]
                               /\ mem.pool = PoolAt[op.dst]
                               /\ db.pool = PoolAt[op.dst]
        /\ (VelocityPending /\ op.kind \in {"connect", "disconnect"}) =>
               LogOf(mem.velocity, op.src) /\ LogOf(Loaded(db.velocity), op.src)
        /\ ~VelocityPending => LogOf(Loaded(db.velocity), op.dst)
        /\ (~VelocityPending /\ ~PoolPending) =>
               LogOf(mem.velocity, op.dst)

PersistPhase ==
    op.kind \in Running =>
        /\ (op.kind \in {"connect", "audit", "shutdown"} /\ StatePending) =>
               db.snapshot.tip = op.src
        /\ ~StatePending => db.snapshot.tip = op.dst
        /\ ~AccumulatorPending => db.accumulator = db.nullifiers

IInv ==
    /\ IsMem(mem)
    /\ Good(tip, strays)
    /\ Good(coins, strays)
    /\ DisksOK
    /\ OpOK
    /\ RestOK
    /\ MarkerPhase
    /\ StoresPhase
    /\ PoolPhase
    /\ PersistPhase
-----------------------------------------------------------------------------
(* The order of the writes.                                                 *)

(* Programs one after the other. *)
LEMMA Concatenation ==
    ASSUME NEW s \in Seq(Steps), NEW t \in Seq(Steps)
    PROVE  /\ s \o t \in Seq(Steps)
           /\ Len(s \o t) = Len(s) + Len(t)
           /\ \A i \in 1..Len(s) + Len(t) :
                (s \o t)[i] = IF i <= Len(s) THEN s[i] ELSE t[i - Len(s)]
<1>1. s \o t \in Seq(Steps) /\ Len(s \o t) = Len(s) + Len(t)
  OBVIOUS
<1>2. ASSUME NEW i \in 1..Len(s) + Len(t)
      PROVE  (s \o t)[i] = IF i <= Len(s) THEN s[i] ELSE t[i - Len(s)]
  OBVIOUS
<1> QED
  BY <1>1, <1>2

(* The next write, by the number that are left. *)
LEMMA NextWrite ==
    ASSUME NEW program, NEW todo, Suffix(todo, program), todo # <<>>,
           Len(program) \in Nat
    PROVE  /\ Len(todo) \in 1..Len(program)
           /\ Head(todo) = program[Len(program) + 1 - Len(todo)]
           /\ Tail(todo) \in Seq(Steps) /\ Len(Tail(todo)) = Len(todo) - 1
           /\ Suffix(Tail(todo), program)
<1>1. todo \in Seq(Steps) /\ Len(todo) <= Len(program)
  BY DEF Suffix
<1>2. /\ Len(todo) \in Nat /\ Len(todo) > 0 /\ Head(todo) = todo[1]
      /\ Tail(todo) \in Seq(Steps) /\ Len(Tail(todo)) = Len(todo) - 1
      /\ \A i \in 1..Len(Tail(todo)) : Tail(todo)[i] = todo[i + 1]
  BY <1>1
<1>3. todo[1] = program[Len(program) - Len(todo) + 1]
  BY <1>2 DEF Suffix
<1>4. Len(program) - Len(todo) + 1 = Len(program) + 1 - Len(todo)
  BY <1>2
<1>5. ASSUME NEW i \in 1..Len(Tail(todo))
      PROVE  Tail(todo)[i] = program[Len(program) - Len(Tail(todo)) + i]
  <2>1. i + 1 \in 1..Len(todo) /\ Tail(todo)[i] = todo[i + 1]
    BY <1>2
  <2>2. todo[i + 1] = program[Len(program) - Len(todo) + (i + 1)]
    BY <2>1 DEF Suffix
  <2>3. Len(program) - Len(todo) + (i + 1) = Len(program) - Len(Tail(todo)) + i
    BY <1>2
  <2> QED
    BY <2>1, <2>2, <2>3
<1> QED
  BY <1>1, <1>2, <1>3, <1>4, <1>5 DEF Suffix

(* The program of a bridged redo. *)
LEMMA RedoOrder ==
    LET redo == <<"marker">> \o RedoWrites
    IN  /\ Len(redo) = 11
        /\ redo[1] = "marker"
        /\ redo[2] = "remove nullifiers"
        /\ redo[3] = "insert nullifiers"
        /\ redo[4] = "remove anchors"
        /\ redo[5] = "insert anchors"
        /\ redo[6] = "velocity"
        /\ redo[7] = "pool"
        /\ redo[8] = "state"
        /\ redo[9] = "accumulator"
        /\ redo[10] = "pin"
        /\ redo[11] = "clear"
<1>1. /\ Len(RedoWrites) = 10
      /\ RedoWrites[1] = "remove nullifiers"
      /\ RedoWrites[2] = "insert nullifiers"
      /\ RedoWrites[3] = "remove anchors"
      /\ RedoWrites[4] = "insert anchors"
      /\ RedoWrites[5] = "velocity"
      /\ RedoWrites[6] = "pool"
      /\ RedoWrites[7] = "state"
      /\ RedoWrites[8] = "accumulator"
      /\ RedoWrites[9] = "pin"
      /\ RedoWrites[10] = "clear"
  BY DEF RedoWrites, PersistWrites
<1> DEFINE redo == <<"marker">> \o RedoWrites
           first == <<"remove nullifiers", "insert nullifiers", "remove anchors",
                      "insert anchors", "velocity", "pool">>
<1>2. RedoWrites \in Seq(Steps)
  <2>1. first \in Seq(Steps) /\ PersistWrites \in Seq(Steps)
    BY DEF PersistWrites, Steps
  <2>2. RedoWrites = first \o PersistWrites
    BY DEF RedoWrites
  <2> HIDE DEF first
  <2> QED
    BY <2>1, <2>2, Concatenation, Zenon
<1>3. /\ Len(redo) = 11
      /\ \A i \in 1..11 : redo[i] = IF i <= 1 THEN "marker" ELSE RedoWrites[i - 1]
  <2> DEFINE one == <<"marker">>
  <2>1. one \in Seq(Steps) /\ Len(one) = 1 /\ one[1] = "marker"
    BY DEF Steps
  <2>2. redo = one \o RedoWrites
    OBVIOUS
  <2> HIDE DEF one, redo
  <2>3. /\ Len(redo) = Len(one) + Len(RedoWrites)
        /\ \A i \in 1..Len(one) + Len(RedoWrites) :
             redo[i] = IF i <= Len(one) THEN one[i] ELSE RedoWrites[i - Len(one)]
    BY <1>2, <2>1, <2>2, Concatenation, Zenon
  <2>4. Len(RedoWrites) = 10
    BY <1>1, Zenon
  <2>5. \A i \in 1..11 : redo[i] = IF i <= 1 THEN one[i] ELSE RedoWrites[i - 1]
    BY <2>1, <2>3, <2>4
  <2>6. \A i \in 1..11 : i <= 1 => one[i] = "marker"
    BY <2>1
  <2>7. Len(redo) = 11
    BY <2>1, <2>3, <2>4
  <2> QED
    BY <2>5, <2>6, <2>7
<1> HIDE DEF redo
<1>4. /\ redo[1] = "marker"
      /\ redo[2] = RedoWrites[1]
      /\ redo[3] = RedoWrites[2]
      /\ redo[4] = RedoWrites[3]
      /\ redo[5] = RedoWrites[4]
      /\ redo[6] = RedoWrites[5]
      /\ redo[7] = RedoWrites[6]
      /\ redo[8] = RedoWrites[7]
      /\ redo[9] = RedoWrites[8]
      /\ redo[10] = RedoWrites[9]
      /\ redo[11] = RedoWrites[10]
  BY <1>3
<1> QED
  BY <1>1, <1>3, <1>4, Zenon DEF redo

(* How many writes are left when each is next. *)
WritesLeft ==
    /\ Head(op.todo) = "wipe" => op.kind = "rebuild" /\ Left = 10
    /\ Head(op.todo) = "marker" =>
         \/ op.kind \in {"connect", "disconnect"} /\ Left = 10
         \/ op.kind = "redo" /\ Left = 11
         \/ op.kind = "rebuild" /\ Left = 9
    /\ Head(op.todo) = "remove nullifiers" =>
         \/ op.kind = "disconnect" /\ Left = 9
         \/ op.kind = "redo" /\ Left = 10
    /\ Head(op.todo) = "insert nullifiers" =>
         \/ op.kind \in {"connect", "redo"} /\ Left = 9
         \/ op.kind = "rebuild" /\ Left = 8
    /\ Head(op.todo) = "insert anchors" =>
         \/ op.kind = "connect" /\ Left = 8
         \/ op.kind \in {"disconnect", "redo", "rebuild"} /\ Left = 7
    /\ Head(op.todo) = "remove anchors" =>
         \/ op.kind = "connect" /\ Left = 7
         \/ op.kind \in {"disconnect", "redo"} /\ Left = 8
    /\ Head(op.todo) = "velocity" =>
         \/ op.kind \in {"connect", "redo"} /\ Left = 6
         \/ op.kind \in {"disconnect", "rebuild"} /\ Left = 5
    /\ Head(op.todo) = "pool" =>
         \/ op.kind \in {"connect", "redo"} /\ Left = 5
         \/ op.kind \in {"disconnect", "rebuild"} /\ Left = 6
    /\ Head(op.todo) = "state" => Left = 4
    /\ Head(op.todo) = "accumulator" => Left = 3
    /\ Head(op.todo) = "pin" => Left = 2
    /\ Head(op.todo) = "clear" => Left = 1

(* A running operation is at a write, and the rest of its program follows. *)
LEMMA StepsLeft ==
    ASSUME OpOK, op.kind \in Running
    PROVE  /\ Left \in Nat /\ Left > 0
           /\ Len(Tail(op.todo)) = Left - 1
           /\ Suffix(Tail(op.todo), Program(op.kind))
           /\ WritesLeft
<1>1. CASE op.kind = "connect"
  <2> DEFINE program == ConnectWrites
             left == Left
             pos == 11 - left
             head == Head(op.todo)
  <2>1. Program(op.kind) = program /\ Suffix(op.todo, program) /\ op.todo # <<>>
    BY <1>1 DEF OpOK, Program, Running
  <2>2. Len(program) = 10 /\ Len(program) \in Nat
    BY DEF ConnectWrites, PersistWrites
  <2>3. /\ program[1] = "marker"
        /\ program[2] = "insert nullifiers"
        /\ program[3] = "insert anchors"
        /\ program[4] = "remove anchors"
        /\ program[5] = "velocity"
        /\ program[6] = "pool"
        /\ program[7] = "state"
        /\ program[8] = "accumulator"
        /\ program[9] = "pin"
        /\ program[10] = "clear"
    BY DEF ConnectWrites, PersistWrites
  <2> HIDE DEF program
  <2>4. /\ Left \in 1..Len(program) /\ Head(op.todo) = program[Len(program) + 1 - Left]
        /\ Len(Tail(op.todo)) = Left - 1 /\ Suffix(Tail(op.todo), program)
    BY <2>1, <2>2, NextWrite, Zenon DEF Left
  <2>5. \/ left = 10 /\ pos = 1
        \/ left = 9 /\ pos = 2
        \/ left = 8 /\ pos = 3
        \/ left = 7 /\ pos = 4
        \/ left = 6 /\ pos = 5
        \/ left = 5 /\ pos = 6
        \/ left = 4 /\ pos = 7
        \/ left = 3 /\ pos = 8
        \/ left = 2 /\ pos = 9
        \/ left = 1 /\ pos = 10
    BY <2>2, <2>4
  <2>6. head = program[pos]
    BY <2>2, <2>4
  <2> HIDE DEF left, pos, head
  <2>7. \/ left = 10 /\ head = "marker"
        \/ left = 9 /\ head = "insert nullifiers"
        \/ left = 8 /\ head = "insert anchors"
        \/ left = 7 /\ head = "remove anchors"
        \/ left = 6 /\ head = "velocity"
        \/ left = 5 /\ head = "pool"
        \/ left = 4 /\ head = "state"
        \/ left = 3 /\ head = "accumulator"
        \/ left = 2 /\ head = "pin"
        \/ left = 1 /\ head = "clear"
    BY <2>3, <2>5, <2>6, Zenon
  <2>8. WritesLeft
    BY <1>1, <2>7, Zenon DEF WritesLeft, left, head
  <2> QED
    BY <2>1, <2>2, <2>4, <2>8
<1>2. CASE op.kind = "disconnect"
  <2> DEFINE program == DisconnectWrites
             left == Left
             pos == 11 - left
             head == Head(op.todo)
  <2>1. Program(op.kind) = program /\ Suffix(op.todo, program) /\ op.todo # <<>>
    BY <1>2 DEF OpOK, Program, Running
  <2>2. Len(program) = 10 /\ Len(program) \in Nat
    BY DEF DisconnectWrites, PersistWrites
  <2>3. /\ program[1] = "marker"
        /\ program[2] = "remove nullifiers"
        /\ program[3] = "remove anchors"
        /\ program[4] = "insert anchors"
        /\ program[5] = "pool"
        /\ program[6] = "velocity"
        /\ program[7] = "state"
        /\ program[8] = "accumulator"
        /\ program[9] = "pin"
        /\ program[10] = "clear"
    BY DEF DisconnectWrites, PersistWrites
  <2> HIDE DEF program
  <2>4. /\ Left \in 1..Len(program) /\ Head(op.todo) = program[Len(program) + 1 - Left]
        /\ Len(Tail(op.todo)) = Left - 1 /\ Suffix(Tail(op.todo), program)
    BY <2>1, <2>2, NextWrite, Zenon DEF Left
  <2>5. \/ left = 10 /\ pos = 1
        \/ left = 9 /\ pos = 2
        \/ left = 8 /\ pos = 3
        \/ left = 7 /\ pos = 4
        \/ left = 6 /\ pos = 5
        \/ left = 5 /\ pos = 6
        \/ left = 4 /\ pos = 7
        \/ left = 3 /\ pos = 8
        \/ left = 2 /\ pos = 9
        \/ left = 1 /\ pos = 10
    BY <2>2, <2>4
  <2>6. head = program[pos]
    BY <2>2, <2>4
  <2> HIDE DEF left, pos, head
  <2>7. \/ left = 10 /\ head = "marker"
        \/ left = 9 /\ head = "remove nullifiers"
        \/ left = 8 /\ head = "remove anchors"
        \/ left = 7 /\ head = "insert anchors"
        \/ left = 6 /\ head = "pool"
        \/ left = 5 /\ head = "velocity"
        \/ left = 4 /\ head = "state"
        \/ left = 3 /\ head = "accumulator"
        \/ left = 2 /\ head = "pin"
        \/ left = 1 /\ head = "clear"
    BY <2>3, <2>5, <2>6, Zenon
  <2>8. WritesLeft
    BY <1>2, <2>7, Zenon DEF WritesLeft, left, head
  <2> QED
    BY <2>1, <2>2, <2>4, <2>8
<1>3. CASE op.kind = "redo"
  <2> DEFINE program == <<"marker">> \o RedoWrites
             left == Left
             pos == 12 - left
             head == Head(op.todo)
  <2>1. Program(op.kind) = program /\ Suffix(op.todo, program) /\ op.todo # <<>>
    BY <1>3 DEF OpOK, Program, Running
  <2>2. Len(program) = 11 /\ Len(program) \in Nat
    <3>1. Len(program) = 11
      BY RedoOrder, Zenon
    <3> QED
      BY <3>1
  <2>3. /\ program[1] = "marker"
        /\ program[2] = "remove nullifiers"
        /\ program[3] = "insert nullifiers"
        /\ program[4] = "remove anchors"
        /\ program[5] = "insert anchors"
        /\ program[6] = "velocity"
        /\ program[7] = "pool"
        /\ program[8] = "state"
        /\ program[9] = "accumulator"
        /\ program[10] = "pin"
        /\ program[11] = "clear"
    BY RedoOrder, Zenon
  <2> HIDE DEF program
  <2>4. /\ Left \in 1..Len(program) /\ Head(op.todo) = program[Len(program) + 1 - Left]
        /\ Len(Tail(op.todo)) = Left - 1 /\ Suffix(Tail(op.todo), program)
    BY <2>1, <2>2, NextWrite, Zenon DEF Left
  <2>5. \/ left = 11 /\ pos = 1
        \/ left = 10 /\ pos = 2
        \/ left = 9 /\ pos = 3
        \/ left = 8 /\ pos = 4
        \/ left = 7 /\ pos = 5
        \/ left = 6 /\ pos = 6
        \/ left = 5 /\ pos = 7
        \/ left = 4 /\ pos = 8
        \/ left = 3 /\ pos = 9
        \/ left = 2 /\ pos = 10
        \/ left = 1 /\ pos = 11
    BY <2>2, <2>4
  <2>6. head = program[pos]
    BY <2>2, <2>4
  <2> HIDE DEF left, pos, head
  <2>7. \/ left = 11 /\ head = "marker"
        \/ left = 10 /\ head = "remove nullifiers"
        \/ left = 9 /\ head = "insert nullifiers"
        \/ left = 8 /\ head = "remove anchors"
        \/ left = 7 /\ head = "insert anchors"
        \/ left = 6 /\ head = "velocity"
        \/ left = 5 /\ head = "pool"
        \/ left = 4 /\ head = "state"
        \/ left = 3 /\ head = "accumulator"
        \/ left = 2 /\ head = "pin"
        \/ left = 1 /\ head = "clear"
    BY <2>3, <2>5, <2>6, Zenon
  <2>8. WritesLeft
    BY <1>3, <2>7, Zenon DEF WritesLeft, left, head
  <2> QED
    BY <2>1, <2>2, <2>4, <2>8
<1>4. CASE op.kind = "rebuild"
  <2> DEFINE program == RebuildWrites
             left == Left
             pos == 11 - left
             head == Head(op.todo)
  <2>1. Program(op.kind) = program /\ Suffix(op.todo, program) /\ op.todo # <<>>
    BY <1>4 DEF OpOK, Program, Running
  <2>2. Len(program) = 10 /\ Len(program) \in Nat
    BY DEF RebuildWrites, PersistWrites
  <2>3. /\ program[1] = "wipe"
        /\ program[2] = "marker"
        /\ program[3] = "insert nullifiers"
        /\ program[4] = "insert anchors"
        /\ program[5] = "pool"
        /\ program[6] = "velocity"
        /\ program[7] = "state"
        /\ program[8] = "accumulator"
        /\ program[9] = "pin"
        /\ program[10] = "clear"
    BY DEF RebuildWrites, PersistWrites
  <2> HIDE DEF program
  <2>4. /\ Left \in 1..Len(program) /\ Head(op.todo) = program[Len(program) + 1 - Left]
        /\ Len(Tail(op.todo)) = Left - 1 /\ Suffix(Tail(op.todo), program)
    BY <2>1, <2>2, NextWrite, Zenon DEF Left
  <2>5. \/ left = 10 /\ pos = 1
        \/ left = 9 /\ pos = 2
        \/ left = 8 /\ pos = 3
        \/ left = 7 /\ pos = 4
        \/ left = 6 /\ pos = 5
        \/ left = 5 /\ pos = 6
        \/ left = 4 /\ pos = 7
        \/ left = 3 /\ pos = 8
        \/ left = 2 /\ pos = 9
        \/ left = 1 /\ pos = 10
    BY <2>2, <2>4
  <2>6. head = program[pos]
    BY <2>2, <2>4
  <2> HIDE DEF left, pos, head
  <2>7. \/ left = 10 /\ head = "wipe"
        \/ left = 9 /\ head = "marker"
        \/ left = 8 /\ head = "insert nullifiers"
        \/ left = 7 /\ head = "insert anchors"
        \/ left = 6 /\ head = "pool"
        \/ left = 5 /\ head = "velocity"
        \/ left = 4 /\ head = "state"
        \/ left = 3 /\ head = "accumulator"
        \/ left = 2 /\ head = "pin"
        \/ left = 1 /\ head = "clear"
    BY <2>3, <2>5, <2>6, Zenon
  <2>8. WritesLeft
    BY <1>4, <2>7, Zenon DEF WritesLeft, left, head
  <2> QED
    BY <2>1, <2>2, <2>4, <2>8
<1>5. CASE op.kind \in {"audit", "shutdown"}
  <2> DEFINE program == PersistWrites
             left == Left
             pos == 5 - left
             head == Head(op.todo)
  <2>1. Program(op.kind) = program /\ Suffix(op.todo, program) /\ op.todo # <<>>
    BY <1>5 DEF OpOK, Program, Running
  <2>2. Len(program) = 4 /\ Len(program) \in Nat
    BY DEF PersistWrites
  <2>3. /\ program[1] = "state"
        /\ program[2] = "accumulator"
        /\ program[3] = "pin"
        /\ program[4] = "clear"
    BY DEF PersistWrites
  <2> HIDE DEF program
  <2>4. /\ Left \in 1..Len(program) /\ Head(op.todo) = program[Len(program) + 1 - Left]
        /\ Len(Tail(op.todo)) = Left - 1 /\ Suffix(Tail(op.todo), program)
    BY <2>1, <2>2, NextWrite, Zenon DEF Left
  <2>5. \/ left = 4 /\ pos = 1
        \/ left = 3 /\ pos = 2
        \/ left = 2 /\ pos = 3
        \/ left = 1 /\ pos = 4
    BY <2>2, <2>4
  <2>6. head = program[pos]
    BY <2>2, <2>4
  <2> HIDE DEF left, pos, head
  <2>7. \/ left = 4 /\ head = "state"
        \/ left = 3 /\ head = "accumulator"
        \/ left = 2 /\ head = "pin"
        \/ left = 1 /\ head = "clear"
    BY <2>3, <2>5, <2>6
  <2>8. WritesLeft
    BY <1>5, <2>7, Zenon DEF WritesLeft, left, head
  <2> QED
    BY <2>1, <2>2, <2>4, <2>8
<1> QED
  BY <1>1, <1>2, <1>3, <1>4, <1>5 DEF Running
-----------------------------------------------------------------------------
(* The writes preserve the invariant.                                       *)

(* A legacy marker is a marker, and is not prepared. *)
LEMMA MarkerFacts ==
    /\ ~NoMarker.prepared
    /\ \A b \in Block : LegacyMarker(b) # NoMarker /\ ~LegacyMarker(b).prepared
<1>1. \A b : LegacyMarker(b).dst = b /\ ~LegacyMarker(b).prepared
  BY DEF LegacyMarker, NoMarker
<1>2. NoMarker.dst = None /\ ~NoMarker.prepared
  BY DEF NoMarker
<1> QED
  BY <1>1, <1>2, Tree

(* A snapshot of a block is one. *)
LEMMA SnapshotFacts ==
    ASSUME NEW s, s.tip \in Block
    PROVE  s # NoSnapshot
  BY Tree DEF NoSnapshot

(* After a write that is not the last, the operation goes on. *)
LEMMA AdvanceStep ==
    ASSUME OpOK, op.kind \in Running, Left > 1, Advance, tip' = tip, strays' = strays
    PROVE  /\ OpOK' /\ RestOK'
           /\ op'.kind = op.kind /\ op'.src = op.src /\ op'.dst = op.dst
           /\ Left' = Left - 1
<1>1. /\ op'.kind = op.kind /\ op'.src = op.src /\ op'.dst = op.dst
      /\ op'.repaired = op.repaired /\ op'.todo = Tail(op.todo) /\ IsOp(op')
  BY Zenon DEF OpOK, IsOp, Task, Advance
<1>2. /\ Left \in Nat /\ Len(Tail(op.todo)) = Left - 1
      /\ Suffix(Tail(op.todo), Program(op.kind))
  BY StepsLeft
<1>3. Left' = Left - 1
  BY <1>1, <1>2 DEF Left
<1>4. op'.todo # <<>>
  <2>1. Len(op'.todo) > 0
    BY <1>1, <1>2
  <2> QED
    BY <2>1
<1>5. OpOK'
  BY <1>1, <1>2, <1>4 DEF OpOK
<1>6. RestOK'
  BY <1>1 DEF RestOK, Running
<1> QED
  BY <1>1, <1>3, <1>5, <1>6

(* Writes to the nullifiers and the anchors. *)
LEMMA StoreStep ==
    ASSUME IInv, op.kind \in Journaled \cup {"rebuild"}, Left >= 7,
           ~MarkerPending, ~WipePending, Advance, Synced,
           coins' = coins, tip' = tip, mem' = mem, strays' = strays,
           IsDb(db'),
           db'.velocity = db.velocity, db'.pool = db.pool,
           db'.snapshot = db.snapshot, db'.accumulator = db.accumulator,
           db'.pin = db.pin, db'.marker = db.marker,
           Repairable(op.src, op.dst, db'.nullifiers, db'.anchors, strays),
           StoresPhase'
    PROVE  IInv'
<1>1. op.kind \in Running /\ OpOK
  BY DEF Journaled, Running, IInv
<1>2. Left \in Nat
  BY <1>1, StepsLeft
<1>3. /\ OpOK' /\ RestOK' /\ Left' = Left - 1
      /\ op'.kind = op.kind /\ op'.src = op.src /\ op'.dst = op.dst
  BY <1>1, <1>2, AdvanceStep
<1>4. /\ ~MarkerPending' /\ ~WipePending' /\ StatePending' /\ AccumulatorPending'
      /\ StatePending /\ PoolPending' /\ PoolPending /\ VelocityPending' /\ VelocityPending
  BY <1>2, <1>3
     DEF MarkerPending, WipePending, StatePending, AccumulatorPending, PoolPending,
         VelocityPending, Journaled
<1>5. /\ op.kind \in Journaled => /\ db.marker.prepared
                                  /\ db.marker.src = op.src /\ db.marker.dst = op.dst
      /\ op.kind = "rebuild" => db.marker = LegacyMarker(op.dst)
      /\ op.dst \in Block
  BY <1>1 DEF IInv, MarkerPhase, OpOK, Good
<1>6. MarkerPhase'
  BY <1>3, <1>4, <1>5 DEF MarkerPhase
<1>7. DbOK(db', strays)
  <2>1. DbOK(db, strays)
    BY DEF IInv, DisksOK
  <2>2. SnapshotOK(db', strays) /\ PinOK(db', strays)
    BY <2>1 DEF DbOK, SnapshotOK, PinOK
  <2>3. MarkerOK(db', strays)
    BY <1>5, <2>1, MarkerFacts DEF DbOK, MarkerOK
  <2>4. WholeOK(db', strays)
    BY <1>5, MarkerFacts DEF WholeOK
  <2> QED
    BY <2>2, <2>3, <2>4 DEF DbOK
<1>8. DisksOK'
  BY <1>7 DEF DisksOK, Synced
<1>9. PoolPhase'
  BY <1>1, <1>3, <1>4 DEF IInv, PoolPhase
<1>10. PersistPhase'
  BY <1>1, <1>3, <1>4 DEF IInv, PersistPhase
<1> QED
  BY <1>3, <1>6, <1>8, <1>9, <1>10 DEF IInv

(* Inserting the nullifiers keeps the invariant. *)
LEMMA InsertNullifiersStep ==
    ASSUME IInv, InsertNullifiers
    PROVE  IInv'
<1> DEFINE U == Gather(Nullifiers, Undone(op.src, op.dst))
           V == Gather(Nullifiers, Applied(op.src, op.dst))
<1>1. op.kind \in Running /\ OpOK /\ Head(op.todo) = "insert nullifiers" /\ IsDb(db)
  BY Zenon DEF InsertNullifiers, Doing, Is, IInv, DisksOK, DbOK
<1>2. /\ Advance /\ Synced /\ coins' = coins /\ tip' = tip /\ mem' = mem
      /\ strays' = strays
  BY Zenon DEF InsertNullifiers
<1>3. /\ \/ op.kind \in {"connect", "redo"} /\ Left = 9
         \/ op.kind = "rebuild" /\ Left = 8
  BY <1>1, StepsLeft, Zenon DEF WritesLeft
<1>4. /\ op'.kind = op.kind /\ op'.src = op.src /\ op'.dst = op.dst /\ Left' = Left - 1
  <2>1. Left > 1
    BY <1>3
  <2> QED
    BY <1>1, <1>2, <2>1, AdvanceStep, Zenon
<1>5. /\ IsDb(db') /\ db'.nullifiers = db.nullifiers \cup V /\ db'.anchors = db.anchors
      /\ db'.velocity = db.velocity /\ db'.pool = db.pool
      /\ db'.snapshot = db.snapshot /\ db'.accumulator = db.accumulator
      /\ db'.pin = db.pin /\ db'.marker = db.marker
  BY <1>1, Zenon DEF InsertNullifiers, IsDb
<1>6. /\ ~MarkerPending /\ ~WipePending /\ ~RemovalPending /\ InsertionPending
      /\ ~MarkerPending' /\ ~WipePending' /\ ~RemovalPending' /\ ~InsertionPending'
      /\ AnchorInsertionPending' <=> AnchorInsertionPending
      /\ AnchorRemovalPending' <=> AnchorRemovalPending
  BY <1>3, <1>4
     DEF MarkerPending, WipePending, RemovalPending, InsertionPending,
         AnchorInsertionPending, AnchorRemovalPending
<1>7. /\ Repairable(op.src, op.dst, db.nullifiers, db.anchors, strays)
      /\ db.nullifiers \cap U = {}
      /\ ~AnchorInsertionPending => AnchorsToInsert(op.src, op.dst) \subseteq db.anchors
      /\ ~AnchorRemovalPending => db.anchors \cap AnchorsToRemove(op.src, op.dst) = {}
  BY <1>1, <1>6, Zenon DEF IInv, StoresPhase
<1>8. Repairable(op.src, op.dst, db.nullifiers \cup V, db.anchors, strays)
  BY <1>7, RepairSteps, Zenon
<1>9. db.nullifiers \cup V = ((db.nullifiers \cup V) \ U) \cup V
  BY <1>7
<1>10. StoresPhase'
  BY <1>4, <1>5, <1>6, <1>7, <1>8, <1>9, Zenon DEF StoresPhase, InsertNullifiers
<1> QED
  BY <1>3, <1>5, <1>6, <1>8, <1>2, <1>10, StoreStep DEF Journaled

(* Removing the nullifiers of undone blocks keeps the invariant. *)
LEMMA RemoveNullifiersStep ==
    ASSUME IInv, RemoveNullifiers
    PROVE  IInv'
<1> DEFINE U == Gather(Nullifiers, Undone(op.src, op.dst))
           V == Gather(Nullifiers, Applied(op.src, op.dst))
<1>1. op.kind \in Running /\ OpOK /\ Head(op.todo) = "remove nullifiers" /\ IsDb(db)
  BY Zenon DEF RemoveNullifiers, Doing, Is, IInv, DisksOK, DbOK
<1>2. /\ Advance /\ Synced /\ coins' = coins /\ tip' = tip /\ mem' = mem
      /\ strays' = strays
  BY Zenon DEF RemoveNullifiers
<1>3. /\ \/ op.kind = "disconnect" /\ Left = 9
         \/ op.kind = "redo" /\ Left = 10
  BY <1>1, StepsLeft, Zenon DEF WritesLeft
<1>4. /\ op'.kind = op.kind /\ op'.src = op.src /\ op'.dst = op.dst /\ Left' = Left - 1
  <2>1. Left > 1
    BY <1>3
  <2> QED
    BY <1>1, <1>2, <2>1, AdvanceStep, Zenon
<1>5. /\ IsDb(db') /\ db'.nullifiers = db.nullifiers \ U /\ db'.anchors = db.anchors
      /\ db'.velocity = db.velocity /\ db'.pool = db.pool
      /\ db'.snapshot = db.snapshot /\ db'.accumulator = db.accumulator
      /\ db'.pin = db.pin /\ db'.marker = db.marker
  BY <1>1, Zenon DEF RemoveNullifiers, IsDb
<1>6. /\ ~MarkerPending /\ ~WipePending
      /\ ~MarkerPending' /\ ~WipePending' /\ ~RemovalPending'
      /\ InsertionPending' <=> op.kind = "redo"
      /\ AnchorInsertionPending' <=> AnchorInsertionPending
      /\ AnchorRemovalPending' <=> AnchorRemovalPending
  BY <1>3, <1>4
     DEF MarkerPending, WipePending, RemovalPending, InsertionPending,
         AnchorInsertionPending, AnchorRemovalPending
<1>7. /\ Repairable(op.src, op.dst, db.nullifiers, db.anchors, strays)
      /\ ~AnchorInsertionPending => AnchorsToInsert(op.src, op.dst) \subseteq db.anchors
      /\ ~AnchorRemovalPending => db.anchors \cap AnchorsToRemove(op.src, op.dst) = {}
  BY <1>1, <1>6, Zenon DEF IInv, StoresPhase
<1>8. Repairable(op.src, op.dst, db.nullifiers \ U, db.anchors, strays)
  BY <1>7, RepairSteps, Zenon
<1>9. (db.nullifiers \ U) \cap U = {}
  OBVIOUS
<1>10. op.kind = "disconnect" => db.nullifiers \ U = ((db.nullifiers \ U) \ U) \cup V
  <2>1. op.kind = "disconnect" => V = {}
    BY <1>1, OneBlockPath, Zenon DEF OpOK, Gather
  <2> QED
    BY <2>1
<1>11. StoresPhase'
  BY <1>3, <1>4, <1>5, <1>6, <1>7, <1>8, <1>9, <1>10, Zenon DEF StoresPhase, RemoveNullifiers
<1> QED
  BY <1>3, <1>5, <1>6, <1>8, <1>2, <1>11, StoreStep DEF Journaled

(* Inserting settlement anchors keeps the invariant. *)
LEMMA InsertAnchorsStep ==
    ASSUME IInv, InsertSettlementAnchors
    PROVE  IInv'
<1> DEFINE Ins == AnchorsToInsert(op.src, op.dst)
           Rem == AnchorsToRemove(op.src, op.dst)
<1>1. op.kind \in Running /\ OpOK /\ Head(op.todo) = "insert anchors" /\ IsDb(db)
  BY Zenon DEF InsertSettlementAnchors, Doing, Is, IInv, DisksOK, DbOK
<1>2. /\ Advance /\ Synced /\ coins' = coins /\ tip' = tip /\ mem' = mem
      /\ strays' = strays
  BY Zenon DEF InsertSettlementAnchors
<1>3. /\ \/ op.kind = "connect" /\ Left = 8
         \/ op.kind \in {"disconnect", "redo", "rebuild"} /\ Left = 7
  BY <1>1, StepsLeft, Zenon DEF WritesLeft
<1>4. /\ op'.kind = op.kind /\ op'.src = op.src /\ op'.dst = op.dst /\ Left' = Left - 1
  <2>1. Left > 1
    BY <1>3
  <2> QED
    BY <1>1, <1>2, <2>1, AdvanceStep, Zenon
<1>5. /\ IsDb(db') /\ db'.nullifiers = db.nullifiers /\ db'.anchors = db.anchors \cup Ins
      /\ db'.velocity = db.velocity /\ db'.pool = db.pool
      /\ db'.snapshot = db.snapshot /\ db'.accumulator = db.accumulator
      /\ db'.pin = db.pin /\ db'.marker = db.marker
  BY <1>1, Zenon DEF InsertSettlementAnchors, IsDb
<1>6. /\ ~MarkerPending /\ ~WipePending /\ ~MarkerPending' /\ ~WipePending'
      /\ RemovalPending' <=> RemovalPending
      /\ InsertionPending' <=> InsertionPending
      /\ AnchorRemovalPending' <=> AnchorRemovalPending
  BY <1>3, <1>4
     DEF MarkerPending, WipePending, RemovalPending, InsertionPending,
         AnchorRemovalPending
<1>7. Repairable(op.src, op.dst, db.nullifiers, db.anchors, strays)
  BY <1>1, <1>6, Zenon DEF IInv, StoresPhase
<1>8. Repairable(op.src, op.dst, db.nullifiers, db.anchors \cup Ins, strays) /\ Ins \cap Rem = {}
  BY <1>7, RepairSteps, Zenon
<1>9. ~AnchorRemovalPending => (db.anchors \cup Ins) \cap Rem = {}
  <2>1. ~AnchorRemovalPending => db.anchors \cap Rem = {}
    BY <1>1, <1>6, Zenon DEF IInv, StoresPhase
  <2> QED
    BY <1>8, <2>1
<1>10. StoresPhase'
  <2> HIDE DEF Ins, Rem
  <2>1. Ins = AnchorsToInsert(op.src, op.dst) /\ Rem = AnchorsToRemove(op.src, op.dst)
    BY DEF Ins, Rem
  <2> QED
    BY <1>1, <1>4, <1>5, <1>6, <1>8, <1>9, <2>1, Zenon
       DEF StoresPhase, InsertSettlementAnchors, IInv
<1> QED
  BY <1>3, <1>5, <1>6, <1>8, <1>2, <1>10, StoreStep DEF Journaled

(* Removing settlement anchors keeps the invariant. *)
LEMMA RemoveAnchorsStep ==
    ASSUME IInv, RemoveSettlementAnchors
    PROVE  IInv'
<1> DEFINE Ins == AnchorsToInsert(op.src, op.dst)
           Rem == AnchorsToRemove(op.src, op.dst)
<1>1. op.kind \in Running /\ OpOK /\ Head(op.todo) = "remove anchors" /\ IsDb(db)
  BY Zenon DEF RemoveSettlementAnchors, Doing, Is, IInv, DisksOK, DbOK
<1>2. /\ Advance /\ Synced /\ coins' = coins /\ tip' = tip /\ mem' = mem
      /\ strays' = strays
  BY Zenon DEF RemoveSettlementAnchors
<1>3. /\ \/ op.kind = "connect" /\ Left = 7
         \/ op.kind \in {"disconnect", "redo"} /\ Left = 8
  BY <1>1, StepsLeft, Zenon DEF WritesLeft
<1>4. /\ op'.kind = op.kind /\ op'.src = op.src /\ op'.dst = op.dst /\ Left' = Left - 1
  <2>1. Left > 1
    BY <1>3
  <2> QED
    BY <1>1, <1>2, <2>1, AdvanceStep, Zenon
<1>5. /\ IsDb(db') /\ db'.nullifiers = db.nullifiers /\ db'.anchors = db.anchors \ Rem
      /\ db'.velocity = db.velocity /\ db'.pool = db.pool
      /\ db'.snapshot = db.snapshot /\ db'.accumulator = db.accumulator
      /\ db'.pin = db.pin /\ db'.marker = db.marker
  BY <1>1, Zenon DEF RemoveSettlementAnchors, IsDb
<1>6. /\ ~MarkerPending /\ ~WipePending /\ ~MarkerPending' /\ ~WipePending'
      /\ RemovalPending' <=> RemovalPending
      /\ InsertionPending' <=> InsertionPending
      /\ AnchorInsertionPending' <=> AnchorInsertionPending
  BY <1>3, <1>4
     DEF MarkerPending, WipePending, RemovalPending, InsertionPending,
         AnchorInsertionPending
<1>7. Repairable(op.src, op.dst, db.nullifiers, db.anchors, strays)
  BY <1>1, <1>6, Zenon DEF IInv, StoresPhase
<1>8. Repairable(op.src, op.dst, db.nullifiers, db.anchors \ Rem, strays) /\ Ins \cap Rem = {}
  BY <1>7, RepairSteps, Zenon
<1>9. ~AnchorInsertionPending => Ins \subseteq db.anchors \ Rem
  <2>1. ~AnchorInsertionPending => Ins \subseteq db.anchors
    BY <1>1, <1>6, Zenon DEF IInv, StoresPhase
  <2> QED
    BY <1>8, <2>1
<1>10. StoresPhase'
  <2> HIDE DEF Ins, Rem
  <2>1. Ins = AnchorsToInsert(op.src, op.dst) /\ Rem = AnchorsToRemove(op.src, op.dst)
    BY DEF Ins, Rem
  <2>2. (db.anchors \ Rem) \cap Rem = {}
    OBVIOUS
  <2> QED
    BY <1>1, <1>4, <1>5, <1>6, <1>8, <1>9, <2>1, <2>2, Zenon
       DEF StoresPhase, RemoveSettlementAnchors, IInv
<1> QED
  BY <1>3, <1>5, <1>6, <1>8, <1>2, <1>10, StoreStep DEF Journaled

(* Once the nullifiers and the anchors are written, they are those of the   *)
(* target.                                                                  *)
LEMMA StoresDone ==
    ASSUME IInv, op.kind \in Running, Left <= 6
    PROVE  /\ Stores(op.dst, db.nullifiers, db.anchors, strays)
           /\ ~MarkerPending /\ ~WipePending /\ ~RemovalPending /\ ~InsertionPending
           /\ ~AnchorInsertionPending /\ ~AnchorRemovalPending
<1>1. Left \in Nat
  BY StepsLeft DEF IInv
<1>2. /\ ~MarkerPending /\ ~WipePending /\ ~RemovalPending /\ ~InsertionPending
      /\ ~AnchorInsertionPending /\ ~AnchorRemovalPending
  BY <1>1 DEF MarkerPending, WipePending, RemovalPending, InsertionPending,
              AnchorInsertionPending, AnchorRemovalPending
<1>3. /\ Repairable(op.src, op.dst, db.nullifiers, db.anchors, strays)
      /\ db.nullifiers = (db.nullifiers \ Gather(Nullifiers, Undone(op.src, op.dst)))
                             \cup Gather(Nullifiers, Applied(op.src, op.dst))
      /\ AnchorsToInsert(op.src, op.dst) \subseteq db.anchors
      /\ db.anchors \cap AnchorsToRemove(op.src, op.dst) = {}
  BY <1>2 DEF IInv, StoresPhase
<1>4. Stores(op.dst, db.nullifiers, db.anchors, strays)
  BY <1>3, RepairSteps, Zenon
<1> QED
  BY <1>2, <1>4

(* Writes to the velocity log and the pool. *)
LEMMA PoolStep ==
    ASSUME IInv, op.kind \in Journaled \cup {"rebuild"}, Left >= 5, Left <= 6,
           Advance, Synced, coins' = coins, tip' = tip, strays' = strays,
           IsMem(mem'), IsDb(db'),
           db'.nullifiers = db.nullifiers, db'.anchors = db.anchors,
           db'.snapshot = db.snapshot, db'.accumulator = db.accumulator,
           db'.pin = db.pin, db'.marker = db.marker,
           db'.pool = db.pool \/ db'.pool = PoolAt[op.dst],
           PoolPhase'
    PROVE  IInv'
<1>1. op.kind \in Running /\ OpOK
  BY DEF Journaled, Running, IInv
<1>2. Left \in Nat
  BY <1>1, StepsLeft
<1>3. /\ OpOK' /\ RestOK' /\ Left' = Left - 1
      /\ op'.kind = op.kind /\ op'.src = op.src /\ op'.dst = op.dst
  BY <1>1, <1>2, AdvanceStep
<1>4. /\ ~MarkerPending /\ ~WipePending /\ ~RemovalPending /\ ~InsertionPending
      /\ ~AnchorInsertionPending /\ ~AnchorRemovalPending
  BY <1>1, StoresDone
<1>5. /\ ~MarkerPending' /\ ~WipePending' /\ ~RemovalPending' /\ ~InsertionPending'
      /\ ~AnchorInsertionPending' /\ ~AnchorRemovalPending'
      /\ StatePending' /\ AccumulatorPending' /\ StatePending
  BY <1>2, <1>3
     DEF MarkerPending, WipePending, RemovalPending, InsertionPending,
         AnchorInsertionPending, AnchorRemovalPending, StatePending, AccumulatorPending
<1>6. /\ op.kind \in Journaled => /\ db.marker.prepared
                                  /\ db.marker.src = op.src /\ db.marker.dst = op.dst
      /\ op.kind = "rebuild" => db.marker = LegacyMarker(op.dst)
      /\ op.dst \in Block
  BY <1>1, <1>4 DEF IInv, MarkerPhase, OpOK, Good
<1>7. MarkerPhase'
  BY <1>3, <1>5, <1>6 DEF MarkerPhase
<1>8. DbOK(db', strays)
  <2>1. DbOK(db, strays)
    BY DEF IInv, DisksOK
  <2>2. SnapshotOK(db', strays) /\ PinOK(db', strays)
    BY <2>1 DEF DbOK, SnapshotOK, PinOK
  <2>3. MarkerOK(db', strays)
    BY <1>6, <2>1, MarkerFacts DEF DbOK, MarkerOK
  <2>4. WholeOK(db', strays)
    BY <1>6, MarkerFacts DEF WholeOK
  <2> QED
    BY <2>2, <2>3, <2>4 DEF DbOK
<1>9. DisksOK'
  BY <1>8 DEF DisksOK, Synced
<1>10. StoresPhase'
  BY <1>1, <1>3, <1>4, <1>5, Zenon DEF IInv, StoresPhase
<1>11. PersistPhase'
  BY <1>1, <1>3, <1>5 DEF IInv, PersistPhase
<1> QED
  BY <1>3, <1>7, <1>9, <1>10, <1>11 DEF IInv

(* What a restart loads for a right log, or for none, is a right log. *)
LEMMA LoadedLogOf ==
    ASSUME NEW log, NEW b, LogOf(log, b)
    PROVE  LogOf(Loaded(log), b)
  BY EmptyLogOf DEF Loaded

(* DisconnectBlock drops the entry of the block it undoes. *)
LEMMA DisconnectVelocityStep ==
    ASSUME IInv, DisconnectVelocity
    PROVE  IInv'
<1> DEFINE next == UndoBlock(mem.velocity, Height[op.src])
<1>1. /\ op.kind = "disconnect" /\ op.kind \in Running /\ OpOK /\ Head(op.todo) = "velocity"
      /\ IsDb(db) /\ IsMem(mem)
  BY DEF DisconnectVelocity, Doing, Is, IInv, DisksOK, DbOK, Running
<1>2. /\ db' = [db EXCEPT !.velocity = next] /\ mem' = [mem EXCEPT !.velocity = next]
      /\ Synced /\ Advance /\ coins' = coins /\ tip' = tip /\ strays' = strays
  BY DEF DisconnectVelocity
<1>3. Left = 5
  BY <1>1, StepsLeft, Zenon DEF WritesLeft
<1>4. op.src \in Block \ {Genesis} /\ op.dst = Parent[op.src]
  BY <1>1 DEF OpOK
<1>5. VelocityPending /\ ~PoolPending
  BY <1>1, <1>3 DEF VelocityPending, PoolPending
<1>6. /\ mem.tree = Chain[op.dst] /\ mem.pool = PoolAt[op.dst] /\ db.pool = PoolAt[op.dst]
      /\ LogOf(mem.velocity, op.src)
  BY <1>1, <1>5 DEF IInv, PoolPhase
<1>7. LogOf(next, op.dst)
  BY <1>4, <1>6, UndoLogOf
<1>8. LogOf(Loaded(next), op.dst)
  BY <1>7, LoadedLogOf
<1> HIDE DEF next
<1>9. /\ IsDb(db') /\ db'.nullifiers = db.nullifiers /\ db'.anchors = db.anchors
      /\ db'.velocity = next /\ db'.pool = db.pool
      /\ db'.snapshot = db.snapshot /\ db'.accumulator = db.accumulator
      /\ db'.pin = db.pin /\ db'.marker = db.marker
  BY <1>1, <1>2 DEF IsDb
<1>10. /\ IsMem(mem') /\ mem'.tree = mem.tree /\ mem'.pool = mem.pool
       /\ mem'.velocity = next
  BY <1>1, <1>2 DEF IsMem
<1>11. op'.kind = op.kind /\ op'.src = op.src /\ op'.dst = op.dst /\ Left' = Left - 1
  <2>1. Left > 1
    BY <1>3
  <2> QED
    BY <1>1, <1>2, <2>1, AdvanceStep
<1>12. ~VelocityPending' /\ ~PoolPending'
  BY <1>1, <1>3, <1>11 DEF VelocityPending, PoolPending
<1>13. PoolPhase'
  BY <1>1, <1>6, <1>7, <1>8, <1>9, <1>10, <1>11, <1>12 DEF PoolPhase
<1> QED
  BY <1>1, <1>2, <1>3, <1>9, <1>10, <1>13, PoolStep DEF Journaled

(* An empty database is a whole one, of no block. *)
LEMMA EmptyDbOK == \A S : DbOK(EmptyDb, S)
<1>1. /\ IsDb(EmptyDb) /\ EmptyDb.snapshot = NoSnapshot /\ EmptyDb.pin = NoPin
      /\ EmptyDb.marker = NoMarker
  BY Zenon DEF EmptyDb, IsDb
<1> QED
  BY <1>1, MarkerFacts DEF DbOK, SnapshotOK, PinOK, MarkerOK, WholeOK

(* A rebuild wipes the stores at once, markers included. *)
LEMMA WipeStoresStep ==
    ASSUME IInv, WipeStores
    PROVE  IInv'
<1>1. op.kind = "rebuild" /\ op.kind \in Running /\ OpOK /\ Head(op.todo) = "wipe"
  BY DEF WipeStores, Doing, Is, IInv, Running
<1>2. /\ db' = EmptyDb /\ mem' = mem
      /\ Synced /\ Advance /\ coins' = coins /\ tip' = tip /\ strays' = strays
  BY DEF WipeStores
<1>3. Left = 10
  BY <1>1, StepsLeft, Zenon DEF WritesLeft
<1>4. /\ OpOK' /\ RestOK' /\ op'.kind = op.kind /\ op'.src = op.src /\ op'.dst = op.dst
      /\ Left' = Left - 1
  <2>1. Left > 1
    BY <1>3
  <2> QED
    BY <1>1, <1>2, <2>1, AdvanceStep
<1>5. /\ MarkerPending' /\ ~WipePending' /\ PoolPending /\ PoolPending'
      /\ VelocityPending' /\ StatePending' /\ AccumulatorPending'
  BY <1>1, <1>3, <1>4
     DEF MarkerPending, WipePending, PoolPending, VelocityPending, StatePending,
         AccumulatorPending
<1>6. DisksOK'
  BY <1>2, EmptyDbOK DEF DisksOK, Synced
<1>7. MarkerPhase' /\ StoresPhase'
  BY <1>1, <1>2, <1>4, <1>5 DEF MarkerPhase, StoresPhase, Journaled
<1>8. PoolPhase'
  BY <1>1, <1>2, <1>4, <1>5, Zenon DEF IInv, PoolPhase
<1>9. PersistPhase'
  BY <1>1, <1>4, <1>5 DEF PersistPhase
<1> QED
  BY <1>2, <1>4, <1>6, <1>7, <1>8, <1>9 DEF IInv

(* What is true once only PersistShieldedState is left. *)
LEMMA PersistFacts ==
    ASSUME IInv, op.kind \in Running, Left <= 4
    PROVE  /\ DbAt(db, op.dst, strays) /\ MemAt(mem, op.dst)
           /\ op.dst \in Block /\ Good(op.dst, strays)
           /\ ~MarkerPending /\ ~WipePending /\ ~RemovalPending /\ ~InsertionPending
           /\ ~AnchorInsertionPending /\ ~AnchorRemovalPending
           /\ ~VelocityPending /\ ~PoolPending
<1>1. Left \in Nat
  BY StepsLeft DEF IInv
<1>2. ~VelocityPending /\ ~PoolPending
  BY <1>1 DEF VelocityPending, PoolPending
<1>3. /\ Stores(op.dst, db.nullifiers, db.anchors, strays)
      /\ ~MarkerPending /\ ~WipePending /\ ~RemovalPending /\ ~InsertionPending
      /\ ~AnchorInsertionPending /\ ~AnchorRemovalPending
  <2>1. Left <= 6
    BY <1>1
  <2> QED
    BY <2>1, StoresDone
<1>4. DbAt(db, op.dst, strays) /\ MemAt(mem, op.dst)
  BY <1>2, <1>3 DEF IInv, PoolPhase, DbAt, MemAt
<1> QED
  BY <1>2, <1>3, <1>4 DEF IInv, OpOK, Good

(* A write of PersistShieldedState. *)
LEMMA PersistStep ==
    ASSUME IInv, op.kind \in Running, Left <= 4, Left > 1,
           Advance, coins' = coins, tip' = tip, mem' = mem, strays' = strays,
           db'.nullifiers = db.nullifiers, db'.anchors = db.anchors,
           db'.velocity = db.velocity, db'.pool = db.pool, db'.marker = db.marker,
           DisksOK', PersistPhase'
    PROVE  IInv'
<1>1. OpOK
  BY DEF IInv
<1>2. Left \in Nat
  BY <1>1, StepsLeft
<1>3. /\ OpOK' /\ RestOK' /\ Left' = Left - 1
      /\ op'.kind = op.kind /\ op'.src = op.src /\ op'.dst = op.dst
  BY <1>1, <1>2, AdvanceStep
<1>4. /\ ~MarkerPending /\ ~WipePending /\ ~RemovalPending /\ ~InsertionPending
      /\ ~AnchorInsertionPending /\ ~AnchorRemovalPending
      /\ ~VelocityPending /\ ~PoolPending
  BY PersistFacts
<1>5. /\ ~MarkerPending' /\ ~WipePending' /\ ~RemovalPending' /\ ~InsertionPending'
      /\ ~AnchorInsertionPending' /\ ~AnchorRemovalPending'
      /\ ~VelocityPending' /\ ~PoolPending'
  BY <1>2, <1>3
     DEF MarkerPending, WipePending, RemovalPending, InsertionPending,
         AnchorInsertionPending, AnchorRemovalPending, VelocityPending, PoolPending
<1>6. MarkerPhase'
  BY <1>3, <1>4, <1>5 DEF IInv, MarkerPhase
<1>7. StoresPhase'
  BY <1>3, <1>4, <1>5, Zenon DEF IInv, StoresPhase
<1>8. PoolPhase'
  BY <1>3, <1>4, <1>5 DEF IInv, PoolPhase
<1> QED
  BY <1>3, <1>6, <1>7, <1>8 DEF IInv

(* The snapshot is written when the stores are those of the target. *)
LEMMA WritePersistedStateStep ==
    ASSUME IInv, WritePersistedState
    PROVE  IInv'
<1> DEFINE snapshot == [tip |-> op.dst, tree |-> mem.tree, pool |-> mem.pool]
<1>1. op.kind \in Running /\ OpOK /\ Head(op.todo) = "state" /\ IsDb(db)
  BY DEF WritePersistedState, Doing, Is, IInv, DisksOK, DbOK
<1>2. /\ db' = [db EXCEPT !.snapshot = snapshot] /\ mem' = mem
      /\ Synced /\ Advance /\ coins' = coins /\ tip' = tip /\ strays' = strays
  BY DEF WritePersistedState
<1>3. Left = 4 /\ StatePending
  <2>1. Left = 4
    BY <1>1, StepsLeft, Zenon DEF WritesLeft
  <2> QED
    BY <2>1 DEF StatePending
<1>4. /\ DbAt(db, op.dst, strays) /\ MemAt(mem, op.dst)
      /\ op.dst \in Block /\ Good(op.dst, strays) /\ ~MarkerPending
  BY <1>1, <1>3, PersistFacts
<1>5. /\ snapshot.tip = op.dst /\ snapshot.tree = Chain[op.dst]
      /\ snapshot.pool = PoolAt[op.dst]
  BY <1>4 DEF MemAt
<1> HIDE DEF snapshot
<1>6. /\ IsDb(db') /\ db'.nullifiers = db.nullifiers /\ db'.anchors = db.anchors
      /\ db'.velocity = db.velocity /\ db'.pool = db.pool
      /\ db'.snapshot = snapshot /\ db'.accumulator = db.accumulator
      /\ db'.pin = db.pin /\ db'.marker = db.marker
  BY <1>1, <1>2 DEF IsDb
<1>7. DbOK(db, strays)
  BY DEF IInv, DisksOK
<1>8. SnapshotOK(db', strays) /\ PinOK(db', strays)
  BY <1>4, <1>5, <1>6, <1>7, Zenon DEF DbOK, SnapshotOK, PinOK
<1>9. MarkerOK(db', strays)
  <2>1. db.pool = PoolAt[op.dst]
    BY <1>4 DEF DbAt
  <2> QED
    BY <1>5, <1>6, <1>7, <2>1 DEF DbOK, MarkerOK
<1>10. WholeOK(db', strays)
  <2>1. SUFFICES ASSUME db.marker = NoMarker
                 PROVE  /\ DbAt(db', op.dst, strays)
                        /\ db.accumulator = db.nullifiers \/ db.accumulator = None
    BY <1>5, <1>6 DEF WholeOK
  <2>2. DbAt(db', op.dst, strays)
    BY <1>4, <1>6 DEF DbAt
  <2>3. op.kind \in {"audit", "shutdown"}
    <3>1. ~(op.kind \in Journaled)
      BY <1>1, <1>4, <2>1, MarkerFacts DEF IInv, MarkerPhase
    <3>2. op.kind # "rebuild"
      BY <1>1, <1>4, <2>1, MarkerFacts DEF IInv, MarkerPhase
    <3> QED
      BY <1>1, <3>1, <3>2 DEF Journaled, Running
  <2>4. db.snapshot.tip = op.dst
    BY <1>1, <1>3, <2>3 DEF IInv, PersistPhase, OpOK
  <2>5. db.snapshot # NoSnapshot
    BY <1>4, <2>4, SnapshotFacts
  <2> QED
    BY <1>7, <2>1, <2>2, <2>5 DEF DbOK, WholeOK
<1>11. DisksOK'
  BY <1>2, <1>6, <1>8, <1>9, <1>10 DEF DisksOK, DbOK, Synced
<1>12. op'.kind = op.kind /\ op'.src = op.src /\ op'.dst = op.dst /\ Left' = 3
  <2>1. Left > 1
    BY <1>3
  <2>2. op'.kind = op.kind /\ op'.src = op.src /\ op'.dst = op.dst /\ Left' = Left - 1
    BY <1>1, <1>2, <2>1, AdvanceStep
  <2> QED
    BY <1>3, <2>2
<1>13. PersistPhase'
  <2>1. AccumulatorPending' /\ ~StatePending'
    BY <1>12 DEF AccumulatorPending, StatePending
  <2> QED
    BY <1>5, <1>6, <1>12, <2>1 DEF PersistPhase
<1>14. Left <= 4 /\ Left > 1
  BY <1>3
<1> QED
  BY <1>1, <1>2, <1>6, <1>11, <1>13, <1>14, PersistStep

(* The disks a power loss may find after a write that is not synced. *)
LEMMA UnsyncedDisks ==
    ASSUME DisksOK, Unsynced, DbOK(db', strays), strays' = strays,
           db.snapshot # NoSnapshot
    PROVE  DisksOK'
  BY DEF DisksOK, Unsynced

(* The accumulator is written beside whole stores. *)
LEMMA PersistNullifierAccumulatorStep ==
    ASSUME IInv, PersistNullifierAccumulator
    PROVE  IInv'
<1>1. op.kind \in Running /\ OpOK /\ Head(op.todo) = "accumulator" /\ IsDb(db)
  BY DEF PersistNullifierAccumulator, Doing, Is, IInv, DisksOK, DbOK
<1>2. /\ db' = [db EXCEPT !.accumulator = db.nullifiers] /\ mem' = mem
      /\ Unsynced /\ Advance /\ coins' = coins /\ tip' = tip /\ strays' = strays
  BY DEF PersistNullifierAccumulator
<1>3. Left = 3 /\ ~StatePending
  <2>1. Left = 3
    BY <1>1, StepsLeft, Zenon DEF WritesLeft
  <2> QED
    BY <2>1 DEF StatePending
<1>4. op.dst \in Block
  BY <1>1, <1>3, PersistFacts
<1>5. db.snapshot.tip = op.dst /\ db.snapshot # NoSnapshot
  <2>1. db.snapshot.tip = op.dst
    BY <1>1, <1>3 DEF IInv, PersistPhase
  <2> QED
    BY <1>4, <2>1, SnapshotFacts
<1>6. /\ IsDb(db') /\ db'.nullifiers = db.nullifiers /\ db'.anchors = db.anchors
      /\ db'.velocity = db.velocity /\ db'.pool = db.pool
      /\ db'.snapshot = db.snapshot /\ db'.accumulator = db.nullifiers
      /\ db'.pin = db.pin /\ db'.marker = db.marker
  BY <1>1, <1>2 DEF IsDb
<1>7. DbOK(db', strays)
  <2>1. DbOK(db, strays)
    BY DEF IInv, DisksOK
  <2> QED
    BY <1>6, <2>1, Zenon DEF DbOK, SnapshotOK, PinOK, MarkerOK, WholeOK, DbAt
<1>8. DisksOK'
  BY <1>2, <1>5, <1>7, UnsyncedDisks DEF IInv
<1>9. op'.kind = op.kind /\ op'.src = op.src /\ op'.dst = op.dst /\ Left' = 2
  <2>1. Left > 1
    BY <1>3
  <2>2. op'.kind = op.kind /\ op'.src = op.src /\ op'.dst = op.dst /\ Left' = Left - 1
    BY <1>1, <1>2, <2>1, AdvanceStep
  <2> QED
    BY <1>3, <2>2
<1>10. PersistPhase'
  <2>1. ~StatePending'
    BY <1>9 DEF StatePending
  <2> QED
    BY <1>5, <1>6, <1>9, <2>1 DEF PersistPhase
<1>11. Left <= 4 /\ Left > 1
  BY <1>3
<1> QED
  BY <1>1, <1>2, <1>6, <1>8, <1>10, <1>11, PersistStep

(* The pin is written beside whole stores. *)
LEMMA PersistShieldedStatePinStep ==
    ASSUME IInv, PersistShieldedStatePin
    PROVE  IInv'
<1> DEFINE pin == StatePin(mem)
<1>1. op.kind \in Running /\ OpOK /\ Head(op.todo) = "pin" /\ IsDb(db)
  BY DEF PersistShieldedStatePin, Doing, Is, IInv, DisksOK, DbOK
<1>2. /\ db' = [db EXCEPT !.pin = pin] /\ mem' = mem
      /\ Unsynced /\ Advance /\ coins' = coins /\ tip' = tip /\ strays' = strays
  BY DEF PersistShieldedStatePin
<1>3. Left = 2 /\ ~StatePending /\ ~AccumulatorPending
  <2>1. Left = 2
    BY <1>1, StepsLeft, Zenon DEF WritesLeft
  <2> QED
    BY <2>1 DEF StatePending, AccumulatorPending
<1>4. DbAt(db, op.dst, strays) /\ MemAt(mem, op.dst) /\ op.dst \in Block
  BY <1>1, <1>3, PersistFacts
<1>5. db.snapshot.tip = op.dst /\ db.snapshot # NoSnapshot /\ db.accumulator = db.nullifiers
  <2>1. db.snapshot.tip = op.dst /\ db.accumulator = db.nullifiers
    BY <1>1, <1>3 DEF IInv, PersistPhase
  <2> QED
    BY <1>4, <2>1, SnapshotFacts
<1>6. /\ pin.tree = Chain[op.dst] /\ pin.pool = PoolAt[op.dst] /\ LogOf(pin.velocity, op.dst)
      /\ Stores(op.dst, pin.nullifiers, pin.anchors, strays)
  BY <1>4 DEF StatePin, MemAt, DbAt
<1> HIDE DEF pin
<1>7. /\ IsDb(db') /\ db'.nullifiers = db.nullifiers /\ db'.anchors = db.anchors
      /\ db'.velocity = db.velocity /\ db'.pool = db.pool
      /\ db'.snapshot = db.snapshot /\ db'.accumulator = db.accumulator
      /\ db'.pin = pin /\ db'.marker = db.marker
  BY <1>1, <1>2 DEF IsDb
<1>8. DbOK(db', strays)
  <2>1. DbOK(db, strays)
    BY DEF IInv, DisksOK
  <2>2. PinOK(db', strays)
    BY <1>4, <1>6, <1>7 DEF PinOK
  <2> QED
    BY <1>7, <2>1, <2>2, Zenon DEF DbOK, SnapshotOK, MarkerOK, WholeOK, DbAt
<1>9. DisksOK'
  BY <1>2, <1>5, <1>8, UnsyncedDisks DEF IInv
<1>10. op'.kind = op.kind /\ op'.src = op.src /\ op'.dst = op.dst /\ Left' = 1
  <2>1. Left > 1
    BY <1>3
  <2>2. op'.kind = op.kind /\ op'.src = op.src /\ op'.dst = op.dst /\ Left' = Left - 1
    BY <1>1, <1>2, <2>1, AdvanceStep
  <2> QED
    BY <1>3, <2>2
<1>11. PersistPhase'
  <2>1. ~StatePending'
    BY <1>10 DEF StatePending
  <2> QED
    BY <1>5, <1>7, <1>10, <2>1 DEF PersistPhase
<1>12. Left <= 4 /\ Left > 1
  BY <1>3
<1> QED
  BY <1>1, <1>2, <1>7, <1>9, <1>11, <1>12, PersistStep

(* The marker goes when all is of the target, and the operation ends. *)
LEMMA ClearMutationMarkerStep ==
    ASSUME IInv, ClearMutationMarker
    PROVE  IInv'
<1>1. op.kind \in Running /\ OpOK /\ Head(op.todo) = "clear" /\ IsDb(db) /\ IsMem(mem)
  BY DEF ClearMutationMarker, Doing, Is, IInv, DisksOK, DbOK
<1>2. /\ db' = [db EXCEPT !.marker = NoMarker] /\ tip' = op.dst
      /\ op' = At(IF Is({"shutdown"}) THEN "down" ELSE "idle")
      /\ mem' = IF Is({"shutdown"}) THEN NoMem ELSE [mem EXCEPT !.sealed = TRUE]
      /\ Synced \/ Unsynced
      /\ coins' = coins /\ strays' = strays
  BY DEF ClearMutationMarker
<1>3. Left = 1 /\ ~StatePending /\ ~AccumulatorPending
  <2>1. Left = 1
    BY <1>1, StepsLeft, Zenon DEF WritesLeft
  <2> QED
    BY <2>1 DEF StatePending, AccumulatorPending
<1>4. DbAt(db, op.dst, strays) /\ MemAt(mem, op.dst) /\ op.dst \in Block /\ Good(op.dst, strays)
  BY <1>1, <1>3, PersistFacts
<1>5. db.snapshot.tip = op.dst /\ db.snapshot # NoSnapshot /\ db.accumulator = db.nullifiers
  <2>1. db.snapshot.tip = op.dst /\ db.accumulator = db.nullifiers
    BY <1>1, <1>3 DEF IInv, PersistPhase
  <2> QED
    BY <1>4, <2>1, SnapshotFacts
<1>6. /\ IsDb(db') /\ db'.nullifiers = db.nullifiers /\ db'.anchors = db.anchors
      /\ db'.velocity = db.velocity /\ db'.pool = db.pool
      /\ db'.snapshot = db.snapshot /\ db'.accumulator = db.accumulator
      /\ db'.pin = db.pin /\ db'.marker = NoMarker
  BY <1>1, <1>2 DEF IsDb
<1>7. DbAt(db', op.dst, strays)
  BY <1>4, <1>6 DEF DbAt
<1>8. DbOK(db', strays)
  <2>1. DbOK(db, strays)
    BY DEF IInv, DisksOK
  <2>2. WholeOK(db', strays)
    BY <1>5, <1>6, <1>7 DEF WholeOK
  <2>3. MarkerOK(db', strays)
    BY <1>6, MarkerFacts DEF MarkerOK
  <2> QED
    BY <1>6, <2>1, <2>2, <2>3 DEF DbOK, SnapshotOK, PinOK
<1>9. DisksOK'
  <2>1. CASE Synced
    BY <1>2, <1>8, <2>1 DEF DisksOK, Synced
  <2>2. CASE Unsynced
    BY <1>2, <1>5, <1>8, <2>2, UnsyncedDisks DEF IInv
  <2> QED
    BY <1>2, <2>1, <2>2
<1>10. /\ IsMem(mem')
       /\ op.kind # "shutdown" => MemAt(mem', op.dst)
  <2>1. CASE op.kind = "shutdown"
    BY <1>2, <2>1 DEF Is, NoMem, IsMem
  <2>2. CASE op.kind # "shutdown"
    <3>1. mem' = [mem EXCEPT !.sealed = TRUE]
      BY <1>2, <2>2 DEF Is
    <3>2. mem'.tree = mem.tree /\ mem'.pool = mem.pool /\ mem'.velocity = mem.velocity
          /\ IsMem(mem')
      BY <1>1, <3>1, Zenon DEF IsMem
    <3> QED
      BY <1>4, <3>2 DEF MemAt
  <2> QED
    BY <2>1, <2>2
<1>11. /\ op'.kind = IF op.kind = "shutdown" THEN "down" ELSE "idle"
       /\ OpOK'
  BY <1>2 DEF OpOK, At, Task, IsOp, Running, Is
<1>12. RestOK'
  BY <1>2, <1>5, <1>6, <1>7, <1>10, <1>11 DEF RestOK, SettledAt
<1>13. op'.kind \notin Running
  BY <1>11 DEF Running
<1> QED
  BY <1>2, <1>4, <1>9, <1>10, <1>11, <1>12, <1>13
     DEF IInv, MarkerPhase, StoresPhase, PoolPhase, PersistPhase
-----------------------------------------------------------------------------
(* What begins an operation, and what ends one, preserves the invariant.    *)

(* Every program is the end of itself. *)
LEMMA WholeProgram ==
    ASSUME NEW program \in Seq(Steps)
    PROVE  Suffix(program, program)
<1>1. Len(program) \in Nat
  OBVIOUS
<1>2. \A i \in 1..Len(program) : Len(program) - Len(program) + i = i
  BY <1>1
<1> QED
  BY <1>1, <1>2 DEF Suffix

(* The programs, and the end of one that a resumed transition starts with. *)
LEMMA Programs ==
    /\ Suffix(ConnectWrites, Program("connect"))
    /\ ConnectWrites # <<>> /\ Len(ConnectWrites) = 10
    /\ Suffix(DisconnectWrites, Program("disconnect"))
    /\ DisconnectWrites # <<>> /\ Len(DisconnectWrites) = 10
    /\ Suffix(RebuildWrites, Program("rebuild"))
    /\ RebuildWrites # <<>> /\ Len(RebuildWrites) = 10
    /\ Suffix(PersistWrites, Program("audit")) /\ Suffix(PersistWrites, Program("shutdown"))
    /\ PersistWrites # <<>> /\ Len(PersistWrites) = 4
    /\ Suffix(<<"marker">> \o RedoWrites, Program("redo"))
    /\ <<"marker">> \o RedoWrites # <<>> /\ Len(<<"marker">> \o RedoWrites) = 11
    /\ Suffix(RedoWrites, Program("redo"))
    /\ RedoWrites # <<>> /\ Len(RedoWrites) = 10
<1> DEFINE connect == <<"marker", "insert nullifiers", "insert anchors", "remove anchors",
                        "velocity", "pool">>
           disconnect == <<"marker", "remove nullifiers", "remove anchors",
                           "insert anchors", "pool", "velocity">>
           redo == <<"remove nullifiers", "insert nullifiers", "remove anchors",
                     "insert anchors", "velocity", "pool">>
           rebuild == <<"wipe", "marker", "insert nullifiers", "insert anchors", "pool",
                        "velocity">>
           one == <<"marker">>
<1>1. PersistWrites \in Seq(Steps) /\ Len(PersistWrites) = 4
  BY DEF PersistWrites, Steps
<1>2. /\ connect \in Seq(Steps) /\ Len(connect) = 6
      /\ disconnect \in Seq(Steps) /\ Len(disconnect) = 6
      /\ redo \in Seq(Steps) /\ Len(redo) = 6
      /\ rebuild \in Seq(Steps) /\ Len(rebuild) = 6
      /\ one \in Seq(Steps) /\ Len(one) = 1
  BY DEF Steps
<1>3. /\ ConnectWrites = connect \o PersistWrites
      /\ DisconnectWrites = disconnect \o PersistWrites
      /\ RedoWrites = redo \o PersistWrites
      /\ RebuildWrites = rebuild \o PersistWrites
  BY DEF ConnectWrites, DisconnectWrites, RedoWrites, RebuildWrites
<1>4. <<"marker">> \o RedoWrites = one \o RedoWrites
  OBVIOUS
<1> HIDE DEF connect, disconnect, redo, rebuild, one
<1>5. ASSUME NEW s \in Seq(Steps), Len(s) = 6
      PROVE  s \o PersistWrites \in Seq(Steps) /\ Len(s \o PersistWrites) = 10
  <2>1. /\ s \o PersistWrites \in Seq(Steps)
        /\ Len(s \o PersistWrites) = Len(s) + Len(PersistWrites)
    BY <1>1, Concatenation, Zenon
  <2> QED
    BY <1>1, <1>5, <2>1
<1>6. /\ ConnectWrites \in Seq(Steps) /\ Len(ConnectWrites) = 10
      /\ DisconnectWrites \in Seq(Steps) /\ Len(DisconnectWrites) = 10
      /\ RedoWrites \in Seq(Steps) /\ Len(RedoWrites) = 10
      /\ RebuildWrites \in Seq(Steps) /\ Len(RebuildWrites) = 10
  BY <1>2, <1>3, <1>5
<1> DEFINE bridge == <<"marker">> \o RedoWrites
<1>7. bridge \in Seq(Steps) /\ Len(bridge) = 11
      /\ \A i \in 1..10 : bridge[i + 1] = RedoWrites[i]
  <2>1. /\ one \o RedoWrites \in Seq(Steps)
        /\ Len(one \o RedoWrites) = Len(one) + Len(RedoWrites)
        /\ \A i \in 1 .. Len(one) + Len(RedoWrites) :
             (one \o RedoWrites)[i]
               = IF i <= Len(one) THEN one[i] ELSE RedoWrites[i - Len(one)]
    BY <1>2, <1>6, Concatenation, Zenon
  <2>2. ASSUME NEW i \in 1..10
        PROVE  (one \o RedoWrites)[i + 1] = RedoWrites[i]
    <3>1. i + 1 \in 1 .. Len(one) + Len(RedoWrites) /\ ~(i + 1 <= Len(one))
          /\ i + 1 - Len(one) = i
      BY <1>2, <1>6
    <3> QED
      BY <2>1, <3>1
  <2>3. bridge = one \o RedoWrites
    BY <1>4
  <2> HIDE DEF bridge
  <2>4. bridge \in Seq(Steps) /\ Len(bridge) = 11
    BY <1>2, <1>6, <2>1, <2>3
  <2> QED
    BY <2>2, <2>3, <2>4
<1> HIDE DEF bridge
<1>8. Suffix(RedoWrites, bridge)
  <2>1. \A i \in 1..Len(RedoWrites) : Len(bridge) - Len(RedoWrites) + i = i + 1
    BY <1>6, <1>7
  <2> QED
    BY <1>6, <1>7, <2>1 DEF Suffix
<1>9. /\ Program("connect") = ConnectWrites /\ Program("disconnect") = DisconnectWrites
      /\ Program("redo") = bridge /\ Program("rebuild") = RebuildWrites
      /\ Program("audit") = PersistWrites /\ Program("shutdown") = PersistWrites
  BY DEF Program, bridge
<1>10. ASSUME NEW s \in Seq(Steps), Len(s) > 0
       PROVE  s # <<>>
  <2>1. s = <<>> => Len(s) = 0
    OBVIOUS
  <2> QED
    BY <1>10, <2>1
<1>11. /\ ConnectWrites # <<>> /\ DisconnectWrites # <<>> /\ RedoWrites # <<>>
       /\ RebuildWrites # <<>> /\ PersistWrites # <<>> /\ bridge # <<>>
  <2>1. /\ Len(ConnectWrites) > 0 /\ Len(DisconnectWrites) > 0 /\ Len(RedoWrites) > 0
        /\ Len(RebuildWrites) > 0 /\ Len(PersistWrites) > 0 /\ Len(bridge) > 0
    BY <1>1, <1>6, <1>7
  <2> QED
    BY <1>1, <1>6, <1>7, <1>10, <2>1, Zenon
<1>12. /\ Suffix(ConnectWrites, ConnectWrites) /\ Suffix(DisconnectWrites, DisconnectWrites)
       /\ Suffix(RebuildWrites, RebuildWrites) /\ Suffix(PersistWrites, PersistWrites)
       /\ Suffix(bridge, bridge)
  BY <1>1, <1>6, <1>7, WholeProgram
<1>13. <<"marker">> \o RedoWrites = bridge
  BY DEF bridge
<1> QED
  BY <1>1, <1>6, <1>7, <1>8, <1>9, <1>11, <1>12, <1>13, Zenon

(* Nothing is under way. *)
LEMMA AtRest ==
    ASSUME op'.kind \notin Running
    PROVE  MarkerPhase' /\ StoresPhase' /\ PoolPhase' /\ PersistPhase'
  BY Zenon DEF MarkerPhase, StoresPhase, PoolPhase, PersistPhase

(* A journaled operation begins at a block that all the stores are of. *)
LEMMA BeginJournaled ==
    ASSUME op'.kind \in Journaled, Left' = IF op'.kind = "redo" THEN 11 ELSE 10,
           (SettledAt(op.src))'
    PROVE  MarkerPhase' /\ StoresPhase' /\ PoolPhase' /\ PersistPhase'
<1>1. /\ MarkerPending' /\ ~WipePending' /\ PoolPending' /\ VelocityPending'
      /\ StatePending' /\ AccumulatorPending'
      /\ op'.kind # "rebuild" /\ op'.kind \notin {"audit", "shutdown"}
  BY DEF MarkerPending, WipePending, PoolPending, VelocityPending, StatePending,
         AccumulatorPending, Journaled
<1>2. MarkerPhase' /\ StoresPhase'
  BY <1>1, Zenon DEF MarkerPhase, StoresPhase
<1>3. PoolPhase'
  BY <1>1 DEF PoolPhase, SettledAt, MemAt, DbAt
<1>4. PersistPhase'
  BY <1>1 DEF PersistPhase, SettledAt
<1> QED
  BY <1>2, <1>3, <1>4

(* A PersistShieldedState on its own. *)
LEMMA BeginPersist ==
    ASSUME op'.kind \in {"audit", "shutdown"}, Left' = 4,
           op'.src = op'.dst, op'.src \in Block,
           (SettledAt(op.src))'
    PROVE  MarkerPhase' /\ StoresPhase' /\ PoolPhase' /\ PersistPhase'
<1> DEFINE b == op'.src
           n == db'.nullifiers
           a == db'.anchors
<1>1. /\ ~MarkerPending' /\ ~WipePending' /\ ~PoolPending' /\ ~VelocityPending'
      /\ ~RemovalPending' /\ ~InsertionPending' /\ StatePending' /\ AccumulatorPending'
      /\ op'.kind # "rebuild" /\ op'.kind \notin Journaled
  BY DEF MarkerPending, WipePending, PoolPending, VelocityPending, StatePending,
         AccumulatorPending, RemovalPending, InsertionPending, Journaled
<1>2. MemAt(mem', b) /\ DbAt(db', b, strays') /\ db'.snapshot.tip = b
  BY DEF SettledAt, MemAt, DbAt
<1>3. MarkerPhase'
  BY <1>1 DEF MarkerPhase
<1>4. /\ Repairable(b, b, n, a, strays')
      /\ Gather(Nullifiers, Undone(b, b)) = {} /\ Gather(Nullifiers, Applied(b, b)) = {}
      /\ AnchorsToInsert(b, b) = {} /\ AnchorsToRemove(b, b) = {}
  BY <1>2, StayRepairable, Zenon DEF DbAt
<1>5. StoresPhase'
  BY <1>1, <1>4, Zenon DEF StoresPhase
<1>6. PoolPhase'
  BY <1>1, <1>2, Zenon DEF PoolPhase, MemAt, DbAt
<1>7. PersistPhase'
  BY <1>1, <1>2, Zenon DEF PersistPhase
<1> QED
  BY <1>3, <1>5, <1>6, <1>7

(* ConnectBlock's checks keep the invariant, whatever they decide. *)
LEMMA ConnectBlockStep ==
    ASSUME IInv, NEW b \in Block, ConnectBlock(b)
    PROVE  IInv'
<1>1. /\ op.kind = "idle" /\ b \in Block \ {Genesis} /\ Parent[b] = tip
      /\ db' = db /\ unsynced' = unsynced /\ coins' = coins /\ pruned' = pruned
      /\ tip' = tip /\ mem' = mem /\ strays' = strays
  BY DEF ConnectBlock, Is
<1>2. SettledAt(tip) /\ DisksOK
  BY <1>1 DEF IInv, RestOK
<1>3. CASE Refutes(b)
  <2>1. op' = op
    BY <1>3 DEF ConnectBlock
  <2>2. op'.kind \notin Running
    BY <1>1, <2>1 DEF Running
  <2>3. OpOK' /\ RestOK'
    BY <1>1, <1>2, <2>1, Zenon DEF IInv, OpOK, RestOK, SettledAt, Running
  <2> QED
    BY <1>1, <2>2, <2>3, AtRest DEF IInv, DisksOK
<1>4. CASE ~Refutes(b)
  <2>1. op' = Task("connect", tip, b, ConnectWrites, FALSE)
    BY <1>4 DEF ConnectBlock
  <2>2. /\ op'.kind = "connect" /\ op'.src = tip /\ op'.dst = b /\ op'.todo = ConnectWrites
        /\ IsOp(op')
    BY <2>1 DEF Task, IsOp
  <2>3. Good(b, strays)
    <3>1. Stores(Parent[b], db.nullifiers, db.anchors, strays)
      BY <1>1, <1>2 DEF SettledAt, DbAt
    <3>2. Sound(b, strays)
      BY <1>1, <1>4, <3>1, NotRefuted DEF Refutes
    <3> QED
      BY <1>1, <3>2, GoodParent DEF IInv
  <2>4. OpOK'
    BY <1>1, <2>2, <2>3, Programs, Zenon DEF OpOK, Running
  <2>5. Left' = 10
    BY <2>2, Programs DEF Left
  <2>6. (SettledAt(op.src))'
    BY <1>1, <1>2, <2>2, Zenon DEF SettledAt
  <2>7. RestOK'
    BY <2>2 DEF RestOK
  <2>8. op'.kind \in Journaled /\ op'.kind # "redo"
    BY <2>2 DEF Journaled
  <2> QED
    BY <1>1, <2>4, <2>5, <2>6, <2>7, <2>8, BeginJournaled DEF IInv, DisksOK
<1> QED
  BY <1>3, <1>4

(* The start of a disconnect keeps the invariant. *)
LEMMA DisconnectBlockStep ==
    ASSUME IInv, DisconnectBlock
    PROVE  IInv'
<1>1. /\ op.kind = "idle" /\ tip # Genesis
      /\ op' = Task("disconnect", tip, Parent[tip], DisconnectWrites, FALSE)
      /\ db' = db /\ unsynced' = unsynced /\ coins' = coins /\ pruned' = pruned
      /\ tip' = tip /\ mem' = mem /\ strays' = strays
  BY DEF DisconnectBlock, Is
<1>2. SettledAt(tip) /\ Good(tip, strays) /\ tip \in Block \ {Genesis}
  BY <1>1 DEF IInv, RestOK, Good
<1>3. /\ op'.kind = "disconnect" /\ op'.src = tip /\ op'.dst = Parent[tip]
      /\ op'.todo = DisconnectWrites /\ IsOp(op')
  BY <1>1 DEF Task, IsOp
<1>4. Good(Parent[tip], strays)
  BY <1>2, GoodParent
<1>5. OpOK'
  BY <1>1, <1>2, <1>3, <1>4, Programs, Zenon DEF OpOK, Running
<1>6. Left' = 10
  BY <1>3, Programs DEF Left
<1>7. (SettledAt(op.src))'
  BY <1>1, <1>2, <1>3, Zenon DEF SettledAt
<1>8. RestOK'
  BY <1>3 DEF RestOK
<1>9. op'.kind \in Journaled /\ op'.kind # "redo"
  BY <1>3 DEF Journaled
<1> QED
  BY <1>1, <1>5, <1>6, <1>7, <1>8, <1>9, BeginJournaled, Zenon DEF IInv, DisksOK

(* An operation that has ended. *)
LEMMA AtOK ==
    ASSUME NEW kind, kind \notin Running, op' = At(kind)
    PROVE  OpOK' /\ op'.kind = kind
<1>1. op'.kind = kind /\ op'.todo = <<>> /\ IsOp(op')
  BY DEF At, Task, IsOp
<1> QED
  BY <1>1 DEF OpOK, Running

(* The index goes to disk, for a flush or for a shutdown. *)
LEMMA WriteIndexStep ==
    ASSUME IInv, NEW kind \in {"flush", "stop"}, op.kind = "idle", op' = At(kind),
           db' = db, unsynced' = unsynced, coins' = coins, tip' = tip, mem' = mem,
           strays' = strays
    PROVE  IInv'
<1>1. kind \notin Running
  BY DEF Running
<1>2. OpOK' /\ op'.kind = kind
  BY <1>1, AtOK
<1>3. SettledAt(tip)
  BY DEF IInv, RestOK
<1>4. RestOK'
  BY <1>2, <1>3 DEF RestOK, SettledAt
<1>5. DisksOK'
  BY Zenon DEF IInv, DisksOK
<1> QED
  BY <1>1, <1>2, <1>4, <1>5, AtRest DEF IInv

LEMMA FlushStateToDiskStep ==
    ASSUME IInv, NEW h, FlushStateToDisk(h)
    PROVE  IInv'
  BY WriteIndexStep DEF FlushStateToDisk, Is

LEMMA ShutdownStep ==
    ASSUME IInv, Shutdown
    PROVE  IInv'
  BY WriteIndexStep DEF Shutdown, Is

(* The coins catch up with the tip; a shutdown ends at once or persists the *)
(* state first.                                                             *)
LEMMA FlushCoinsStep ==
    ASSUME IInv, FlushCoins
    PROVE  IInv'
<1>1. /\ op.kind \in {"flush", "stop"} /\ coins' = tip /\ db' = db /\ tip' = tip
      /\ strays' = strays /\ (unsynced' = unsynced \/ Synced)
  BY Zenon DEF FlushCoins, Is
<1>2. SettledAt(tip) /\ Good(tip, strays) /\ tip \in Block
  BY <1>1 DEF IInv, RestOK, Good
<1>3. DisksOK'
  BY <1>1 DEF IInv, DisksOK, Synced
<1>4. CASE op' = At("idle") /\ mem' = mem
  <2>1. "idle" \notin Running
    BY DEF Running
  <2>2. OpOK' /\ op'.kind = "idle"
    BY <1>4, <2>1, AtOK
  <2>3. RestOK'
    BY <1>1, <1>2, <1>4, <2>2 DEF RestOK, SettledAt
  <2> QED
    BY <1>1, <1>2, <1>3, <1>4, <2>1, <2>2, <2>3, AtRest DEF IInv
<1>5. CASE op' = At("down") /\ mem' = NoMem
  <2>1. "down" \notin Running
    BY DEF Running
  <2>2. OpOK' /\ op'.kind = "down"
    BY <1>5, <2>1, AtOK
  <2>3. RestOK' /\ IsMem(mem')
    BY <1>5, <2>2 DEF RestOK, NoMem, IsMem
  <2> QED
    BY <1>1, <1>2, <1>3, <2>1, <2>2, <2>3, AtRest DEF IInv
<1>6. CASE op' = Task("shutdown", tip, tip, PersistWrites, FALSE) /\ mem' = mem
  <2>1. /\ op'.kind = "shutdown" /\ op'.src = tip /\ op'.dst = tip
        /\ op'.todo = PersistWrites /\ IsOp(op')
    BY <1>6 DEF Task, IsOp
  <2>2. OpOK'
    BY <1>1, <1>2, <2>1, Programs, Zenon DEF OpOK, Running
  <2>3. Left' = 4
    BY <2>1, Programs DEF Left
  <2>4. (SettledAt(op.src))'
    BY <1>1, <1>2, <1>6, <2>1, Zenon DEF SettledAt
  <2>5. RestOK'
    BY <2>1 DEF RestOK
  <2> QED
    BY <1>1, <1>2, <1>3, <1>6, <2>1, <2>2, <2>3, <2>4, <2>5, BeginPersist, Zenon DEF IInv
<1> QED
  BY <1>4, <1>5, <1>6, Zenon DEF FlushCoins

(* A crash takes back any of the unsynced writes. *)
LEMMA CrashStep ==
    ASSUME IInv, Crash
    PROVE  IInv'
<1>1. /\ op' = At("down") /\ mem' = NoMem /\ tip' = coins /\ coins' = coins
      /\ db' \in {db} \cup unsynced /\ unsynced' = {} /\ strays' = strays
  BY DEF Crash, Synced
<1>2. "down" \notin Running
  BY DEF Running
<1>3. OpOK' /\ op'.kind = "down"
  BY <1>1, <1>2, AtOK
<1>4. RestOK' /\ IsMem(mem')
  BY <1>1, <1>3 DEF RestOK, NoMem, IsMem
<1>5. DisksOK'
  BY <1>1 DEF IInv, DisksOK
<1> QED
  BY <1>1, <1>2, <1>3, <1>4, <1>5, AtRest DEF IInv

(* A restart resumes a prepared transition from its target values. *)
LEMMA RestorePreparedTransitionStep ==
    ASSUME IInv, RestorePreparedTransition
    PROVE  IInv'
<1>1. /\ op' = Task("redo", db.marker.src, tip, RedoWrites, TRUE)
      /\ db.marker.prepared /\ db.marker.dst = tip
      /\ db' = db /\ unsynced' = unsynced /\ coins' = coins /\ tip' = tip /\ mem' = mem
      /\ strays' = strays
  BY DEF RestorePreparedTransition, Resumable
<1>2. /\ Good(db.marker.src, strays) /\ Good(tip, strays)
      /\ Repairable(db.marker.src, tip, db.nullifiers, db.anchors, strays)
  BY <1>1, Zenon DEF IInv, DisksOK, DbOK, MarkerOK
<1>3. /\ op'.kind = "redo" /\ op'.src = db.marker.src /\ op'.dst = tip
      /\ op'.todo = RedoWrites /\ IsOp(op')
  BY <1>1 DEF Task, IsOp
<1>4. Left' = 10
  BY <1>3, Programs DEF Left
<1>5. OpOK'
  BY <1>1, <1>2, <1>3, Programs, Zenon DEF OpOK, Running
<1>6. RestOK' /\ DisksOK'
  BY <1>1, <1>3, Zenon DEF RestOK, IInv, DisksOK
<1>7. /\ ~MarkerPending' /\ ~WipePending' /\ RemovalPending' /\ InsertionPending'
      /\ AnchorInsertionPending' /\ AnchorRemovalPending' /\ PoolPending'
      /\ VelocityPending' /\ StatePending' /\ AccumulatorPending'
  BY <1>3, <1>4
     DEF MarkerPending, WipePending, RemovalPending, InsertionPending,
         AnchorInsertionPending, AnchorRemovalPending, PoolPending, VelocityPending,
         StatePending, AccumulatorPending
<1>8. MarkerPhase'
  BY <1>1, <1>3, <1>7, Zenon DEF MarkerPhase
<1>9. StoresPhase'
  BY <1>1, <1>2, <1>3, <1>7, Zenon DEF StoresPhase
<1>10. PoolPhase' /\ PersistPhase'
  BY <1>3, <1>7 DEF PoolPhase, PersistPhase
<1> QED
  BY <1>1, <1>5, <1>6, <1>8, <1>9, <1>10 DEF IInv

(* A startup that loads the snapshot has no marker. *)
LEMMA LoadingFacts ==
    ASSUME IInv, Loading
    PROVE  /\ db.marker = NoMarker
           /\ db.snapshot # NoSnapshot =>
                LET b == db.snapshot.tip
                IN  /\ b \in Block /\ Good(b, strays)
                    /\ DbAt(db, b, strays)
                    /\ MemAt(FromSnapshot, b)
                    /\ IsMem(FromSnapshot)
<1>1. db.marker = NoMarker
  BY DEF Loading, Is, IInv, RestOK
<1>2. ASSUME db.snapshot # NoSnapshot
      PROVE  LET b == db.snapshot.tip
             IN  /\ b \in Block /\ Good(b, strays)
                 /\ DbAt(db, b, strays)
                 /\ MemAt(FromSnapshot, b)
                 /\ IsMem(FromSnapshot)
  <2> DEFINE b == db.snapshot.tip
  <2>1. DbOK(db, strays)
    BY DEF IInv, DisksOK
  <2>2. /\ Good(b, strays) /\ db.snapshot.tree = Chain[b] /\ db.snapshot.pool = PoolAt[b]
        /\ DbAt(db, b, strays)
    BY <1>1, <1>2, <2>1, Zenon DEF DbOK, SnapshotOK, WholeOK
  <2>3. /\ FromSnapshot.tree = db.snapshot.tree /\ FromSnapshot.pool = db.snapshot.pool
        /\ FromSnapshot.velocity = Loaded(db.velocity) /\ IsMem(FromSnapshot)
    BY DEF FromSnapshot, IsMem
  <2> QED
    BY <2>2, <2>3, Zenon DEF MemAt, DbAt, Good
<1> QED
  BY <1>1, <1>2

(* A snapshot at the tip is served as it is. *)
LEMMA AcceptSnapshotStep ==
    ASSUME IInv, AcceptSnapshot
    PROVE  IInv'
<1>1. /\ Loading /\ AtTip /\ mem' = FromSnapshot /\ op' = At("idle")
      /\ db' = db /\ unsynced' = unsynced /\ coins' = coins /\ tip' = tip
      /\ strays' = strays
  BY DEF AcceptSnapshot
<1>2. "idle" \notin Running
  BY DEF Running
<1>3. OpOK' /\ op'.kind = "idle"
  BY <1>1, <1>2, AtOK
<1>4. /\ DbAt(db, tip, strays) /\ MemAt(FromSnapshot, tip) /\ IsMem(FromSnapshot)
      /\ db.snapshot.tip = tip
  BY <1>1, LoadingFacts DEF AtTip
<1>5. RestOK' /\ DisksOK'
  BY <1>1, <1>3, <1>4 DEF RestOK, SettledAt, IInv, DisksOK
<1> QED
  BY <1>1, <1>2, <1>3, <1>4, <1>5, AtRest DEF IInv

(* A snapshot beside the tip is carried there under a prepared marker. *)
LEMMA BridgeGapStep ==
    ASSUME IInv, BridgeGap
    PROVE  IInv'
<1> DEFINE src == db.snapshot.tip
<1>1. /\ Loading /\ db.snapshot # NoSnapshot /\ mem' = FromSnapshot
      /\ op' = Task("redo", src, tip, <<"marker">> \o RedoWrites, TRUE)
      /\ db' = db /\ unsynced' = unsynced /\ coins' = coins /\ tip' = tip
      /\ strays' = strays
  BY DEF BridgeGap
<1>2. /\ Good(src, strays) /\ DbAt(db, src, strays) /\ MemAt(FromSnapshot, src)
      /\ IsMem(FromSnapshot)
  BY <1>1, LoadingFacts
<1>3. /\ op'.kind = "redo" /\ op'.src = src /\ op'.dst = tip
      /\ op'.todo = <<"marker">> \o RedoWrites /\ IsOp(op')
  BY <1>1 DEF Task, IsOp
<1>4. Left' = 11
  BY <1>3, Programs, Zenon DEF Left
<1>5. OpOK'
  <2>1. Good(tip, strays)
    BY DEF IInv
  <2>2. Suffix(op'.todo, Program(op'.kind)) /\ op'.todo # <<>>
    BY <1>3, Programs, Zenon
  <2> QED
    BY <1>1, <1>2, <1>3, <2>1, <2>2, Zenon DEF OpOK, Running
<1>6. (SettledAt(op.src))'
  BY <1>1, <1>2, <1>3, Zenon DEF SettledAt
<1>7. RestOK' /\ DisksOK'
  BY <1>1, <1>3, Zenon DEF RestOK, IInv, DisksOK
<1>8. op'.kind \in Journaled
  BY <1>3 DEF Journaled
<1> QED
  BY <1>1, <1>2, <1>3, <1>4, <1>5, <1>6, <1>7, <1>8, BeginJournaled, Zenon DEF IInv

(* A snapshot without its pin is audited against the chain and persisted. *)
LEMMA AuditSnapshotStep ==
    ASSUME IInv, AuditSnapshot
    PROVE  IInv'
<1>1. /\ Loading /\ AtTip /\ mem' = FromSnapshot
      /\ db' = [db EXCEPT !.anchors = AnchorsAt[tip]]
      /\ op' = Task("audit", tip, tip, PersistWrites, op.repaired)
      /\ Synced /\ coins' = coins /\ tip' = tip /\ strays' = strays
  BY DEF AuditSnapshot
<1>2. /\ Good(tip, strays) /\ tip \in Block
      /\ DbAt(db, tip, strays) /\ MemAt(FromSnapshot, tip) /\ IsMem(FromSnapshot)
      /\ db.snapshot.tip = tip /\ db.marker = NoMarker
  BY <1>1, LoadingFacts DEF AtTip
<1>3. DbOK(db, strays) /\ IsDb(db)
  BY DEF IInv, DisksOK, DbOK
<1>4. /\ IsDb(db') /\ db'.nullifiers = db.nullifiers /\ db'.anchors = AnchorsAt[tip]
      /\ db'.velocity = db.velocity /\ db'.pool = db.pool
      /\ db'.snapshot = db.snapshot /\ db'.accumulator = db.accumulator
      /\ db'.pin = db.pin /\ db'.marker = db.marker
  BY <1>1, <1>3 DEF IsDb
<1>5. DbAt(db', tip, strays)
  BY <1>2, <1>4, Zenon DEF DbAt, Stores
<1>6. DbOK(db', strays)
  <2>1. MarkerOK(db', strays)
    BY <1>2, <1>4, MarkerFacts, Zenon DEF MarkerOK
  <2> QED
    BY <1>2, <1>3, <1>4, <1>5, <2>1, Zenon DEF DbOK, SnapshotOK, PinOK, WholeOK
<1>7. DisksOK'
  BY <1>1, <1>6 DEF DisksOK, Synced
<1>8. /\ op'.kind = "audit" /\ op'.src = tip /\ op'.dst = tip
      /\ op'.todo = PersistWrites /\ IsOp(op')
  BY <1>1 DEF Task, IsOp
<1>9. OpOK'
  BY <1>1, <1>2, <1>8, Programs DEF OpOK, Running
<1>10. Left' = 4
  BY <1>8, Programs DEF Left
<1>11. (SettledAt(op.src))'
  BY <1>1, <1>2, <1>4, <1>5, <1>8 DEF SettledAt
<1>12. RestOK'
  BY <1>8 DEF RestOK
<1> QED
  BY <1>1, <1>2, <1>7, <1>8, <1>9, <1>10, <1>11, <1>12, BeginPersist DEF IInv

(* A marker at a finished target is cleared. *)
LEMMA ClearStaleMarkerStep ==
    ASSUME IInv, ClearStaleMarker
    PROVE  IInv'
<1>1. /\ StaleMarker /\ db' = [db EXCEPT !.marker = NoMarker] /\ op' = At("load")
      /\ mem' = NoMem /\ Unsynced /\ coins' = coins /\ tip' = tip /\ strays' = strays
  BY DEF ClearStaleMarker
<1>2. /\ db.marker.prepared /\ db.marker.dst = tip /\ db.snapshot # NoSnapshot
      /\ db.snapshot.tip = tip /\ db.accumulator = db.nullifiers
      /\ db.pin = StatePin(FromSnapshot)
  BY <1>1 DEF StaleMarker, AccumulatorVerified, PinVerified
<1>3. DbOK(db, strays) /\ IsDb(db)
  BY DEF IInv, DisksOK, DbOK
<1>4. /\ tip \in Block /\ db.snapshot.tree = Chain[tip] /\ db.snapshot.pool = PoolAt[tip]
      /\ db.pool = PoolAt[tip]
  BY <1>2, <1>3, Zenon DEF DbOK, SnapshotOK, MarkerOK, Good
<1>5. /\ db.pin.tree = Chain[tip] /\ db.pin.velocity = Loaded(db.velocity)
      /\ db.pin.nullifiers = db.nullifiers /\ db.pin.anchors = db.anchors
  BY <1>2, <1>4 DEF StatePin, FromSnapshot
<1>6. DbAt(db, tip, strays)
  <2>1. db.pin # NoPin
    <3>1. tip \in Chain[tip]
      BY <1>4, ChainRooted
    <3>2. NoPin.tree = {}
      BY DEF NoPin
    <3> QED
      BY <1>5, <3>1, <3>2
  <2>2. PICK b \in Block : /\ db.pin.tree = Chain[b] /\ LogOf(db.pin.velocity, b)
                           /\ Stores(b, db.pin.nullifiers, db.pin.anchors, strays)
    BY <1>3, <2>1, Zenon DEF DbOK, PinOK
  <2>3. b = tip
    BY <1>4, <1>5, <2>2, ChainInjective, Zenon
  <2> QED
    BY <1>4, <1>5, <2>2, <2>3, Zenon DEF DbAt
<1>7. /\ IsDb(db') /\ db'.nullifiers = db.nullifiers /\ db'.anchors = db.anchors
      /\ db'.velocity = db.velocity /\ db'.pool = db.pool
      /\ db'.snapshot = db.snapshot /\ db'.accumulator = db.accumulator
      /\ db'.pin = db.pin /\ db'.marker = NoMarker
  BY <1>1, <1>3 DEF IsDb
<1>8. DbOK(db', strays)
  <2>1. MarkerOK(db', strays)
    BY <1>7, MarkerFacts DEF MarkerOK
  <2>2. WholeOK(db', strays)
    BY <1>2, <1>6, <1>7, Zenon DEF WholeOK, DbAt
  <2> QED
    BY <1>3, <1>7, <2>1, <2>2, Zenon DEF DbOK, SnapshotOK, PinOK
<1>9. DisksOK'
  BY <1>1, <1>2, <1>8, UnsyncedDisks DEF IInv
<1>10. "load" \notin Running
  BY DEF Running
<1>11. OpOK' /\ op'.kind = "load"
  BY <1>1, <1>10, AtOK
<1>12. RestOK' /\ IsMem(mem')
  BY <1>1, <1>7, <1>11 DEF RestOK, NoMem, IsMem
<1> QED
  BY <1>1, <1>9, <1>10, <1>11, <1>12, AtRest DEF IInv
=============================================================================
