------------------- MODULE ShieldedTransitionJournalProofs -------------------
(***************************************************************************)
(* What undoing the blocks of one branch and applying those of another does *)
(* to the nullifiers, the anchors, the pool and the velocity log, for every *)
(* tree of blocks; the steps of ShieldedTransitionJournal that rest on it;  *)
(* and the theorems that follow from the inductive invariant.               *)
(***************************************************************************)
EXTENDS ShieldedTransitionJournalInvariant, FiniteSetTheorems,
        WellFoundedInduction
-----------------------------------------------------------------------------
(* Chains.                                                                  *)

(* No block has the empty chain. *)
LEMMA ChainNone == Chain[None] = {}
  BY Zenon DEF Chain, Heads

(* The genesis block has no ancestor but itself. *)
LEMMA ChainGenesis == Chain[Genesis] = {Genesis}
<1>1. Rooted({Genesis})
  BY Zenon DEF Rooted
<1> QED
  BY <1>1, Tree, ChainRooted

(* The chain of a block of a chain is a part of it. *)
LEMMA ChainSubset ==
    ASSUME NEW b \in Block, NEW c \in Chain[b]
    PROVE  Chain[c] \subseteq Chain[b]
  BY ChainRooted, Zenon

(* The blocks of a chain are ordered by their heights. *)
LEMMA ChainOrder ==
    ASSUME NEW b \in Block, NEW c \in Chain[b], NEW d \in Chain[b],
           Height[c] <= Height[d]
    PROVE  c \in Chain[d]
<1> DEFINE S == {x \in Chain[b] : x \in Chain[d] \/ d \in Chain[x]}
<1>1. d \in Block /\ c \in Block /\ b \in S /\ S \in SUBSET Block
  BY ChainRooted, Zenon
<1>2. ASSUME NEW x \in S \ {Genesis} PROVE Parent[x] \in S
  <2>1. x \in Chain[b] /\ x \in Block \ {Genesis} /\ Parent[x] \in Block
    BY <1>1, Tree, Zenon
  <2>2. Parent[x] \in Chain[b]
    BY <2>1, ChainRooted, Zenon DEF Rooted
  <2>3. CASE x \in Chain[d]
    <3>1. Parent[x] \in Chain[d]
      BY <1>1, <2>1, <2>3, ChainRooted, Zenon DEF Rooted
    <3> QED
      BY <2>2, <3>1, Zenon
  <2>4. CASE d \in Chain[x] /\ x \notin Chain[d]
    <3>1. x # d
      BY <1>1, <2>4, ChainRooted, Zenon
    <3>2. d \in Chain[Parent[x]]
      BY <2>1, <2>4, <3>1, ChainParent, Zenon
    <3> QED
      BY <2>2, <3>2, Zenon
  <2> QED
    BY <2>3, <2>4, Zenon
<1>3. Rooted(S)
  BY <1>2, Zenon DEF Rooted
<1>4. Chain[b] \subseteq S
  BY <1>1, <1>3, ChainRooted, Zenon
<1>5. CASE c \in Chain[d]
  BY <1>5, Zenon
<1>6. CASE d \in Chain[c]
  <2>1. d = c \/ Height[d] < Height[c]
    BY <1>1, <1>6, ChainHeight, Zenon
  <2>2. Height[c] \in Nat /\ Height[d] \in Nat
    BY <1>1, Tree, Zenon
  <2>3. d = c
    BY <2>1, <2>2
  <2> QED
    BY <1>1, <2>3, ChainRooted, Zenon
<1> QED
  BY <1>4, <1>5, <1>6, Zenon

(* A chain has one block of each height. *)
LEMMA ChainHeightUnique ==
    ASSUME NEW b \in Block, NEW c \in Chain[b], NEW d \in Chain[b],
           Height[c] = Height[d]
    PROVE  c = d
<1>1. c \in Block /\ d \in Block /\ Height[c] \in Nat /\ Height[d] \in Nat
  BY ChainRooted, Tree, Zenon
<1>2. c \in Chain[d]
  BY <1>1, ChainOrder
<1> QED
  BY <1>1, <1>2, ChainHeight

(* Every chain is finite, though the block tree need not be. *)
LEMMA ChainFinite ==
    ASSUME NEW b \in Heads
    PROVE  IsFiniteSet(Chain[b])
<1>1. CASE b = None
  BY <1>1, ChainNone, FS_EmptySet, Zenon
<1>2. CASE b \in Block
  <2> DEFINE f == [c \in Chain[b] |-> Height[c]]
  <2>1. Height[b] \in Nat
    BY <1>2, Tree, Zenon
  <2>2. IsFiniteSet(0..Height[b])
    BY <2>1, FS_Interval
  <2>3. \A c \in Chain[b] : Height[c] \in 0..Height[b]
    BY <1>2, <2>1, ChainHeight, Tree
  <2>4. f \in [Chain[b] -> 0..Height[b]]
    BY <2>3, Zenon
  <2>5. \A c, d \in Chain[b] : f[c] = f[d] => c = d
    BY <1>2, ChainHeightUnique, Zenon
  <2>6. f \in Injection(Chain[b], 0..Height[b])
    BY <2>4, <2>5, Zenon DEF Injection, IsInjective
  <2> QED
    BY <2>2, <2>6, FS_Injection, Zenon
<1> QED
  BY <1>1, <1>2, Zenon DEF Heads

(* Every nonempty set of natural numbers has a least element. *)
LEMMA NatMinimum ==
    ASSUME NEW T, T \subseteq Nat, T # {}
    PROVE  \E n \in T : \A m \in T : n <= m
<1>1. PICK t \in T : TRUE
  BY Zenon
<1> DEFINE Initial == {S \in SUBSET (0..t) : \E n \in T : S = 0..n}
<1>2. IsFiniteSet(0..t)
  BY FS_Interval
<1>3. IsWellFoundedOn(StrictSubsetOrdering(0..t), SUBSET (0..t))
  BY <1>2, FS_StrictSubsetOrderingWellFounded, FS_FiniteSubsetsOfFinite, Zenon
<1>4. Initial # {}
  BY <1>1, Zenon
<1>5. PICK S \in Initial :
        \A R \in Initial : <<R, S>> \notin StrictSubsetOrdering(0..t)
  BY <1>3, <1>4, WFMin, Zenon
<1>6. PICK n \in T : S = 0..n /\ S \subseteq 0..t
  BY <1>5, Zenon
<1>7. ASSUME NEW m \in T PROVE n <= m
  <2> SUFFICES ASSUME m < n PROVE FALSE
    BY <1>7
  <2>1. 0..m \in SUBSET (0..t) /\ n <= t
    BY <1>6
  <2>2. 0..m \in Initial
    BY <2>1, Zenon
  <2>3. 0..m \subseteq S /\ 0..m # S
    <3>1. n \in S /\ n \notin 0..m
      BY <1>6
    <3> QED
      BY <1>6, <3>1
  <2>4. <<0..m, S>> \in StrictSubsetOrdering(0..t)
    BY <2>1, <2>3, <1>6, Zenon DEF StrictSubsetOrdering
  <2> QED
    BY <1>5, <2>2, <2>4, Zenon
<1> QED
  BY <1>7, Zenon

(* Some blocks of a chain have a lowest one. *)
LEMMA LowestBlock ==
    ASSUME NEW b \in Block, NEW D \in SUBSET Chain[b], D # {}
    PROVE  \E c \in D : \A d \in D : Height[c] <= Height[d]
<1> DEFINE T == {Height[d] : d \in D}
<1>1. T \subseteq Nat /\ T # {}
  BY ChainRooted, Tree
<1>2. PICK n \in T : \A m \in T : n <= m
  <2> HIDE DEF T
  <2> QED
    BY <1>1, NatMinimum, Zenon
<1> QED
  BY <1>2, Zenon

(* Every chain starts at the genesis block. *)
LEMMA GenesisInChain ==
    ASSUME NEW b \in Block
    PROVE  Genesis \in Chain[b]
<1>1. Chain[b] \in SUBSET Chain[b] /\ Chain[b] # {}
  BY ChainRooted, Zenon
<1>2. PICK c \in Chain[b] : \A d \in Chain[b] : Height[c] <= Height[d]
  BY <1>1, LowestBlock, Zenon
<1>3. SUFFICES ASSUME c # Genesis PROVE FALSE
  BY <1>2, Zenon
<1>4. c \in Block \ {Genesis}
  BY <1>2, <1>3, ChainRooted, Zenon
<1>5. Parent[c] \in Chain[b]
  BY <1>3, ChainRooted, Zenon DEF Rooted
<1> QED
  BY <1>2, <1>4, <1>5, Tree
-----------------------------------------------------------------------------
(* The pool.                                                                *)

(* Value balances are integers within MAX_MONEY. *)
LEMMA MoneyType ==
    /\ MaxMoney \in Nat
    /\ \A b \in Block : ValueBalance[b] \in Int /\ ValueBalance[b] <= MaxMoney
                        /\ -ValueBalance[b] <= MaxMoney
  BY JournalAssumption

(* The units of finitely many blocks are finitely many. *)
LEMMA UnitsFinite ==
    ASSUME NEW bs, IsFiniteSet(bs)
    PROVE  /\ IsFiniteSet(UnitsOut(bs)) /\ IsFiniteSet(UnitsIn(bs))
           /\ Cardinality(UnitsOut(bs)) \in Nat
           /\ Cardinality(UnitsIn(bs)) \in Nat
<1>1. IsFiniteSet(1..MaxMoney)
  BY MoneyType, FS_Interval
<1>2. IsFiniteSet(bs \X (1..MaxMoney))
  BY <1>1, FS_Product, Zenon
<1>3. UnitsOut(bs) \subseteq bs \X (1..MaxMoney)
      /\ UnitsIn(bs) \subseteq bs \X (1..MaxMoney)
  BY Zenon DEF UnitsOut, UnitsIn
<1>4. IsFiniteSet(UnitsOut(bs)) /\ IsFiniteSet(UnitsIn(bs))
  BY <1>2, <1>3, FS_Subset, Zenon
<1> QED
  BY <1>4, FS_CardinalityType, Zenon

(* Disjoint sets of blocks add up. *)
LEMMA NetOutUnion ==
    ASSUME NEW A, NEW B, IsFiniteSet(A), IsFiniteSet(B), A \cap B = {}
    PROVE  /\ NetOut(A) \in Int /\ NetOut(B) \in Int
           /\ NetOut(A \cup B) = NetOut(A) + NetOut(B)
<1>1. UnitsOut(A \cup B) = UnitsOut(A) \cup UnitsOut(B)
  BY Zenon DEF UnitsOut
<1>2. UnitsIn(A \cup B) = UnitsIn(A) \cup UnitsIn(B)
  BY Zenon DEF UnitsIn
<1>3. UnitsOut(A) \cap UnitsOut(B) = {}
  BY Zenon DEF UnitsOut
<1>4. UnitsIn(A) \cap UnitsIn(B) = {}
  BY Zenon DEF UnitsIn
<1>5. Cardinality({}) = 0
  BY FS_EmptySet, Zenon
<1>6. Cardinality(UnitsOut(A \cup B))
        = Cardinality(UnitsOut(A)) + Cardinality(UnitsOut(B))
  <2>1. IsFiniteSet(UnitsOut(A)) /\ IsFiniteSet(UnitsOut(B))
    BY UnitsFinite, Zenon
  <2>2. Cardinality(UnitsOut(A) \cup UnitsOut(B))
          = Cardinality(UnitsOut(A)) + Cardinality(UnitsOut(B))
              - Cardinality(UnitsOut(A) \cap UnitsOut(B))
    BY <2>1, FS_Union, Zenon
  <2>3. Cardinality(UnitsOut(A)) \in Nat /\ Cardinality(UnitsOut(B)) \in Nat
    BY UnitsFinite, Zenon
  <2>4. Cardinality(UnitsOut(A) \cap UnitsOut(B)) = 0
    BY <1>3, <1>5, Zenon
  <2>5. Cardinality(UnitsOut(A \cup B))
          = Cardinality(UnitsOut(A) \cup UnitsOut(B))
    BY <1>1, Zenon
  <2> QED
    BY <2>2, <2>3, <2>4, <2>5
<1>7. Cardinality(UnitsIn(A \cup B))
        = Cardinality(UnitsIn(A)) + Cardinality(UnitsIn(B))
  <2>1. IsFiniteSet(UnitsIn(A)) /\ IsFiniteSet(UnitsIn(B))
    BY UnitsFinite, Zenon
  <2>2. Cardinality(UnitsIn(A) \cup UnitsIn(B))
          = Cardinality(UnitsIn(A)) + Cardinality(UnitsIn(B))
              - Cardinality(UnitsIn(A) \cap UnitsIn(B))
    BY <2>1, FS_Union, Zenon
  <2>3. Cardinality(UnitsIn(A)) \in Nat /\ Cardinality(UnitsIn(B)) \in Nat
    BY UnitsFinite, Zenon
  <2>4. Cardinality(UnitsIn(A) \cap UnitsIn(B)) = 0
    BY <1>4, <1>5, Zenon
  <2>5. Cardinality(UnitsIn(A \cup B))
          = Cardinality(UnitsIn(A) \cup UnitsIn(B))
    BY <1>2, Zenon
  <2> QED
    BY <2>2, <2>3, <2>4, <2>5
<1>8. /\ Cardinality(UnitsOut(A)) \in Nat /\ Cardinality(UnitsIn(A)) \in Nat
      /\ Cardinality(UnitsOut(B)) \in Nat /\ Cardinality(UnitsIn(B)) \in Nat
  BY UnitsFinite, Zenon
<1> QED
  BY <1>6, <1>7, <1>8 DEF NetOut

(* No blocks take nothing out of the pool. *)
LEMMA NetOutEmpty == NetOut({}) = 0
<1>1. UnitsOut({}) = {} /\ UnitsIn({}) = {}
  BY Zenon DEF UnitsOut, UnitsIn
<1> QED
  BY <1>1, FS_EmptySet DEF NetOut

(* The pairs of one block and the numbers up to n are n. *)
LEMMA UnitsCount ==
    ASSUME NEW b, NEW n \in Int, n <= MaxMoney
    PROVE  Cardinality({p \in {b} \X (1..MaxMoney) : p[2] <= n})
             = NonNegative(n)
<1> DEFINE P == {p \in {b} \X (1..MaxMoney) : p[2] <= n}
           f == [u \in 1..n |-> <<b, u>>]
<1>1. f \in [1..n -> P]
  BY MoneyType
<1>2. \A u, v \in 1..n : f[u] = f[v] => u = v
  BY Zenon
<1>3. \A p \in P : \E u \in 1..n : f[u] = p
  <2> SUFFICES ASSUME NEW p \in P PROVE \E u \in 1..n : f[u] = p
    BY Zenon
  <2>1. p[2] \in 1..n /\ p = <<b, p[2]>>
    BY MoneyType
  <2> QED
    BY <2>1, Zenon
<1> HIDE DEF P, f
<1>4. f \in Bijection(1..n, P)
  BY <1>1, <1>2, <1>3, Zenon DEF Bijection, Injection, Surjection, IsInjective
<1>5. IsFiniteSet(1..n) /\ Cardinality(1..n) = NonNegative(n)
  BY FS_Interval DEF NonNegative
<1>6. Cardinality(1..n) = Cardinality(P)
  BY <1>4, <1>5, FS_Bijection, Zenon DEF ExistsBijection
<1> QED
  BY <1>5, <1>6, Zenon DEF P

(* One block takes its value balance out of the pool. *)
LEMMA NetOutOne ==
    ASSUME NEW b \in Block
    PROVE  NetOut({b}) = ValueBalance[b]
<1>1. UnitsOut({b}) = {p \in {b} \X (1..MaxMoney) : p[2] <= ValueBalance[b]}
  BY Zenon DEF UnitsOut
<1>2. UnitsIn({b}) = {p \in {b} \X (1..MaxMoney) : p[2] <= -ValueBalance[b]}
  BY Zenon DEF UnitsIn
<1>3. Cardinality(UnitsOut({b})) = NonNegative(ValueBalance[b])
  BY <1>1, MoneyType, UnitsCount, Zenon
<1>4. Cardinality(UnitsIn({b})) = NonNegative(-ValueBalance[b])
  <2> DEFINE n == -ValueBalance[b]
  <2>1. n \in Int /\ n <= MaxMoney
    BY MoneyType
  <2>2. UnitsIn({b}) = {p \in {b} \X (1..MaxMoney) : p[2] <= n}
    BY <1>2, Zenon
  <2> HIDE DEF n
  <2>3. Cardinality(UnitsIn({b})) = NonNegative(n)
    BY <2>1, <2>2, UnitsCount, Zenon
  <2> QED
    BY <2>3, Zenon DEF n
<1> QED
  BY <1>3, <1>4, MoneyType DEF NetOut, NonNegative

(* The units counted are an integer. *)
LEMMA NetOutType ==
    ASSUME NEW A, IsFiniteSet(A)
    PROVE  NetOut(A) \in Int
  BY UnitsFinite DEF NetOut

(* Carrying the tree and the pool of src along the path gives those of dst. *)
LEMMA PathProjects ==
    ASSUME NEW src \in Heads, NEW dst \in Heads
    PROVE  /\ (Chain[src] \ Undone(src, dst)) \cup Applied(src, dst) = Chain[dst]
           /\ PoolAt[src] \in Int /\ PoolAt[dst] \in Int
           /\ PoolAt[src] + NetOut(Undone(src, dst)) - NetOut(Applied(src, dst))
                = PoolAt[dst]
<1> DEFINE F == Chain[src] \cap Chain[dst]
           U == Chain[src] \ Chain[dst]
           V == Chain[dst] \ Chain[src]
<1>1. IsFiniteSet(F) /\ IsFiniteSet(U) /\ IsFiniteSet(V)
  <2>1. IsFiniteSet(Chain[src]) /\ IsFiniteSet(Chain[dst])
    BY ChainFinite, Zenon
  <2>2. F \in SUBSET Chain[src] /\ U \in SUBSET Chain[src] /\ V \in SUBSET Chain[dst]
    BY Zenon
  <2> HIDE DEF F, U, V
  <2> QED
    BY <2>1, <2>2, FS_Subset, Zenon
<1>2. Chain[src] = F \cup U /\ Chain[dst] = F \cup V
  BY Zenon
<1>3. F \cap U = {} /\ F \cap V = {}
  BY Zenon
<1>4. PoolAt[src] = -NetOut(Chain[src]) /\ PoolAt[dst] = -NetOut(Chain[dst])
  BY Zenon DEF PoolAt
<1>5. Undone(src, dst) = U /\ Applied(src, dst) = V
  BY Zenon DEF Undone, Applied
<1>6. (Chain[src] \ U) \cup V = Chain[dst]
  BY Zenon
<1> HIDE DEF F, U, V
<1>7. NetOut(F) \in Int /\ NetOut(U) \in Int /\ NetOut(V) \in Int
  BY <1>1, NetOutType, Zenon
<1>8. NetOut(F \cup U) = NetOut(F) + NetOut(U)
  BY <1>1, <1>3, NetOutUnion, Zenon
<1>9. NetOut(F \cup V) = NetOut(F) + NetOut(V)
  BY <1>1, <1>3, NetOutUnion, Zenon
<1>10. PoolAt[src] = -(NetOut(F) + NetOut(U)) /\ PoolAt[dst] = -(NetOut(F) + NetOut(V))
  BY <1>2, <1>4, <1>8, <1>9, Zenon
<1>11. /\ PoolAt[src] \in Int /\ PoolAt[dst] \in Int
       /\ PoolAt[src] + NetOut(U) - NetOut(V) = PoolAt[dst]
  BY <1>7, <1>10
<1> QED
  BY <1>5, <1>6, <1>11, Zenon

(* A connected block takes its value balance out of the pool. *)
LEMMA PoolOfChild ==
    ASSUME NEW b \in Block \ {Genesis}
    PROVE  /\ PoolAt[Parent[b]] \in Int /\ PoolAt[b] \in Int
           /\ PoolAt[Parent[b]] - PoolAt[b] = ValueBalance[b]
<1>1. Parent[b] \in Heads /\ b \in Heads
  BY Tree, Zenon DEF Heads
<1>2. PoolAt[Parent[b]] + NetOut({}) - NetOut({b}) = PoolAt[b]
  <2>1. PoolAt[Parent[b]] + NetOut(Undone(Parent[b], b)) - NetOut(Applied(Parent[b], b))
          = PoolAt[b]
    BY <1>1, PathProjects, Zenon
  <2>2. Undone(Parent[b], b) = {} /\ Applied(Parent[b], b) = {b}
    BY OneBlockPath, Zenon
  <2> QED
    BY <2>1, <2>2, Zenon
<1>3. NetOut({b}) = ValueBalance[b] /\ NetOut({}) = 0 /\ ValueBalance[b] \in Int
  BY NetOutOne, NetOutEmpty, MoneyType, Zenon
<1>4. PoolAt[Parent[b]] \in Int /\ PoolAt[b] \in Int
  BY <1>1, PathProjects, Zenon
<1> QED
  BY <1>2, <1>3, <1>4
-----------------------------------------------------------------------------
(* The stores.                                                              *)

(* Where two branches part: the blocks of one of them alone are above all   *)
(* the common ones, and the chain of the parent of each is what is below    *)
(* it.                                                                      *)
LEMMA Fork ==
    ASSUME NEW src \in Block, NEW dst \in Block
    PROVE  /\ Chain[src] = (Chain[src] \cap Chain[dst]) \cup Undone(src, dst)
           /\ \A u \in Undone(src, dst) :
                /\ u \in Chain[src] \ {Genesis}
                /\ u \in Block \ {Genesis}
                /\ \A f \in Chain[src] \cap Chain[dst] : Height[f] < Height[u]
<1>1. Chain[src] = (Chain[src] \cap Chain[dst]) \cup Undone(src, dst)
  BY Zenon DEF Undone
<1>2. ASSUME NEW u \in Undone(src, dst)
      PROVE  u \in Chain[src] \ {Genesis} /\ u \in Block \ {Genesis}
  BY GenesisInChain, ChainRooted, Zenon DEF Undone
<1>3. ASSUME NEW u \in Undone(src, dst), NEW f \in Chain[src] \cap Chain[dst]
      PROVE  Height[f] < Height[u]
  <2>1. u \in Chain[src] /\ u \notin Chain[dst] /\ u \in Block /\ f \in Block
    BY <1>2, ChainRooted, Zenon DEF Undone
  <2>2. Height[u] \in Nat /\ Height[f] \in Nat
    BY <2>1, Tree, Zenon
  <2>3. SUFFICES ASSUME Height[u] <= Height[f] PROVE FALSE
    BY <2>2
  <2>4. u \in Chain[f]
    BY <2>1, <2>3, ChainOrder, Zenon
  <2> QED
    BY <2>1, <2>4, ChainSubset, Zenon
<1> QED
  BY <1>1, <1>2, <1>3, Zenon

(* The chain of a block's parent is what is below the block. *)
LEMMA BelowParent ==
    ASSUME NEW b \in Block, NEW c \in Chain[b] \ {Genesis}
    PROVE  /\ Parent[c] \in Block
           /\ Chain[Parent[c]] = {x \in Chain[b] : Height[x] < Height[c]}
<1>1. c \in Block \ {Genesis} /\ Parent[c] \in Block
  BY ChainRooted, Tree, Zenon
<1>2. Height[c] \in Nat /\ Height[Parent[c]] \in Nat /\ Height[c] = Height[Parent[c]] + 1
  BY <1>1, Tree, Zenon
<1>3. Parent[c] \in Chain[b]
  BY ChainRooted, Zenon DEF Rooted
<1>4. ASSUME NEW x \in Chain[Parent[c]] PROVE x \in Chain[b] /\ Height[x] < Height[c]
  <2>1. x \in Chain[b]
    BY <1>1, <1>3, ChainSubset, Zenon
  <2>2. x = Parent[c] \/ Height[x] < Height[Parent[c]]
    BY <1>1, ChainHeight, Zenon
  <2>3. Height[x] \in Nat
    BY <2>1, ChainRooted, Tree, Zenon
  <2> QED
    BY <1>2, <2>1, <2>2, <2>3
<1>5. ASSUME NEW x \in Chain[b], Height[x] < Height[c] PROVE x \in Chain[Parent[c]]
  <2>1. Height[x] \in Nat
    BY ChainRooted, Tree, Zenon
  <2>2. Height[x] <= Height[Parent[c]]
    BY <1>2, <1>5, <2>1
  <2> QED
    BY <1>3, <2>2, ChainOrder, Zenon
<1> QED
  BY <1>1, <1>4, <1>5, Zenon

(* What stands after more blocks: what they leave standing, and what stood  *)
(* before and they do not consume.                                          *)
LEMMA StandingSplit ==
    ASSUME NEW F, NEW U, NEW x,
           \A b \in F \cup U : Height[b] \in Nat,
           \A f \in F, u \in U : Height[f] < Height[u]
    PROVE  Stands(x, F \cup U)
             <=> \/ Stands(x, U)
                 \/ Stands(x, F) /\ \A u \in U : x \notin Consumed[u]
<1>1. ASSUME Stands(x, U) PROVE Stands(x, F \cup U)
  <2>1. PICK c \in U : /\ x \in Created[c]
                       /\ \A d \in U : Height[d] >= Height[c] => x \notin Consumed[d]
    BY <1>1, Zenon DEF Stands
  <2>2. ASSUME NEW d \in F \cup U, Height[d] >= Height[c] PROVE x \notin Consumed[d]
    BY <2>1, <2>2
  <2> QED
    BY <2>1, <2>2, Zenon DEF Stands
<1>2. ASSUME Stands(x, F), \A u \in U : x \notin Consumed[u]
      PROVE  Stands(x, F \cup U)
  BY <1>2, Zenon DEF Stands
<1>3. ASSUME Stands(x, F \cup U)
      PROVE  Stands(x, U) \/ (Stands(x, F) /\ \A u \in U : x \notin Consumed[u])
  <2>1. PICK c \in F \cup U :
          /\ x \in Created[c]
          /\ \A d \in F \cup U : Height[d] >= Height[c] => x \notin Consumed[d]
    BY <1>3, Zenon DEF Stands
  <2>2. CASE c \in U
    BY <2>1, <2>2, Zenon DEF Stands
  <2>3. CASE c \in F
    <3>1. \A u \in U : x \notin Consumed[u]
      BY <2>1, <2>3
    <3> QED
      BY <2>1, <2>3, <3>1, Zenon DEF Stands
  <2> QED
    BY <2>2, <2>3, Zenon
<1> QED
  BY <1>1, <1>2, <1>3, Zenon

(* The anchors of a fork's common part, from the branch src. *)
LEMMA UndoAnchors ==
    ASSUME NEW src \in Block, NEW dst \in Block, NEW S, Good(src, S), NEW x
    PROVE  LET F == Chain[src] \cap Chain[dst]
               U == Undone(src, dst)
               back == x \in GivenBack(U)
               left == \E c \in U : Leaves(c, x)
           IN  /\ back => Stands(x, F) \/ x \in Gather(Created, S)
               /\ (left /\ ~back /\ Stands(x, F)) => x \in Gather(Consumed, S)
               /\ (~left /\ Stands(x, Chain[src])) => Stands(x, F)
               /\ (~left /\ ~back /\ Stands(x, F))
                    => Stands(x, Chain[src]) \/ x \in Gather(Consumed, S)
<1> DEFINE F == Chain[src] \cap Chain[dst]
           U == Undone(src, dst)
           Below(c) == {u \in U : Height[u] < Height[c]}
<1>1. /\ Chain[src] = F \cup U
      /\ \A u \in U : u \in Chain[src] \ {Genesis} /\ u \in Block
      /\ \A f \in F, u \in U : Height[f] < Height[u]
      /\ \A b \in F \cup U : Height[b] \in Nat
  BY Fork, ChainRooted, Tree, Zenon
<1>2. ASSUME NEW c \in U
      PROVE  /\ x \in AnchorsAt[Parent[c]] <=> Stands(x, F \cup Below(c))
             /\ x \in AnchorsAt[Parent[c]]
                  <=> \/ Stands(x, Below(c))
                      \/ Stands(x, F) /\ \A u \in Below(c) : x \notin Consumed[u]
  <2>1. Chain[Parent[c]] = {b \in Chain[src] : Height[b] < Height[c]} /\ Parent[c] \in Heads
    BY <1>1, BelowParent, Zenon DEF Heads
  <2>2. Chain[Parent[c]] = F \cup Below(c)
    BY <1>1, <2>1, Zenon
  <2>3. AnchorsAt[Parent[c]] = Standing(F \cup Below(c))
    BY <2>1, <2>2, Zenon DEF AnchorsAt
  <2>4. x \in AnchorsAt[Parent[c]] <=> Stands(x, F \cup Below(c))
    BY <2>3, InStanding, Zenon
  <2>5. /\ \A b \in F \cup Below(c) : Height[b] \in Nat
        /\ \A f \in F, u \in Below(c) : Height[f] < Height[u]
    BY <1>1, Zenon
  <2> HIDE DEF F, Below
  <2>6. Stands(x, F \cup Below(c))
          <=> \/ Stands(x, Below(c))
              \/ Stands(x, F) /\ \A u \in Below(c) : x \notin Consumed[u]
    BY <2>5, StandingSplit, Zenon
  <2> QED
    BY <2>4, <2>6, Zenon
<1>3. ASSUME NEW c \in U
      PROVE  /\ x \in Created[c] /\ x \in AnchorsAt[Parent[c]] => x \in Gather(Consumed, S)
             /\ Takes(c, x) => x \in AnchorsAt[Parent[c]] \/ x \in Gather(Created, S)
  BY <1>1, Zenon DEF Good, Sound, Takes
<1>4. Stands(x, Chain[src])
        <=> Stands(x, U) \/ (Stands(x, F) /\ \A u \in U : x \notin Consumed[u])
  <2> HIDE DEF F, U
  <2>1. Stands(x, F \cup U)
          <=> Stands(x, U) \/ (Stands(x, F) /\ \A u \in U : x \notin Consumed[u])
    BY <1>1, StandingSplit, Zenon
  <2> QED
    BY <1>1, <2>1, Zenon
<1>5. x \in GivenBack(U)
        <=> \E c \in U : Takes(c, x) /\ \A d \in U : Height[d] < Height[c] => ~Leaves(d, x)
  BY InGivenBack, Zenon
<1>6. ASSUME NEW W \in SUBSET U, Stands(x, W) PROVE \E c \in W : Leaves(c, x)
  <2>1. PICK c \in W : /\ x \in Created[c]
                       /\ \A d \in W : Height[d] >= Height[c] => x \notin Consumed[d]
    BY <1>6, Zenon DEF Stands
  <2>2. Height[c] >= Height[c]
    BY <1>1
  <2> QED
    BY <2>1, <2>2, Zenon DEF Leaves
<1>7. ASSUME NEW D \in SUBSET U, D # {}
      PROVE  \E c \in D : \A d \in D : Height[c] <= Height[d]
  BY <1>1, <1>7, LowestBlock, Zenon
(* The lowest block that consumes an anchor of the common part takes it. *)
<1>8. ASSUME Stands(x, F), x \notin Gather(Consumed, S),
             NEW e \in U, x \in Consumed[e]
      PROVE  \E d \in U : Takes(d, x) /\ Height[d] <= Height[e]
  <2> DEFINE D == {d \in U : x \in Consumed[d]}
  <2>1. PICK d \in D : \A u \in D : Height[d] <= Height[u]
    BY <1>7, <1>8, Zenon
  <2>2. \A u \in Below(d) : x \notin Consumed[u]
    BY <1>1, <2>1
  <2>3. x \in AnchorsAt[Parent[d]]
    BY <1>2, <1>8, <2>2, Zenon
  <2>4. x \notin Created[d]
    BY <1>3, <1>8, <2>3, Zenon
  <2> QED
    BY <1>8, <2>1, <2>4, Zenon DEF Takes
<1>9. ASSUME x \in GivenBack(U) PROVE Stands(x, F) \/ x \in Gather(Created, S)
  <2>1. PICK c \in U : Takes(c, x) /\ \A d \in U : Height[d] < Height[c] => ~Leaves(d, x)
    BY <1>5, <1>9, Zenon
  <2>2. ~Stands(x, Below(c))
    BY <1>6, <2>1
  <2> QED
    BY <1>2, <1>3, <2>1, <2>2, Zenon
<1>10. ASSUME NEW c1 \in U, Leaves(c1, x), x \notin GivenBack(U), Stands(x, F)
       PROVE  x \in Gather(Consumed, S)
  <2> DEFINE D == {c \in U : Leaves(c, x)}
  <2>1. PICK c \in D : \A u \in D : Height[c] <= Height[u]
    BY <1>7, <1>10, Zenon
  <2>2. SUFFICES ASSUME x \notin Gather(Consumed, S) PROVE FALSE
    BY Zenon
  <2>3. x \notin AnchorsAt[Parent[c]]
    BY <1>3, <2>1, <2>2, Zenon DEF Leaves
  <2>4. PICK e \in Below(c) : x \in Consumed[e]
    BY <1>2, <1>10, <2>1, <2>3, Zenon
  <2>5. PICK d \in U : Takes(d, x) /\ Height[d] <= Height[e]
    BY <1>8, <1>10, <2>2, <2>4, Zenon
  <2>6. \A u \in U : Height[u] < Height[d] => ~Leaves(u, x)
    BY <1>1, <2>1, <2>4, <2>5
  <2> QED
    BY <1>5, <1>10, <2>5, <2>6, Zenon
<1>11. ASSUME \A c \in U : ~Leaves(c, x), Stands(x, Chain[src]) PROVE Stands(x, F)
  BY <1>4, <1>6, <1>11, Zenon
<1>12. ASSUME \A c \in U : ~Leaves(c, x), x \notin GivenBack(U), Stands(x, F),
              x \notin Gather(Consumed, S)
       PROVE  Stands(x, Chain[src])
  <2>1. \A u \in U : x \notin Consumed[u]
    BY <1>5, <1>8, <1>12, Zenon
  <2> QED
    BY <1>4, <1>12, <2>1, Zenon
<1> HIDE DEF F, U
<1>13. /\ x \in GivenBack(U) => Stands(x, F) \/ x \in Gather(Created, S)
       /\ ((\E c \in U : Leaves(c, x)) /\ x \notin GivenBack(U) /\ Stands(x, F))
            => x \in Gather(Consumed, S)
       /\ (~(\E c \in U : Leaves(c, x)) /\ Stands(x, Chain[src])) => Stands(x, F)
       /\ (~(\E c \in U : Leaves(c, x)) /\ x \notin GivenBack(U) /\ Stands(x, F))
            => Stands(x, Chain[src]) \/ x \in Gather(Consumed, S)
  BY <1>9, <1>10, <1>11, <1>12, Zenon
<1> QED
  BY <1>13, Zenon DEF F, U

(* The anchors that stand at dst, from those of the common part. *)
LEMMA ApplyAnchors ==
    ASSUME NEW src \in Block, NEW dst \in Block, NEW x
    PROVE  Stands(x, Chain[dst])
             <=> \/ Stands(x, Applied(src, dst))
                 \/ /\ Stands(x, Chain[src] \cap Chain[dst])
                    /\ \A v \in Applied(src, dst) : x \notin Consumed[v]
<1> DEFINE F == Chain[dst] \cap Chain[src]
           V == Undone(dst, src)
<1>1. /\ Chain[dst] = F \cup V
      /\ \A f \in F, v \in V : Height[f] < Height[v]
      /\ \A b \in F \cup V : Height[b] \in Nat
  BY Fork, ChainRooted, Tree, Zenon
<1>2. F = Chain[src] \cap Chain[dst] /\ V = Applied(src, dst)
  BY Zenon DEF Undone, Applied
<1> HIDE DEF F, V
<1>3. Stands(x, F \cup V)
        <=> Stands(x, V) \/ (Stands(x, F) /\ \A v \in V : x \notin Consumed[v])
  BY <1>1, StandingSplit, Zenon
<1> QED
  BY <1>1, <1>2, <1>3, Zenon

(* Membership in AnchorsAt, unfolded. *)
LEMMA InAnchorsAt ==
    ASSUME NEW b \in Heads, NEW x
    PROVE  x \in AnchorsAt[b] <=> Stands(x, Chain[b])
  BY InStanding, Zenon DEF AnchorsAt

(* From the anchors of src, the scheduled inserts and removals yield those  *)
(* of dst.                                                                  *)
LEMMA PathAnchors ==
    ASSUME NEW src \in Block, NEW dst \in Block, NEW S, Good(src, S), NEW a,
           AnchorsAt[src] \ Gather(Consumed, S) \subseteq a,
           a \subseteq AnchorsAt[src] \cup Gather(Created, S)
    PROVE  LET b == (a \ AnchorsToRemove(src, dst)) \cup AnchorsToInsert(src, dst)
           IN  /\ AnchorsAt[dst] \ Gather(Consumed, S) \subseteq b
               /\ b \subseteq AnchorsAt[dst] \cup Gather(Created, S)
<1> DEFINE F == Chain[src] \cap Chain[dst]
           U == Undone(src, dst)
           V == Applied(src, dst)
           Ins == AnchorsToInsert(src, dst)
           Rem == AnchorsToRemove(src, dst)
<1>1. src \in Heads /\ dst \in Heads
  BY Zenon DEF Heads
<1>2. ASSUME NEW x
      PROVE  /\ x \in GivenBack(U) => Stands(x, F) \/ x \in Gather(Created, S)
             /\ ((\E c \in U : Leaves(c, x)) /\ x \notin GivenBack(U) /\ Stands(x, F))
                  => x \in Gather(Consumed, S)
             /\ (~(\E c \in U : Leaves(c, x)) /\ Stands(x, Chain[src])) => Stands(x, F)
             /\ (~(\E c \in U : Leaves(c, x)) /\ x \notin GivenBack(U) /\ Stands(x, F))
                  => Stands(x, Chain[src]) \/ x \in Gather(Consumed, S)
  BY UndoAnchors, Zenon
<1>3. ASSUME NEW x
      PROVE  /\ x \in Ins <=> \/ Stands(x, V)
                              \/ x \in GivenBack(U) /\ \A v \in V : x \notin Consumed[v]
             /\ x \in Rem <=> /\ \/ \E v \in V : x \in Consumed[v]
                                 \/ \E c \in U : Leaves(c, x)
                              /\ x \notin Ins
             /\ x \in AnchorsAt[dst]
                  <=> \/ Stands(x, V)
                      \/ Stands(x, F) /\ \A v \in V : x \notin Consumed[v]
             /\ x \in AnchorsAt[src] <=> Stands(x, Chain[src])
  BY <1>1, InInsert, InRemove, ApplyAnchors, InAnchorsAt, Zenon
<1> HIDE DEF F, U, V, Ins, Rem
<1>4. ASSUME NEW x \in AnchorsAt[dst] \ Gather(Consumed, S) PROVE x \in (a \ Rem) \cup Ins
  <2>1. CASE Stands(x, V)
    BY <1>3, <2>1, Zenon
  <2>2. CASE Stands(x, F) /\ \A v \in V : x \notin Consumed[v]
    <3>1. CASE x \in GivenBack(U)
      BY <1>3, <2>2, <3>1, Zenon
    <3>2. CASE x \notin GivenBack(U)
      <4>1. ~(\E c \in U : Leaves(c, x))
        BY <1>2, <2>2, <3>2, Zenon
      <4>2. Stands(x, Chain[src])
        BY <1>2, <2>2, <3>2, <4>1, Zenon
      <4>3. x \in a
        BY <1>3, <4>2, Zenon
      <4>4. x \notin Rem
        BY <1>3, <2>2, <4>1, Zenon
      <4> QED
        BY <4>3, <4>4, Zenon
    <3> QED
      BY <3>1, <3>2, Zenon
  <2> QED
    BY <1>3, <2>1, <2>2, Zenon
<1>5. ASSUME NEW x \in (a \ Rem) \cup Ins PROVE x \in AnchorsAt[dst] \cup Gather(Created, S)
  <2>1. CASE x \in Ins
    BY <1>2, <1>3, <2>1, Zenon
  <2>2. CASE x \in a /\ x \notin Rem /\ x \notin Ins
    <3>1. (\A v \in V : x \notin Consumed[v]) /\ ~(\E c \in U : Leaves(c, x))
      BY <1>3, <2>2, Zenon
    <3>2. x \in AnchorsAt[src] \/ x \in Gather(Created, S)
      BY <2>2, Zenon
    <3>3. Stands(x, F) \/ x \in Gather(Created, S)
      BY <1>2, <1>3, <3>1, <3>2, Zenon
    <3> QED
      BY <1>3, <3>1, <3>3, Zenon
  <2> QED
    BY <2>1, <2>2, Zenon
<1>6. /\ AnchorsAt[dst] \ Gather(Consumed, S) \subseteq (a \ Rem) \cup Ins
      /\ (a \ Rem) \cup Ins \subseteq AnchorsAt[dst] \cup Gather(Created, S)
  BY <1>4, <1>5, Zenon
<1> QED
  BY <1>6, Zenon DEF Ins, Rem

(* The same for the nullifiers: no two blocks of src spend the same one. *)
LEMMA PathNullifiers ==
    ASSUME NEW src \in Block, NEW dst \in Block, NEW S, Good(src, S), NEW n,
           NullifiersAt[src] \subseteq n,
           n \subseteq NullifiersAt[src] \cup Gather(Nullifiers, S)
    PROVE  LET m == (n \ Gather(Nullifiers, Undone(src, dst)))
                       \cup Gather(Nullifiers, Applied(src, dst))
           IN  /\ NullifiersAt[dst] \subseteq m
               /\ m \subseteq NullifiersAt[dst] \cup Gather(Nullifiers, S)
<1> DEFINE F == Chain[src] \cap Chain[dst]
           U == Undone(src, dst)
           V == Applied(src, dst)
<1>1. Chain[src] = F \cup U /\ Chain[dst] = F \cup V
  BY Zenon DEF Undone, Applied
<1>2. src \in Heads /\ dst \in Heads
  BY Zenon DEF Heads
<1>3. ASSUME NEW u \in U, NEW f \in F, NEW x \in Nullifiers[u] PROVE x \notin Nullifiers[f]
  <2>1. u \in Chain[src] \ {Genesis} /\ f \in Chain[src] /\ Height[f] < Height[u]
    BY Fork, Zenon
  <2>2. f \in Chain[Parent[u]] /\ Parent[u] \in Heads
    BY <2>1, BelowParent DEF Heads
  <2>3. Nullifiers[u] \cap NullifiersAt[Parent[u]] = {}
    BY <2>1, Zenon DEF Good, Sound
  <2>4. x \notin Gather(Nullifiers, Chain[Parent[u]])
    BY <2>2, <2>3, Zenon DEF NullifiersAt
  <2> QED
    BY <2>2, <2>4, InGather, Zenon
<1>4. /\ NullifiersAt[src] = Gather(Nullifiers, F \cup U)
      /\ NullifiersAt[dst] = Gather(Nullifiers, F \cup V)
  BY <1>1, <1>2, Zenon DEF NullifiersAt
<1> HIDE DEF F, U, V
<1>5. ASSUME NEW x
      PROVE  /\ x \in NullifiersAt[src] <=> \E b \in F \cup U : x \in Nullifiers[b]
             /\ x \in NullifiersAt[dst] <=> \E b \in F \cup V : x \in Nullifiers[b]
             /\ x \in Gather(Nullifiers, U) <=> \E b \in U : x \in Nullifiers[b]
             /\ x \in Gather(Nullifiers, V) <=> \E b \in V : x \in Nullifiers[b]
  BY <1>4, InGather
<1>6. /\ NullifiersAt[dst] \subseteq (n \ Gather(Nullifiers, U)) \cup Gather(Nullifiers, V)
      /\ (n \ Gather(Nullifiers, U)) \cup Gather(Nullifiers, V)
           \subseteq NullifiersAt[dst] \cup Gather(Nullifiers, S)
  BY <1>3, <1>5, Zenon
<1> QED
  BY <1>6, Zenon DEF U, V

(* The journaled writes carry the stores of src to those of dst. *)
LEMMA PathRepairable ==
    ASSUME NEW src \in Block, NEW dst \in Block, NEW S, Good(src, S),
           NEW n, NEW a, Stores(src, n, a, S)
    PROVE  Repairable(src, dst, n, a, S)
  BY PathAnchors, PathNullifiers, Zenon DEF Stores, Repairable

(* Empty stores are carried to any block by all of its chain. *)
LEMMA RebuildRepairable ==
    ASSUME NEW b \in Block, NEW S
    PROVE  /\ Repairable(None, b, {}, {}, S)
           /\ Gather(Nullifiers, Undone(None, b)) = {}
<1>1. Undone(None, b) = {} /\ Applied(None, b) = Chain[b] /\ b \in Heads
  BY ChainNone, Zenon DEF Undone, Applied, Heads
<1>2. Gather(Nullifiers, {}) = {}
  BY Zenon DEF Gather
<1>3. ({} \ Gather(Nullifiers, Undone(None, b))) \cup Gather(Nullifiers, Applied(None, b))
        = NullifiersAt[b]
  BY <1>1, Zenon DEF NullifiersAt
<1>4. \A x : x \in AnchorsToInsert(None, b) <=> Stands(x, Chain[b])
  BY <1>1, InInsert, InGivenBack
<1>5. \A x : x \in AnchorsToInsert(None, b) <=> x \in AnchorsAt[b]
  BY <1>1, <1>4, InAnchorsAt, Zenon
<1>6. ({} \ AnchorsToRemove(None, b)) \cup AnchorsToInsert(None, b) = AnchorsAt[b]
  BY <1>5, Zenon
<1>7. Stores(b, NullifiersAt[b], AnchorsAt[b], S)
  BY Zenon DEF Stores
<1> QED
  BY <1>1, <1>2, <1>3, <1>6, <1>7, Zenon DEF Repairable

(* More rejected blocks allow more. *)
LEMMA MoreStrays ==
    ASSUME NEW S, NEW T, S \subseteq T
    PROVE  /\ \A b : Good(b, S) => Good(b, T)
           /\ \A b, n, a : Stores(b, n, a, S) => Stores(b, n, a, T)
           /\ \A src, dst, n, a :
                Repairable(src, dst, n, a, S) => Repairable(src, dst, n, a, T)
<1>1. \A f : Gather(f, S) \subseteq Gather(f, T)
  BY Zenon DEF Gather
<1>2. Gather(Nullifiers, S) \subseteq Gather(Nullifiers, T)
      /\ Gather(Created, S) \subseteq Gather(Created, T)
      /\ Gather(Consumed, S) \subseteq Gather(Consumed, T)
  BY <1>1, Zenon
<1>3. \A b, n, a : Stores(b, n, a, S) => Stores(b, n, a, T)
  BY <1>2, Zenon DEF Stores
<1>4. \A c : Sound(c, S) => Sound(c, T)
  BY <1>2, Zenon DEF Sound
<1> QED
  BY <1>3, <1>4, Zenon DEF Good, Repairable

(* A database that is as it should be stays so. *)
LEMMA MoreStraysOnDisk ==
    ASSUME NEW S, NEW T, S \subseteq T, NEW d, DbOK(d, S)
    PROVE  DbOK(d, T)
<1>1. /\ \A b : Good(b, S) => Good(b, T)
      /\ \A b, n, a : Stores(b, n, a, S) => Stores(b, n, a, T)
      /\ \A src, dst, n, a :
           Repairable(src, dst, n, a, S) => Repairable(src, dst, n, a, T)
  BY MoreStrays, Zenon
<1>2. IsDb(d) /\ SnapshotOK(d, S) /\ PinOK(d, S) /\ MarkerOK(d, S) /\ WholeOK(d, S)
  BY Zenon DEF DbOK
<1>3. SnapshotOK(d, T) /\ WholeOK(d, T)
  BY <1>1, <1>2, Zenon DEF SnapshotOK, WholeOK, DbAt
<1>4. PinOK(d, T)
  BY <1>1, <1>2, Zenon DEF PinOK
<1>5. MarkerOK(d, T)
  BY <1>1, <1>2, Zenon DEF MarkerOK
<1> QED
  BY <1>2, <1>3, <1>4, <1>5, Zenon DEF DbOK

(* The genesis block spends and consumes nothing twice. *)
LEMMA GoodGenesis == \A S : Good(Genesis, S)
  BY ChainGenesis, Tree, Zenon DEF Good

(* A rejected block leaves no more than its own entries behind. *)
LEMMA RejectedStores ==
    ASSUME NEW b \in Block \ {Genesis}, NEW n, NEW a, NEW S, Stores(b, n, a, S)
    PROVE  Stores(Parent[b], n, a, S \cup {b})
<1>1. Parent[b] \in Block /\ Applied(Parent[b], b) = {b} /\ Undone(Parent[b], b) = {}
  BY OneBlockPath, Zenon
<1>2. Chain[b] = {b} \cup Chain[Parent[b]] /\ b \in Heads /\ Parent[b] \in Heads
  BY <1>1, ChainParent, Zenon DEF Heads
<1>3. Chain[Parent[b]] \cap Chain[b] = Chain[Parent[b]]
  BY <1>2, Zenon
<1>4. \A x : x \in AnchorsAt[b]
        <=> \/ Stands(x, {b})
            \/ Stands(x, Chain[Parent[b]]) /\ x \notin Consumed[b]
  <2> SUFFICES ASSUME NEW x
               PROVE  x \in AnchorsAt[b]
                        <=> \/ Stands(x, {b})
                            \/ Stands(x, Chain[Parent[b]]) /\ x \notin Consumed[b]
    BY Zenon
  <2>1. Stands(x, Chain[b])
          <=> \/ Stands(x, Applied(Parent[b], b))
              \/ /\ Stands(x, Chain[Parent[b]] \cap Chain[b])
                 /\ \A v \in Applied(Parent[b], b) : x \notin Consumed[v]
    BY <1>1, ApplyAnchors, Zenon
  <2>2. x \in AnchorsAt[b] <=> Stands(x, Chain[b])
    BY <1>2, InAnchorsAt, Zenon
  <2> QED
    BY <1>1, <1>3, <2>1, <2>2, Zenon
<1>5. \A x : Stands(x, {b}) => x \in Created[b]
  BY Zenon DEF Stands
<1>6. \A x : x \in AnchorsAt[Parent[b]] <=> Stands(x, Chain[Parent[b]])
  BY <1>2, InAnchorsAt, Zenon
<1>7. /\ AnchorsAt[b] \subseteq AnchorsAt[Parent[b]] \cup Created[b]
      /\ AnchorsAt[Parent[b]] \ Consumed[b] \subseteq AnchorsAt[b]
  BY <1>4, <1>5, <1>6, Zenon
<1>8. NullifiersAt[b] = NullifiersAt[Parent[b]] \cup Nullifiers[b]
  BY <1>2, Zenon DEF NullifiersAt, Gather
<1>9. \A f : Gather(f, S \cup {b}) = Gather(f, S) \cup f[b]
  BY Zenon DEF Gather
<1>10. /\ Gather(Nullifiers, S \cup {b}) = Gather(Nullifiers, S) \cup Nullifiers[b]
       /\ Gather(Created, S \cup {b}) = Gather(Created, S) \cup Created[b]
       /\ Gather(Consumed, S \cup {b}) = Gather(Consumed, S) \cup Consumed[b]
  BY <1>9, Zenon
<1> QED
  BY <1>7, <1>8, <1>10, Zenon DEF Stores
-----------------------------------------------------------------------------
(* The velocity log.                                                        *)

(* Connecting a block records it. *)
LEMMA RecordLogOf ==
    ASSUME NEW b \in Block \ {Genesis}, NEW log, LogOf(log, Parent[b])
    PROVE  LogOf(RecordBlock(log, Height[b], ValueBalance[b]), b)
<1> DEFINE h == Height[b]
           new == RecordBlock(log, h, ValueBalance[b])
<1>1. Chain[b] = {b} \cup Chain[Parent[b]]
  BY ChainParent, Zenon
<1>2. /\ DOMAIN new = DOMAIN log \cup {h}
      /\ new = [k \in DOMAIN new |-> new[k]]
      /\ new[h] = NonNegative(ValueBalance[b])
      /\ \A k \in DOMAIN log : k # h => new[k] = log[k]
  BY Zenon DEF RecordBlock
<1> HIDE DEF new
<1>3. ASSUME NEW k \in DOMAIN new
      PROVE  \E c \in Chain[b] : k = Height[c] /\ new[k] = NonNegative(ValueBalance[c])
  BY <1>1, <1>2 DEF LogOf
<1> QED
  BY <1>2, <1>3, Zenon DEF LogOf, new

(* The domain and the values of a rebuilt velocity log. *)
LEMMA RebuiltLog ==
    ASSUME NEW b \in Block
    PROVE  /\ VelocityAt[b] = [h \in DOMAIN VelocityAt[b] |-> VelocityAt[b][h]]
           /\ DOMAIN VelocityAt[b]
                = {Height[c] : c \in {d \in Chain[b] : Height[d] >= Height[b] - 2 * Window}}
           /\ \A c \in Chain[b] : Height[c] >= Height[b] - 2 * Window
                => VelocityAt[b][Height[c]] = NonNegative(ValueBalance[c])
<1> DEFINE kept == {c \in Chain[b] : Height[c] >= Height[b] - 2 * Window}
<1>1. VelocityAt[b] = [h \in {Height[c] : c \in kept} |->
                          NonNegative(NetOut({c \in kept : Height[c] = h}))]
  BY Zenon DEF VelocityAt
<1>2. ASSUME NEW c \in kept PROVE {d \in kept : Height[d] = Height[c]} = {c}
  BY ChainHeightUnique, Zenon
<1>3. \A c \in kept : c \in Block
  BY ChainRooted, Zenon
<1>4. \A c \in kept : VelocityAt[b][Height[c]] = NonNegative(NetOut({c}))
  <2> HIDE DEF kept
  <2> QED
    BY <1>1, <1>2, Zenon
<1>5. \A c \in kept : VelocityAt[b][Height[c]] = NonNegative(ValueBalance[c])
  BY <1>3, <1>4, NetOutOne, Zenon
<1>6. /\ VelocityAt[b] = [h \in DOMAIN VelocityAt[b] |-> VelocityAt[b][h]]
      /\ DOMAIN VelocityAt[b] = {Height[c] : c \in kept}
  <2> HIDE DEF kept
  <2> QED
    BY <1>1, Zenon
<1> QED
  BY <1>5, <1>6, Zenon

(* A rebuilt log records what the blocks of the chain take out. *)
LEMMA RebuiltLogOf ==
    ASSUME NEW b \in Block
    PROVE  LogOf(VelocityAt[b], b)
  BY RebuiltLog DEF LogOf

(* A true log that covers the window is the rebuilt one, in the window. *)
LEMMA CoveredWindow ==
    ASSUME NEW b \in Block, NEW log, LogOf(log, b), Covers(log, b)
    PROVE  /\ \A h \in Nat : h > Height[b] + 1 - Window
                => (h \in DOMAIN log <=> h \in DOMAIN VelocityAt[b])
           /\ \A h \in DOMAIN log : h > Height[b] + 1 - Window
                => log[h] = VelocityAt[b][h]
           /\ DOMAIN log \subseteq Nat /\ DOMAIN VelocityAt[b] \subseteq Nat
<1>1. Window \in Nat /\ Window > 0 /\ Height[b] \in Nat
  BY JournalAssumption
<1>2. \A c \in Chain[b] : Height[c] \in Nat
  BY ChainRooted, Tree, Zenon
<1>3. DOMAIN VelocityAt[b] \subseteq Nat /\ DOMAIN log \subseteq Nat
  <2>1. \A h \in DOMAIN log : h \in Nat
    BY <1>2, Zenon DEF LogOf
  <2>2. \A h \in DOMAIN VelocityAt[b] : \E c \in Chain[b] : h = Height[c]
    <3>1. DOMAIN VelocityAt[b]
            = {Height[c] : c \in {d \in Chain[b] : Height[d] >= Height[b] - 2 * Window}}
      BY RebuiltLog, Zenon
    <3> QED
      BY <3>1, Zenon
  <2> QED
    BY <1>2, <2>1, <2>2, Zenon
<1>4. ASSUME NEW c \in Chain[b], Height[c] > Height[b] + 1 - Window
      PROVE  Height[c] >= Height[b] - 2 * Window
  BY <1>1, <1>2, <1>4
<1>5. ASSUME NEW h \in DOMAIN log, h > Height[b] + 1 - Window
      PROVE  h \in DOMAIN VelocityAt[b] /\ log[h] = VelocityAt[b][h]
  <2>1. PICK c \in Chain[b] : h = Height[c] /\ log[h] = NonNegative(ValueBalance[c])
    BY <1>5, Zenon DEF LogOf
  <2>2. Height[c] >= Height[b] - 2 * Window
    BY <1>4, <1>5, <2>1, Zenon
  <2>3. /\ DOMAIN VelocityAt[b]
             = {Height[d] : d \in {e \in Chain[b] : Height[e] >= Height[b] - 2 * Window}}
        /\ VelocityAt[b][Height[c]] = NonNegative(ValueBalance[c])
    BY <2>2, RebuiltLog, Zenon
  <2>4. h \in DOMAIN VelocityAt[b]
    BY <2>1, <2>2, <2>3, Zenon
  <2> QED
    BY <2>1, <2>3, <2>4, Zenon
<1>6. ASSUME NEW h \in DOMAIN VelocityAt[b], h > Height[b] + 1 - Window
      PROVE  h \in DOMAIN log
  <2>1. PICK c \in Chain[b] : h = Height[c]
    <3>1. DOMAIN VelocityAt[b]
            = {Height[c] : c \in {d \in Chain[b] : Height[d] >= Height[b] - 2 * Window}}
      BY RebuiltLog, Zenon
    <3> QED
      BY <1>6, <3>1, Zenon
  <2> QED
    BY <1>6, <2>1, Zenon DEF Covers
<1> QED
  BY <1>3, <1>5, <1>6, Zenon

(* So it allows the next block what the blocks say. *)
LEMMA CoveredVelocity ==
    ASSUME NEW b \in Block, NEW log, LogOf(log, b)
    PROVE  VelocityOf(b, log)
<1> SUFFICES ASSUME Covers(log, b)
             PROVE  WindowTotal(log, Height[b] + 1) = WindowTotal(VelocityAt[b], Height[b] + 1)
  BY Zenon DEF VelocityOf, SameWindow
<1>1. /\ \A h \in Nat : h > Height[b] + 1 - Window
           => (h \in DOMAIN log <=> h \in DOMAIN VelocityAt[b])
      /\ \A h \in DOMAIN log : h > Height[b] + 1 - Window => log[h] = VelocityAt[b][h]
      /\ DOMAIN log \subseteq Nat /\ DOMAIN VelocityAt[b] \subseteq Nat
  BY CoveredWindow, Zenon
<1>2. Window \in Nat /\ Height[b] \in Nat
  BY JournalAssumption, Zenon
<1>3. InWindow(log, Height[b] + 1) = InWindow(VelocityAt[b], Height[b] + 1)
  BY <1>1, <1>2 DEF InWindow, Restrict
<1> QED
  BY <1>3, Zenon DEF WindowTotal

(* A log that covers the window rates a block as a rebuilt log does. *)
LEMMA CoveredVerdict ==
    ASSUME NEW b \in Block \ {Genesis}, NEW log, LogOf(log, Parent[b]),
           Covers(log, Parent[b]), NEW v
    PROVE  WindowTotal(RecordBlock(log, Height[b], v), Height[b])
             = WindowTotal(RecordBlock(VelocityAt[Parent[b]], Height[b], v), Height[b])
<1> DEFINE log2 == VelocityAt[Parent[b]]
           new1 == RecordBlock(log, Height[b], v)
           new2 == RecordBlock(log2, Height[b], v)
<1>1. Parent[b] \in Block /\ Height[b] = Height[Parent[b]] + 1
  BY Tree, Zenon
<1>2. /\ \A h \in Nat : h > Height[b] - Window => (h \in DOMAIN log <=> h \in DOMAIN log2)
      /\ \A h \in DOMAIN log : h > Height[b] - Window => log[h] = log2[h]
      /\ DOMAIN log \subseteq Nat /\ DOMAIN log2 \subseteq Nat
  <2> DEFINE lim == Height[Parent[b]] + 1 - Window
  <2>1. lim = Height[b] - Window
    BY <1>1, Tree, JournalAssumption
  <2>2. /\ \A h \in Nat : h > lim => (h \in DOMAIN log <=> h \in DOMAIN log2)
        /\ \A h \in DOMAIN log : h > lim => log[h] = log2[h]
        /\ DOMAIN log \subseteq Nat /\ DOMAIN log2 \subseteq Nat
    BY <1>1, CoveredWindow, Zenon
  <2> HIDE DEF lim, log2
  <2> QED
    BY <2>1, <2>2, Zenon
<1>3. Window \in Nat /\ Window > 0 /\ Height[b] \in Nat
  BY JournalAssumption
<1>4. /\ DOMAIN new1 = DOMAIN log \cup {Height[b]}
      /\ \A k \in DOMAIN new1 :
           new1[k] = IF k = Height[b] THEN NonNegative(v) ELSE log[k]
  BY Zenon DEF RecordBlock
<1>5. /\ DOMAIN new2 = DOMAIN log2 \cup {Height[b]}
      /\ \A k \in DOMAIN new2 :
           new2[k] = IF k = Height[b] THEN NonNegative(v) ELSE log2[k]
  BY Zenon DEF RecordBlock
<1> HIDE DEF new1, new2, log2
<1>6. {k \in DOMAIN new1 : Height[b] - Window < k /\ k <= Height[b]}
        = {k \in DOMAIN new2 : Height[b] - Window < k /\ k <= Height[b]}
  BY <1>2, <1>3, <1>4, <1>5, Zenon
<1>7. ASSUME NEW k \in DOMAIN new1, Height[b] - Window < k
      PROVE  new1[k] = new2[k]
  BY <1>2, <1>3, <1>4, <1>5, <1>7, Zenon
<1>8. InWindow(new1, Height[b]) = InWindow(new2, Height[b])
  BY <1>6, <1>7, Zenon DEF InWindow, Restrict
<1> QED
  BY <1>8, Zenon DEF WindowTotal, new1, new2, log2

-----------------------------------------------------------------------------
(* The writes preserve the invariant.                                       *)

(* The live tree and pool, carried along the path of the operation. *)
LEMMA Projected ==
    ASSUME NEW src \in Heads, NEW dst \in Heads,
           mem.tree = Chain[src], mem.pool = PoolAt[src]
    PROVE  ProjectedTree(src, dst) = Chain[dst] /\ ProjectedPool(src, dst) = PoolAt[dst]
  BY PathProjects, Zenon DEF ProjectedTree, ProjectedPool

(* ConnectBlock records the egress, or rejects the block over the cap. *)
LEMMA ConnectVelocityStep ==
    ASSUME IInv, ConnectVelocity
    PROVE  IInv'
<1> DEFINE h == Height[op.dst]
           egress == mem.pool - ProjectedPool(op.src, op.dst)
           next == RecordBlock(mem.velocity, h, egress)
<1>1. /\ op.kind = "connect" /\ op.kind \in Running /\ OpOK /\ Head(op.todo) = "velocity"
      /\ IsDb(db) /\ IsMem(mem)
  BY Zenon DEF ConnectVelocity, Doing, Is, IInv, DisksOK, DbOK, Running
<1>2. Left = 6
  BY <1>1, StepsLeft, Zenon DEF WritesLeft
<1>3. /\ op.dst \in Block \ {Genesis} /\ op.src = Parent[op.dst] /\ op.src = tip
      /\ Good(op.dst, strays)
  BY <1>1, Zenon DEF OpOK
<1>4. VelocityPending /\ PoolPending /\ StatePending
  BY <1>1, <1>2 DEF VelocityPending, PoolPending, StatePending
<1>5. /\ mem.tree = Chain[op.src] /\ mem.pool = PoolAt[op.src] /\ db.pool = PoolAt[op.src]
      /\ LogOf(mem.velocity, op.src) /\ LogOf(Loaded(db.velocity), op.src)
      /\ db.snapshot.tip = op.src
  BY <1>1, <1>4, Zenon DEF IInv, PoolPhase, PersistPhase
<1>6. egress = ValueBalance[op.dst]
  <2>1. op.src \in Heads /\ op.dst \in Heads
    BY <1>3, Tree, Zenon DEF Heads
  <2>2. ProjectedPool(op.src, op.dst) = PoolAt[op.dst]
    BY <1>5, <2>1, Projected, Zenon
  <2> QED
    BY <1>3, <1>5, <2>2, PoolOfChild, Zenon
<1>7. CASE WindowTotal(next, h) > WindowCap(mem.pool)
  <2>1. /\ failed' = failed \cup {op.dst} /\ strays' = strays \cup {op.dst}
        /\ op' = At("idle") /\ db' = db /\ unsynced' = unsynced
        /\ coins' = coins /\ pruned' = pruned /\ tip' = tip /\ mem' = mem
    BY <1>7, Zenon DEF ConnectVelocity
  <2>2. Stores(op.dst, db.nullifiers, db.anchors, strays)
    BY <1>1, <1>2, StoresDone
  <2>3. Stores(tip, db.nullifiers, db.anchors, strays')
    BY <1>3, <2>1, <2>2, RejectedStores, Zenon
  <2>4. strays \subseteq strays'
    BY <2>1, Zenon
  <2>5. RestOK'
    BY <1>3, <1>5, <2>1, <2>3, Zenon DEF RestOK, SettledAt, MemAt, DbAt, At, Task
  <2>6. OpOK'
    BY <2>1, Zenon DEF OpOK, At, Task, IsOp, Running
  <2>7. Good(tip, strays') /\ Good(coins, strays')
    BY <2>4, MoreStrays, Zenon DEF IInv
  <2>8. DisksOK'
    <3>1. \A d \in {db} \cup unsynced : DbOK(d, strays')
      BY <2>4, MoreStraysOnDisk, Zenon DEF IInv, DisksOK
    <3> QED
      BY <2>1, <3>1, Zenon DEF IInv, DisksOK
  <2>9. op'.kind \notin Running
    BY <2>1, Zenon DEF At, Task, Running
  <2> QED
    BY <1>1, <2>1, <2>5, <2>6, <2>7, <2>8, <2>9, Zenon
       DEF IInv, MarkerPhase, StoresPhase, PoolPhase, PersistPhase
<1>8. CASE ~(WindowTotal(next, h) > WindowCap(mem.pool))
  <2> DEFINE log == Prune(next, h - 2 * Window)
  <2>1. /\ db' = [db EXCEPT !.velocity = log] /\ Synced /\ Advance
        /\ coins' = coins /\ tip' = tip /\ mem' = mem /\ strays' = strays
    BY <1>8, Zenon DEF ConnectVelocity
  <2>2. LogOf(next, op.dst)
    BY <1>3, <1>5, <1>6, RecordLogOf, Zenon
  <2>3. LogOf(log, op.dst)
    <3> HIDE DEF next
    <3> QED
      BY <2>2, RestrictLogOf, Zenon DEF Prune
  <2>4. LogOf(Loaded(log), op.dst)
    BY <2>3, LoadedLogOf, Zenon
  <2> HIDE DEF log
  <2>5. /\ IsDb(db') /\ db'.nullifiers = db.nullifiers /\ db'.anchors = db.anchors
        /\ db'.velocity = log /\ db'.pool = db.pool
        /\ db'.snapshot = db.snapshot /\ db'.accumulator = db.accumulator
        /\ db'.pin = db.pin /\ db'.marker = db.marker
    BY <1>1, <2>1, Zenon DEF IsDb
  <2>6. op'.kind = op.kind /\ op'.src = op.src /\ op'.dst = op.dst /\ Left' = Left - 1
    <3>1. Left > 1
      BY <1>2
    <3> QED
      BY <1>1, <2>1, <3>1, AdvanceStep, Zenon
  <2>7. ~VelocityPending' /\ PoolPending'
    BY <1>1, <1>2, <2>6 DEF VelocityPending, PoolPending
  <2>8. PoolPhase'
    BY <1>1, <1>5, <2>1, <2>4, <2>5, <2>6, <2>7, Zenon DEF PoolPhase
  <2> QED
    BY <1>1, <1>2, <2>1, <2>5, <2>8, PoolStep DEF Journaled
<1> QED
  BY <1>7, <1>8, Zenon

(* A redo or a rebuild replaces the log by the one its blocks imply. *)
LEMMA RebuildVelocityStep ==
    ASSUME IInv, RebuildVelocity
    PROVE  IInv'
<1>1. /\ op.kind \in {"redo", "rebuild"} /\ op.kind \in Running /\ OpOK
      /\ Head(op.todo) = "velocity" /\ IsDb(db) /\ IsMem(mem)
  BY Zenon DEF RebuildVelocity, Doing, Is, IInv, DisksOK, DbOK, Running
<1>2. \/ op.kind = "redo" /\ Left = 6
      \/ op.kind = "rebuild" /\ Left = 5
  BY <1>1, StepsLeft, Zenon DEF WritesLeft
<1>3. op.dst \in Block /\ op.dst = tip
  BY <1>1, Zenon DEF OpOK, Good
<1>4. CASE RecentBlocks(op.dst)
  <2> DEFINE next == VelocityAt[op.dst]
  <2>1. /\ db' = [db EXCEPT !.velocity = next] /\ mem' = [mem EXCEPT !.velocity = next]
        /\ Synced /\ Advance /\ coins' = coins /\ tip' = tip /\ strays' = strays
    BY <1>4, Zenon DEF RebuildVelocity
  <2>2. LogOf(next, op.dst)
    BY <1>3, RebuiltLogOf, Zenon
  <2>3. LogOf(Loaded(next), op.dst)
    BY <2>2, LoadedLogOf, Zenon
  <2> HIDE DEF next
  <2>4. /\ IsDb(db') /\ db'.nullifiers = db.nullifiers /\ db'.anchors = db.anchors
        /\ db'.velocity = next /\ db'.pool = db.pool
        /\ db'.snapshot = db.snapshot /\ db'.accumulator = db.accumulator
        /\ db'.pin = db.pin /\ db'.marker = db.marker
    BY <1>1, <2>1, Zenon DEF IsDb
  <2>5. /\ IsMem(mem') /\ mem'.tree = mem.tree /\ mem'.pool = mem.pool
        /\ mem'.velocity = next
    BY <1>1, <2>1, Zenon DEF IsMem
  <2>6. op'.kind = op.kind /\ op'.src = op.src /\ op'.dst = op.dst /\ Left' = Left - 1
    <3>1. Left > 1
      BY <1>2
    <3> QED
      BY <1>1, <2>1, <3>1, AdvanceStep, Zenon
  <2>7. ~VelocityPending' /\ (PoolPending' <=> op.kind = "redo")
        /\ (PoolPending <=> op.kind = "redo")
    BY <1>2, <2>6 DEF VelocityPending, PoolPending
  <2>8. ~PoolPending => mem.tree = Chain[op.dst] /\ mem.pool = PoolAt[op.dst]
                        /\ db.pool = PoolAt[op.dst]
    BY <1>1, Zenon DEF IInv, PoolPhase
  <2>9. PoolPhase'
    BY <1>1, <2>2, <2>3, <2>4, <2>5, <2>6, <2>7, <2>8, Zenon DEF PoolPhase
  <2>10. Left >= 5 /\ Left <= 6 /\ op.kind \in Journaled \cup {"rebuild"}
    BY <1>2 DEF Journaled
  <2> QED
    BY <2>1, <2>4, <2>5, <2>9, <2>10, PoolStep, Zenon
<1>5. CASE ~RecentBlocks(op.dst)
  <2>1. /\ op' = At("unresumed") /\ db' = db /\ unsynced' = unsynced /\ mem' = mem
        /\ coins' = coins /\ tip' = tip /\ strays' = strays /\ pruned' = pruned
    BY <1>5, Zenon DEF RebuildVelocity
  <2>2. op'.kind = "unresumed" /\ OpOK'
    BY <2>1, Zenon DEF OpOK, At, Task, IsOp, Running
  <2>3. ~RecentBlocks(tip)'
    BY <1>3, <1>5, <2>1, Zenon DEF RecentBlocks, Readable
  <2>4. RestOK'
    BY <2>2, <2>3, Zenon DEF RestOK
  <2>5. DisksOK'
    BY <2>1, Zenon DEF IInv, DisksOK
  <2> QED
    BY <2>1, <2>2, <2>4, <2>5, Zenon
       DEF IInv, MarkerPhase, StoresPhase, PoolPhase, PersistPhase, Running
<1> QED
  BY <1>4, <1>5, Zenon

(* The pool balance follows the other stores to the target. *)
LEMMA WritePoolBalanceStep ==
    ASSUME IInv, WritePoolBalance
    PROVE  IInv'
<1> DEFINE tree == IF Is({"redo"}) THEN db.marker.tree
                   ELSE ProjectedTree(op.src, op.dst)
           pool == IF Is({"redo"}) THEN db.marker.pool
                   ELSE ProjectedPool(op.src, op.dst)
<1>1. /\ op.kind \in Running /\ OpOK /\ Head(op.todo) = "pool" /\ IsDb(db) /\ IsMem(mem)
  BY Zenon DEF WritePoolBalance, Doing, Is, IInv, DisksOK, DbOK, Running
<1>2. /\ db' = [db EXCEPT !.pool = pool]
      /\ mem' = [mem EXCEPT !.tree = tree, !.pool = pool, !.velocity = Loaded(db.velocity)]
      /\ Synced /\ Advance /\ coins' = coins /\ tip' = tip /\ strays' = strays
  BY Zenon DEF WritePoolBalance
<1>3. \/ op.kind \in {"connect", "redo"} /\ Left = 5
      \/ op.kind \in {"disconnect", "rebuild"} /\ Left = 6
  BY <1>1, StepsLeft, Zenon DEF WritesLeft
<1>4. PoolPending /\ (VelocityPending <=> op.kind \in {"disconnect", "rebuild"})
  BY <1>3 DEF VelocityPending, PoolPending
<1>5. tree = Chain[op.dst] /\ pool = PoolAt[op.dst]
  <2>1. CASE op.kind = "redo"
    <3>1. ~MarkerPending
      BY <1>3, <2>1 DEF MarkerPending
    <3>2. db.marker.prepared /\ db.marker.dst = op.dst
      BY <1>1, <2>1, <3>1, Zenon DEF IInv, MarkerPhase, Journaled
    <3>3. db.marker.tree = Chain[op.dst] /\ db.marker.pool = PoolAt[op.dst]
      BY <3>2, Zenon DEF IInv, DisksOK, DbOK, MarkerOK
    <3> QED
      BY <2>1, <3>3, Zenon DEF Is
  <2>2. CASE op.kind # "redo"
    <3>1. mem.tree = Chain[op.src] /\ mem.pool = PoolAt[op.src]
      BY <1>1, <1>4, <2>2, Zenon DEF IInv, PoolPhase
    <3>2. op.src \in Heads /\ op.dst \in Heads
      BY <1>1, <1>3, <2>2, Tree, Zenon DEF OpOK, Heads, Good
    <3> QED
      BY <2>2, <3>1, <3>2, Projected, Zenon DEF Is
  <2> QED
    BY <2>1, <2>2, Zenon
<1> HIDE DEF tree, pool
<1>6. /\ IsDb(db') /\ db'.nullifiers = db.nullifiers /\ db'.anchors = db.anchors
      /\ db'.velocity = db.velocity /\ db'.pool = PoolAt[op.dst]
      /\ db'.snapshot = db.snapshot /\ db'.accumulator = db.accumulator
      /\ db'.pin = db.pin /\ db'.marker = db.marker
  BY <1>1, <1>2, <1>5, Zenon DEF IsDb
<1>7. /\ IsMem(mem') /\ mem'.tree = Chain[op.dst] /\ mem'.pool = PoolAt[op.dst]
      /\ mem'.velocity = Loaded(db.velocity)
  BY <1>1, <1>2, <1>5, Zenon DEF IsMem
<1>8. op'.kind = op.kind /\ op'.src = op.src /\ op'.dst = op.dst /\ Left' = Left - 1
  <2>1. Left > 1
    BY <1>3
  <2> QED
    BY <1>1, <1>2, <2>1, AdvanceStep, Zenon
<1>9. ~PoolPending' /\ (VelocityPending' <=> VelocityPending)
  BY <1>3, <1>4, <1>8 DEF VelocityPending, PoolPending
<1>10. /\ ~VelocityPending => LogOf(Loaded(db.velocity), op.dst)
       /\ (VelocityPending /\ op.kind \in {"connect", "disconnect"})
            => LogOf(Loaded(db.velocity), op.src)
  BY <1>1, Zenon DEF IInv, PoolPhase
<1>11. PoolPhase'
  BY <1>6, <1>7, <1>8, <1>9, <1>10, Zenon DEF PoolPhase
<1>12. Left >= 5 /\ Left <= 6 /\ op.kind \in Journaled \cup {"rebuild"}
  BY <1>3 DEF Journaled
<1> QED
  BY <1>2, <1>6, <1>7, <1>11, <1>12, PoolStep, Zenon

(* A PREPARED marker opens a transition of stores that are whole. *)
LEMMA MarkerPrepared ==
    ASSUME IInv, WriteMarker, op.kind \in Journaled
    PROVE  /\ DisksOK'
           /\ db'.marker.prepared /\ db'.marker.src = op.src /\ db'.marker.dst = op.dst
           /\ Repairable(op.src, op.dst, db.nullifiers, db.anchors, strays)
<1> DEFINE marker == PreparedMarker(op.src, op.dst)
<1>1. op.kind \in Running /\ OpOK /\ Head(op.todo) = "marker" /\ IsDb(db)
  BY Zenon DEF WriteMarker, Doing, Is, IInv, DisksOK, DbOK
<1>2. db' = [db EXCEPT !.marker = marker] /\ Synced /\ strays' = strays
  BY Zenon DEF WriteMarker, Is, Journaled
<1>3. MarkerPending
  <2>1. \/ op.kind \in {"connect", "disconnect"} /\ Left = 10
        \/ op.kind = "redo" /\ Left = 11
        \/ op.kind = "rebuild" /\ Left = 9
    BY <1>1, StepsLeft, Zenon DEF WritesLeft
  <2> QED
    BY <2>1 DEF MarkerPending
<1>4. /\ op.dst \in Block /\ Good(op.dst, strays)
      /\ op.src \in Block /\ Good(op.src, strays)
  BY <1>1, Zenon DEF IInv, OpOK, Good, Journaled
<1>5. SettledAt(op.src)
  BY <1>1, <1>3, Zenon DEF IInv, MarkerPhase
<1>6. /\ mem.tree = Chain[op.src] /\ mem.pool = PoolAt[op.src] /\ db.pool = PoolAt[op.src]
      /\ Stores(op.src, db.nullifiers, db.anchors, strays)
      /\ db.snapshot.tip = op.src
  BY <1>5, Zenon DEF SettledAt, MemAt, DbAt
<1>7. /\ ProjectedTree(op.src, op.dst) = Chain[op.dst]
      /\ ProjectedPool(op.src, op.dst) = PoolAt[op.dst]
  BY <1>4, <1>6, Projected, Zenon DEF Heads
<1>8. /\ marker.prepared /\ marker.src = op.src /\ marker.dst = op.dst
      /\ marker.tree = Chain[op.dst] /\ marker.pool = PoolAt[op.dst]
  BY <1>7, Zenon DEF PreparedMarker
<1> HIDE DEF marker
<1>9. /\ IsDb(db') /\ db'.nullifiers = db.nullifiers /\ db'.anchors = db.anchors
      /\ db'.velocity = db.velocity /\ db'.pool = db.pool
      /\ db'.snapshot = db.snapshot /\ db'.accumulator = db.accumulator
      /\ db'.pin = db.pin /\ db'.marker = marker
  BY <1>1, <1>2, Zenon DEF IsDb
<1>10. SnapshotOK(db', strays) /\ PinOK(db', strays)
  <2>1. DbOK(db, strays)
    BY Zenon DEF IInv, DisksOK
  <2> QED
    BY <1>9, <2>1, Zenon DEF DbOK, SnapshotOK, PinOK
<1>11. Repairable(op.src, op.dst, db.nullifiers, db.anchors, strays)
  BY <1>4, <1>6, PathRepairable, Zenon
<1>12. MarkerOK(db', strays)
  BY <1>4, <1>6, <1>8, <1>9, <1>11, Zenon DEF MarkerOK
<1>13. WholeOK(db', strays)
  BY <1>8, <1>9, MarkerFacts, Zenon DEF WholeOK
<1>14. DisksOK'
  BY <1>2, <1>9, <1>10, <1>12, <1>13, Zenon DEF DisksOK, DbOK, Synced
<1> QED
  BY <1>8, <1>9, <1>11, <1>14, Zenon

(* With its marker written, the operation goes on. *)
LEMMA MarkerAdvance ==
    ASSUME IInv, WriteMarker, Advance
    PROVE  IInv'
<1> DEFINE marker == IF Is({"rebuild"}) THEN LegacyMarker(op.dst)
                     ELSE PreparedMarker(op.src, op.dst)
<1>1. op.kind \in Running /\ OpOK /\ Head(op.todo) = "marker" /\ IsDb(db)
  BY Zenon DEF WriteMarker, Doing, Is, IInv, DisksOK, DbOK
<1>2. /\ db' = [db EXCEPT !.marker = marker] /\ mem' = mem
      /\ Synced /\ Advance /\ coins' = coins /\ tip' = tip /\ strays' = strays
  BY Zenon DEF WriteMarker
<1>3. \/ op.kind \in {"connect", "disconnect"} /\ Left = 10
      \/ op.kind = "redo" /\ Left = 11
      \/ op.kind = "rebuild" /\ Left = 9
  BY <1>1, StepsLeft, Zenon DEF WritesLeft
<1>4. /\ OpOK' /\ RestOK' /\ op'.kind = op.kind /\ op'.src = op.src /\ op'.dst = op.dst
      /\ Left' = Left - 1
  <2>1. Left > 1
    BY <1>3
  <2> QED
    BY <1>1, <1>2, <2>1, AdvanceStep, Zenon
<1>5. /\ MarkerPending /\ ~MarkerPending' /\ ~WipePending' /\ ~WipePending
      /\ PoolPending /\ PoolPending' /\ VelocityPending /\ VelocityPending'
      /\ StatePending /\ StatePending' /\ AccumulatorPending'
      /\ AnchorInsertionPending'
      /\ RemovalPending' <=> op.kind \in {"disconnect", "redo"}
      /\ InsertionPending' <=> op.kind # "disconnect"
      /\ AnchorRemovalPending' <=> op.kind # "rebuild"
  BY <1>3, <1>4
     DEF MarkerPending, WipePending, PoolPending, VelocityPending, StatePending,
         AccumulatorPending, AnchorInsertionPending, RemovalPending, InsertionPending,
         AnchorRemovalPending
<1>6. op.dst \in Block /\ Good(op.dst, strays)
  BY <1>1, Zenon DEF OpOK, Good
<1> HIDE DEF marker
<1>7. /\ IsDb(db') /\ db'.nullifiers = db.nullifiers /\ db'.anchors = db.anchors
      /\ db'.velocity = db.velocity /\ db'.pool = db.pool
      /\ db'.snapshot = db.snapshot /\ db'.accumulator = db.accumulator
      /\ db'.pin = db.pin /\ db'.marker = marker
  BY <1>1, <1>2, Zenon DEF IsDb
<1>8. DbOK(db, strays)
  BY Zenon DEF IInv, DisksOK
<1>9. PoolPhase' /\ PersistPhase'
  <2>1. PoolPhase'
    BY <1>2, <1>4, <1>5, <1>7, Zenon DEF IInv, PoolPhase
  <2>2. PersistPhase'
    BY <1>4, <1>5, <1>7, Zenon DEF IInv, PersistPhase
  <2> QED
    BY <2>1, <2>2, Zenon
<1>10. SnapshotOK(db', strays) /\ PinOK(db', strays)
  BY <1>7, <1>8, Zenon DEF DbOK, SnapshotOK, PinOK
<1>11. CASE op.kind = "rebuild"
  <2>1. marker = LegacyMarker(op.dst)
    BY <1>11, Zenon DEF marker, Is
  <2>2. marker # NoMarker /\ ~marker.prepared
    BY <1>6, <2>1, MarkerFacts, Zenon
  <2>3. DisksOK'
    BY <1>2, <1>7, <1>10, <2>2, Zenon DEF DisksOK, DbOK, MarkerOK, WholeOK, Synced
  <2>4. MarkerPhase'
    BY <1>4, <1>5, <1>7, <1>11, <2>1, Zenon DEF MarkerPhase, Journaled
  <2>5. db.nullifiers = {} /\ db.anchors = {} /\ op.src = None
    <3>1. db = EmptyDb /\ op.src = None
      BY <1>1, <1>5, <1>11, Zenon DEF IInv, MarkerPhase, OpOK
    <3> QED
      BY <3>1, Zenon DEF EmptyDb
  <2>6. Repairable(op.src, op.dst, db.nullifiers, db.anchors, strays)
    BY <1>6, <2>5, RebuildRepairable, Zenon
  <2>7. StoresPhase'
    BY <1>2, <1>4, <1>5, <1>7, <1>11, <2>5, <2>6, Zenon DEF StoresPhase
  <2> QED
    BY <1>2, <1>4, <1>9, <2>3, <2>4, <2>7, Zenon DEF IInv
<1>12. CASE op.kind # "rebuild"
  <2>1. op.kind \in Journaled
    BY <1>3, <1>12, Zenon DEF Journaled
  <2>2. /\ DisksOK'
        /\ marker.prepared /\ marker.src = op.src /\ marker.dst = op.dst
        /\ Repairable(op.src, op.dst, db.nullifiers, db.anchors, strays)
    BY <1>7, <2>1, MarkerPrepared, Zenon
  <2>3. MarkerPhase'
    BY <1>4, <1>5, <1>7, <1>12, <2>2, Zenon DEF MarkerPhase
  <2>4. op.kind = "connect" => Gather(Nullifiers, Undone(op.src, op.dst)) = {}
    <3>1. op.kind = "connect" => Undone(op.src, op.dst) = {}
      BY <1>1, OneBlockPath, Zenon DEF OpOK
    <3> QED
      BY <3>1, Zenon DEF Gather
  <2>5. StoresPhase'
    BY <1>2, <1>3, <1>4, <1>5, <1>7, <1>12, <2>2, <2>4, Zenon DEF StoresPhase
  <2> QED
    BY <1>2, <1>4, <1>9, <2>2, <2>3, <2>5, Zenon DEF IInv
<1> QED
  BY <1>11, <1>12, Zenon

(* A marker is written, and what the gap it opens needs may be missing. *)
LEMMA WriteMarkerStep ==
    ASSUME IInv, WriteMarker
    PROVE  IInv'
<1>1. CASE Advance
  BY <1>1, MarkerAdvance, Zenon
<1>2. CASE op.kind = "redo" /\ ~Redoable(op.src, op.dst) /\ op' = At("unresumed")
  <2>1. /\ mem' = mem /\ coins' = coins /\ tip' = tip /\ strays' = strays
        /\ pruned' = pruned /\ undo' = undo
    BY Zenon DEF WriteMarker
  <2>2. DisksOK' /\ db'.marker.src = op.src /\ op.dst = tip
    BY <1>2, MarkerPrepared, Zenon DEF Journaled, IInv, OpOK
  <2>3. "unresumed" \notin Running
    BY Zenon DEF Running
  <2>4. OpOK' /\ op'.kind = "unresumed"
    BY <1>2, <2>3, AtOK, Zenon
  <2>5. ~Redoable(db'.marker.src, tip)
    BY <1>2, <2>2, Zenon
  <2>6. ~Resumable'
    BY <2>1, <2>5, Zenon DEF Resumable, Redoable, Readable
  <2>7. RestOK'
    BY <2>4, <2>6, Zenon DEF RestOK
  <2> QED
    BY <2>1, <2>2, <2>3, <2>4, <2>7, AtRest, Zenon DEF IInv
<1> QED
  BY <1>1, <1>2, Zenon DEF WriteMarker, Is

-----------------------------------------------------------------------------
(* What begins an operation, and what ends one, preserves the invariant.    *)

(* A rebuild begins, or the startup refuses. *)
LEMMA RebuildOrRefuseStep ==
    ASSUME IInv, RebuildOrRefuse, ~(Resumable /\ RecentBlocks(tip)),
           db' = db, unsynced' = unsynced, coins' = coins, pruned' = pruned,
           tip' = tip, undo' = undo, strays' = strays
    PROVE  IInv'
<1>1. mem' = NoMem
  BY Zenon DEF RebuildOrRefuse
<1>2. IsMem(mem') /\ DisksOK' /\ Good(tip, strays)
  BY <1>1, Zenon DEF IInv, DisksOK, NoMem, IsMem
<1>3. CASE FullBlocks(tip)
  <2>1. op' = Task("rebuild", None, tip, RebuildWrites, TRUE)
    BY <1>3, Zenon DEF RebuildOrRefuse
  <2>2. /\ op'.kind = "rebuild" /\ op'.src = None /\ op'.dst = tip
        /\ op'.todo = RebuildWrites /\ IsOp(op')
    BY <2>1, Zenon DEF Task, IsOp
  <2>3. Left' = 10
    BY <2>2, Programs, Zenon DEF Left
  <2>4. OpOK'
    BY <1>2, <2>2, Programs, Zenon DEF OpOK, Running
  <2>5. RestOK'
    BY <2>2, Zenon DEF RestOK
  <2>6. /\ MarkerPending' /\ WipePending' /\ PoolPending' /\ VelocityPending'
        /\ StatePending' /\ AccumulatorPending'
    BY <2>2, <2>3
       DEF MarkerPending, WipePending, PoolPending, VelocityPending, StatePending,
           AccumulatorPending
  <2>7. ~(Resumable /\ RecentBlocks(tip))'
    BY Zenon DEF Resumable, Redoable, RecentBlocks, Readable
  <2>8. MarkerPhase' /\ StoresPhase' /\ PersistPhase'
    BY <2>2, <2>6, <2>7, Zenon DEF MarkerPhase, StoresPhase, PersistPhase, Journaled
  <2>9. mem'.tree = Chain[None] /\ mem'.pool = PoolAt[None]
    <3>1. mem'.tree = {} /\ mem'.pool = 0
      BY <1>1, Zenon DEF NoMem
    <3>2. PoolAt[None] = -NetOut({})
      BY ChainNone, Zenon DEF PoolAt, Heads
    <3> QED
      BY <3>1, <3>2, ChainNone, NetOutEmpty
  <2>10. PoolPhase'
    BY <2>2, <2>6, <2>9, Zenon DEF PoolPhase
  <2> QED
    BY <1>2, <2>4, <2>5, <2>8, <2>10, Zenon DEF IInv
<1>4. CASE ~FullBlocks(tip)
  <2>1. op' = At("refused")
    BY <1>4, Zenon DEF RebuildOrRefuse
  <2>2. "refused" \notin Running
    BY Zenon DEF Running
  <2>3. OpOK' /\ op'.kind = "refused"
    BY <2>1, <2>2, AtOK, Zenon
  <2>4. RestOK'
    BY <2>3, Zenon DEF RestOK
  <2> QED
    BY <1>2, <2>2, <2>3, <2>4, AtRest, Zenon DEF IInv
<1> QED
  BY <1>3, <1>4, Zenon

(* A marker that cannot be resumed leads to a rebuild or a refusal. *)
LEMMA AbandonMarkerStep ==
    ASSUME IInv, AbandonMarker
    PROVE  IInv'
<1>1. /\ RebuildOrRefuse /\ Unresumed /\ db' = db /\ unsynced' = unsynced
      /\ coins' = coins /\ pruned' = pruned /\ tip' = tip /\ undo' = undo
      /\ strays' = strays
  BY Zenon DEF AbandonMarker
<1>2. ~(Resumable /\ RecentBlocks(tip))
  BY <1>1, Zenon DEF Unresumed, Is, IInv, RestOK
<1> QED
  BY <1>1, <1>2, RebuildOrRefuseStep, Zenon

(* A snapshot that is not accepted leads to a rebuild or a refusal. *)
LEMMA RejectSnapshotStep ==
    ASSUME IInv, RejectSnapshot
    PROVE  IInv'
<1>1. /\ RebuildOrRefuse /\ Loading /\ db' = db /\ unsynced' = unsynced
      /\ coins' = coins /\ pruned' = pruned /\ tip' = tip /\ undo' = undo
      /\ strays' = strays
  BY Zenon DEF RejectSnapshot
<1>2. ~(Resumable /\ RecentBlocks(tip))
  BY <1>1, LoadingFacts, Zenon DEF Resumable
<1> QED
  BY <1>1, <1>2, RebuildOrRefuseStep, Zenon

(* Startup replaces a log that has drifted from its blocks. *)
LEMMA RepairVelocityStep ==
    ASSUME IInv, RepairVelocity
    PROVE  IInv'
<1>1. /\ Loading /\ AtTip /\ db' = [db EXCEPT !.velocity = VelocityAt[tip]]
      /\ op' = [At("load") EXCEPT !.repaired = TRUE]
      /\ Synced /\ coins' = coins /\ tip' = tip /\ mem' = mem /\ strays' = strays
  BY Zenon DEF RepairVelocity
<1>2. /\ tip \in Block /\ DbAt(db, tip, strays) /\ db.snapshot.tip = tip
      /\ db.marker = NoMarker
  BY <1>1, LoadingFacts, Zenon DEF AtTip
<1>3. DbOK(db, strays) /\ IsDb(db)
  BY Zenon DEF IInv, DisksOK, DbOK
<1>4. /\ IsDb(db') /\ db'.nullifiers = db.nullifiers /\ db'.anchors = db.anchors
      /\ db'.velocity = VelocityAt[tip] /\ db'.pool = db.pool
      /\ db'.snapshot = db.snapshot /\ db'.accumulator = db.accumulator
      /\ db'.pin = db.pin /\ db'.marker = db.marker
  BY <1>1, <1>3, Zenon DEF IsDb
<1>5. LogOf(Loaded(VelocityAt[tip]), tip)
  BY <1>2, RebuiltLogOf, LoadedLogOf, Zenon
<1>6. DbAt(db', tip, strays)
  BY <1>2, <1>4, <1>5, Zenon DEF DbAt
<1>7. DbOK(db', strays)
  <2>1. MarkerOK(db', strays)
    BY <1>2, <1>4, MarkerFacts, Zenon DEF MarkerOK
  <2> QED
    BY <1>2, <1>3, <1>4, <1>6, <2>1, Zenon DEF DbOK, SnapshotOK, PinOK, WholeOK
<1>8. DisksOK'
  BY <1>1, <1>7, Zenon DEF DisksOK, Synced
<1>9. op'.kind = "load" /\ op'.todo = <<>> /\ IsOp(op')
  BY <1>1, Zenon DEF At, Task, IsOp
<1>10. OpOK' /\ op'.kind \notin Running
  BY <1>9, Zenon DEF OpOK, Running
<1>11. RestOK'
  BY <1>2, <1>4, <1>9, Zenon DEF RestOK
<1> QED
  BY <1>1, <1>8, <1>10, <1>11, AtRest, Zenon DEF IInv

-----------------------------------------------------------------------------
(* The invariant is one.                                                    *)

(* The invariant holds at the first start. *)
LEMMA InitIInv ==
    ASSUME Init
    PROVE  IInv
<1>1. /\ unsynced = {} /\ coins = Genesis /\ tip = Genesis /\ mem = NoMem
      /\ op = At("down") /\ strays = {}
  BY Zenon DEF Init
<1>2. op.kind = "down" /\ op.todo = <<>> /\ IsOp(op) /\ IsMem(mem)
  BY <1>1, Zenon DEF At, Task, IsOp, NoMem, IsMem
<1>3. OpOK /\ RestOK /\ MarkerPhase /\ StoresPhase /\ PoolPhase /\ PersistPhase
  BY <1>2, Zenon
     DEF OpOK, RestOK, MarkerPhase, StoresPhase, PoolPhase, PersistPhase, Running
<1>4. ASSUME NEW acc \in {None, NullifiersAt[Genesis]}
      PROVE  DbOK(OlderDb(acc), {})
  <2> DEFINE d == OlderDb(acc)
  <2>1. /\ IsDb(d) /\ d.nullifiers = NullifiersAt[Genesis] /\ d.anchors = AnchorsAt[Genesis]
        /\ d.velocity = None /\ d.pool = PoolAt[Genesis]
        /\ d.snapshot = [tip |-> Genesis, tree |-> Chain[Genesis], pool |-> PoolAt[Genesis]]
        /\ d.accumulator = acc /\ d.pin = NoPin /\ d.marker = NoMarker
    BY Zenon DEF OlderDb, IsDb
  <2> HIDE DEF d
  <2>2. /\ d.snapshot.tip = Genesis /\ d.snapshot.tree = Chain[Genesis]
        /\ d.snapshot.pool = PoolAt[Genesis]
    BY <2>1
  <2>3. DbAt(d, Genesis, {})
    <3>1. LogOf(Loaded(d.velocity), Genesis)
      BY <2>1, EmptyLogOf, Zenon DEF Loaded
    <3>2. Stores(Genesis, NullifiersAt[Genesis], AnchorsAt[Genesis], {})
      BY Zenon DEF Stores
    <3> QED
      BY <2>1, <3>1, <3>2, Zenon DEF DbAt
  <2> QED
    BY <2>1, <2>2, <2>3, MarkerFacts, GoodGenesis, Zenon
       DEF d, DbOK, SnapshotOK, PinOK, MarkerOK, WholeOK
<1>5. DisksOK
  BY <1>1, <1>4, EmptyDbOK, Zenon DEF Init, DisksOK
<1> QED
  BY <1>1, <1>2, <1>3, <1>5, GoodGenesis, Zenon DEF IInv

(* Every step keeps the invariant. *)
LEMMA NextIInv ==
    ASSUME IInv, [Next]_vars
    PROVE  IInv'
<1>1. ASSUME NEW b \in Block, ConnectBlock(b) PROVE IInv'
  BY <1>1, ConnectBlockStep, Zenon
<1>2. ASSUME DisconnectBlock PROVE IInv'
  BY <1>2, DisconnectBlockStep, Zenon
<1>3. ASSUME NEW h, FlushStateToDisk(h) PROVE IInv'
  BY <1>3, FlushStateToDiskStep, Zenon
<1>4. ASSUME Shutdown PROVE IInv'
  BY <1>4, ShutdownStep, Zenon
<1>5. ASSUME Crash PROVE IInv'
  BY <1>5, CrashStep, Zenon
<1>6. ASSUME Writes PROVE IInv'
  BY <1>6, FlushCoinsStep, WriteMarkerStep, InsertNullifiersStep, RemoveNullifiersStep,
     InsertAnchorsStep, RemoveAnchorsStep, ConnectVelocityStep,
     DisconnectVelocityStep, RebuildVelocityStep, WritePoolBalanceStep,
     WipeStoresStep, WritePersistedStateStep, PersistNullifierAccumulatorStep,
     PersistShieldedStatePinStep, ClearMutationMarkerStep, Zenon
     DEF Writes
<1>7. ASSUME Startup PROVE IInv'
  BY <1>7, RestorePreparedTransitionStep, ClearStaleMarkerStep, AbandonMarkerStep,
     RepairVelocityStep, AcceptSnapshotStep, AuditSnapshotStep, BridgeGapStep,
     RejectSnapshotStep, Zenon
     DEF Startup
<1>8. ASSUME UNCHANGED vars PROVE IInv'
  <2>1. /\ db' = db /\ unsynced' = unsynced /\ coins' = coins /\ pruned' = pruned
        /\ tip' = tip /\ mem' = mem /\ op' = op /\ undo' = undo /\ strays' = strays
    BY <1>8, Zenon DEF vars
  <2>2. DisksOK' /\ OpOK'
    BY <2>1, Zenon DEF IInv, DisksOK, OpOK
  <2>3. RestOK'
    <3>1. (SettledAt(tip))' <=> SettledAt(tip)
      BY <2>1, Zenon DEF SettledAt
    <3>2. (Resumable /\ RecentBlocks(tip))' <=> Resumable /\ RecentBlocks(tip)
      BY <2>1, Zenon DEF Resumable, Redoable, RecentBlocks, Readable
    <3> QED
      BY <2>1, <3>1, <3>2, Zenon DEF IInv, RestOK
  <2>4. /\ MarkerPending' = MarkerPending /\ WipePending' = WipePending
        /\ RemovalPending' = RemovalPending /\ InsertionPending' = InsertionPending
        /\ AnchorInsertionPending' = AnchorInsertionPending
        /\ AnchorRemovalPending' = AnchorRemovalPending
        /\ VelocityPending' = VelocityPending /\ PoolPending' = PoolPending
        /\ StatePending' = StatePending /\ AccumulatorPending' = AccumulatorPending
    BY <2>1, Zenon
       DEF Left, MarkerPending, WipePending, RemovalPending, InsertionPending,
           AnchorInsertionPending, AnchorRemovalPending, VelocityPending, PoolPending,
           StatePending, AccumulatorPending
  <2>5. MarkerPhase'
    <3>1. (SettledAt(op.src))' <=> SettledAt(op.src)
      BY <2>1, Zenon DEF SettledAt
    <3>2. (Resumable /\ RecentBlocks(tip))' <=> Resumable /\ RecentBlocks(tip)
      BY <2>1, Zenon DEF Resumable, Redoable, RecentBlocks, Readable
    <3> QED
      BY <2>1, <2>4, <3>1, <3>2, Zenon DEF IInv, MarkerPhase
  <2>6. StoresPhase'
    BY <2>1, <2>4, Zenon DEF IInv, StoresPhase
  <2>7. PoolPhase' /\ PersistPhase'
    BY <2>1, <2>4, Zenon DEF IInv, PoolPhase, PersistPhase
  <2> QED
    BY <2>1, <2>2, <2>3, <2>5, <2>6, <2>7, Zenon DEF IInv
<1> QED
  BY <1>1, <1>2, <1>3, <1>4, <1>5, <1>6, <1>7, <1>8, Zenon DEF Next

(* Every reachable state satisfies the invariant: the disk always holds a   *)
(* whole state, or a marker from which the stores of its target are         *)
(* reached, after any number of crashes at any write.                       *)
THEOREM AlwaysIInv == Spec => []IInv
<1>1. Init => IInv
  BY InitIInv, Zenon
<1>2. IInv /\ [Next]_vars => IInv'
  BY NextIInv, Zenon
<1> QED
  BY <1>1, <1>2, PTL DEF Spec
-----------------------------------------------------------------------------
(* What follows.                                                            *)

(* Stores and StoresOf are the same, with the strays a parameter or not. *)
LEMMA StoresAreOf ==
    ASSUME NEW b, NEW n, NEW a, Stores(b, n, a, strays)
    PROVE  StoresOf(b, n, a)
  BY Zenon DEF Stores, StoresOf

(* Whenever the node serves, its live state and its stores are what the     *)
(* active chain implies.                                                    *)
THEOREM AlwaysLiveStateMatchesChain == Spec => []LiveStateMatchesChain
<1>1. ASSUME IInv PROVE LiveStateMatchesChain
  <2>1. SUFFICES ASSUME op.kind = "idle"
                 PROVE  /\ mem.tree = Chain[tip]
                        /\ mem.pool = PoolAt[tip] /\ db.pool = mem.pool
                        /\ VelocityOf(tip, mem.velocity)
                        /\ StoresOf(tip, db.nullifiers, db.anchors)
    BY Zenon DEF LiveStateMatchesChain, Is
  <2>2. SettledAt(tip) /\ tip \in Block
    BY <1>1, <2>1, Zenon DEF IInv, RestOK, Good
  <2>3. VelocityOf(tip, mem.velocity)
    BY <2>2, CoveredVelocity, Zenon DEF SettledAt, MemAt
  <2>4. StoresOf(tip, db.nullifiers, db.anchors)
    BY <2>2, StoresAreOf, Zenon DEF SettledAt, DbAt
  <2> QED
    BY <2>2, <2>3, <2>4, Zenon DEF SettledAt, MemAt, DbAt
<1> QED
  BY <1>1, AlwaysIInv, PTL

(* A database without a marker is whole. *)
THEOREM AlwaysUnmarkedMeansWhole == Spec => []UnmarkedMeansWhole
<1>1. ASSUME IInv PROVE UnmarkedMeansWhole
  <2> DEFINE b == db.snapshot.tip
  <2>1. SUFFICES ASSUME db.marker = NoMarker, db.snapshot # NoSnapshot
                 PROVE  /\ db.snapshot.tree = Chain[b]
                        /\ db.snapshot.pool = PoolAt[b] /\ db.pool = PoolAt[b]
                        /\ VelocityOf(b, Loaded(db.velocity))
                        /\ AccumulatorVerified \/ db.accumulator = None
                        /\ StoresOf(b, db.nullifiers, db.anchors)
    BY Zenon DEF UnmarkedMeansWhole
  <2>2. DbOK(db, strays)
    BY <1>1, Zenon DEF IInv, DisksOK
  <2>3. /\ b \in Block /\ db.snapshot.tree = Chain[b] /\ db.snapshot.pool = PoolAt[b]
        /\ DbAt(db, b, strays)
        /\ db.accumulator = db.nullifiers \/ db.accumulator = None
    BY <2>1, <2>2, Zenon DEF DbOK, SnapshotOK, WholeOK, Good
  <2>4. VelocityOf(b, Loaded(db.velocity))
    BY <2>3, CoveredVelocity, Zenon DEF DbAt
  <2>5. StoresOf(b, db.nullifiers, db.anchors)
    BY <2>3, StoresAreOf, Zenon DEF DbAt
  <2> QED
    BY <2>3, <2>4, <2>5, Zenon DEF DbAt, AccumulatorVerified
<1> QED
  BY <1>1, AlwaysIInv, PTL

(* While a PREPARED marker is in place, repeating the writes yields the     *)
(* stores of its target, whichever of them have been done.                  *)
THEOREM AlwaysMarkedMeansRepairable == Spec => []MarkedMeansRepairable
<1>1. ASSUME IInv PROVE MarkedMeansRepairable
  <2>1. DbOK(db, strays)
    BY <1>1, Zenon DEF IInv, DisksOK
  <2>2. db.marker.prepared =>
          /\ db.marker.tree = Chain[db.marker.dst]
          /\ db.marker.pool = PoolAt[db.marker.dst]
          /\ Repairable(db.marker.src, db.marker.dst, db.nullifiers, db.anchors, strays)
    BY <2>1, Zenon DEF DbOK, MarkerOK
  <2> QED
    BY <2>2, StoresAreOf, Zenon DEF MarkedMeansRepairable, Repairable
<1> QED
  BY <1>1, AlwaysIInv, PTL

(* With no strays the stores are exactly those of the block. *)
LEMMA ExactStores ==
    ASSUME NEW b, NEW n, NEW a, Stores(b, n, a, {})
    PROVE  n = NullifiersAt[b] /\ a = AnchorsAt[b]
<1>1. \A f : Gather(f, {}) = {}
  BY Zenon DEF Gather
<1> QED
  BY <1>1, Zenon DEF Stores

(* Each verdict of ConnectBlock, of the checks or of the cap, is the chain's. *)
LEMMA VerdictStep ==
    ASSUME IInv, Next, strays = {}, Covers(mem.velocity, tip), op'.kind # "down"
    PROVE  /\ \A b \in failed' \ failed : ~ChainValid(b)
           /\ (Doing({"connect"}, "velocity") /\ op'.kind = "connect") => ChainValid(op.dst)
<1> DEFINE h == Height[op.dst]
           log == RecordBlock(mem.velocity, h, mem.pool - ProjectedPool(op.src, op.dst))
           over == WindowTotal(log, h) > WindowCap(mem.pool)
           verdict == WindowTotal(RecordBlock(VelocityAt[Parent[op.dst]], h,
                                              ValueBalance[op.dst]), h)
                        > WindowCap(PoolAt[Parent[op.dst]])
<1>1. ASSUME Doing({"connect"}, "velocity")
      PROVE  /\ op.dst \in Block \ {Genesis} /\ Sound(op.dst, {})
             /\ over <=> verdict
  <2>1. /\ op.kind = "connect" /\ op.kind \in Running /\ OpOK /\ Head(op.todo) = "velocity"
    BY <1>1, Zenon DEF Doing, Is, IInv, Running
  <2>2. Left = 6
    BY <2>1, StepsLeft, Zenon DEF WritesLeft
  <2>3. /\ op.dst \in Block \ {Genesis} /\ op.src = Parent[op.dst] /\ op.src = tip
        /\ Good(op.dst, strays)
    BY <2>1, Zenon DEF OpOK
  <2>4. VelocityPending /\ PoolPending
    BY <2>1, <2>2 DEF VelocityPending, PoolPending
  <2>5. /\ mem.tree = Chain[op.src] /\ mem.pool = PoolAt[op.src]
        /\ LogOf(mem.velocity, op.src)
    BY <2>1, <2>4, Zenon DEF IInv, PoolPhase
  <2>6. mem.pool - ProjectedPool(op.src, op.dst) = ValueBalance[op.dst]
    <3>1. op.src \in Heads /\ op.dst \in Heads
      BY <2>3, Tree, Zenon DEF Heads
    <3>2. ProjectedPool(op.src, op.dst) = PoolAt[op.dst]
      BY <2>5, <3>1, Projected, Zenon
    <3> QED
      BY <2>3, <2>5, <3>2, PoolOfChild, Zenon
  <2>7. WindowTotal(RecordBlock(mem.velocity, h, ValueBalance[op.dst]), h)
          = WindowTotal(RecordBlock(VelocityAt[Parent[op.dst]], h, ValueBalance[op.dst]), h)
    BY <2>3, <2>5, CoveredVerdict, Zenon
  <2>8. over <=> verdict
    BY <2>3, <2>5, <2>6, <2>7, Zenon
  <2>9. Sound(op.dst, {})
    BY <2>3, GoodParent, Zenon
  <2> QED
    BY <2>3, <2>8, <2>9, Zenon
<1> HIDE DEF over, verdict, log
<1>2. ASSUME Doing({"connect"}, "velocity"), ~over
      PROVE  ChainValid(op.dst)
  <2>1. Gather(Created, {}) = {} /\ Gather(Consumed, {}) = {}
    BY Zenon DEF Gather
  <2>2. /\ Nullifiers[op.dst] \cap NullifiersAt[Parent[op.dst]] = {}
        /\ Created[op.dst] \cap AnchorsAt[Parent[op.dst]] = {}
        /\ Consumed[op.dst] \subseteq AnchorsAt[Parent[op.dst]] \cup Created[op.dst]
    BY <1>1, <1>2, <2>1, Zenon DEF Sound
  <2> QED
    BY <1>1, <1>2, <2>2, Zenon DEF ChainValid, verdict
<1>3. ASSUME Doing({"connect"}, "velocity"), over
      PROVE  ~ChainValid(op.dst)
  BY <1>1, <1>3, Zenon DEF ChainValid, verdict
<1>4. ASSUME NEW b \in Block, ConnectBlock(b)
      PROVE  /\ \A c \in failed' \ failed : ~ChainValid(c)
             /\ ~Doing({"connect"}, "velocity")
  <2>1. op.kind = "idle" /\ Parent[b] = tip
    BY <1>4, Zenon DEF ConnectBlock, Is
  <2>2. Stores(tip, db.nullifiers, db.anchors, {})
    BY <2>1, Zenon DEF IInv, RestOK, SettledAt, DbAt
  <2>3. db.nullifiers = NullifiersAt[tip] /\ db.anchors = AnchorsAt[tip]
    BY <2>2, ExactStores, Zenon
  <2>4. Refutes(b) => ~ChainValid(b)
    BY <2>1, <2>3, Zenon DEF Refutes, ChainValid
  <2>5. failed' \ failed \subseteq {b} /\ (failed' # failed => Refutes(b))
    BY <1>4, Zenon DEF ConnectBlock
  <2> QED
    BY <2>1, <2>4, <2>5, Zenon DEF Doing, Is
<1>5. ASSUME ConnectVelocity
      PROVE  /\ \A b \in failed' \ failed : ~ChainValid(b)
             /\ op'.kind = "connect" => ChainValid(op.dst)
  <2>1. Doing({"connect"}, "velocity")
    BY <1>5, Zenon DEF ConnectVelocity
  <2>2. CASE over
    <3>1. failed' = failed \cup {op.dst} /\ op' = At("idle")
      BY <1>5, <2>2, Zenon DEF ConnectVelocity, over, log
    <3>2. op'.kind = "idle"
      BY <3>1, Zenon DEF At, Task
    <3> QED
      BY <1>3, <2>1, <2>2, <3>1, <3>2, Zenon
  <2>3. CASE ~over
    <3>1. failed' = failed
      BY <1>5, <2>3, Zenon DEF ConnectVelocity, over, log
    <3> QED
      BY <1>2, <2>1, <2>3, <3>1, Zenon
  <2> QED
    BY <2>2, <2>3, Zenon
<1>6. ASSUME \/ DisconnectBlock \/ Shutdown
             \/ \E k \in {Height[b] : b \in Block} : FlushStateToDisk(k)
      PROVE  failed' = failed /\ ~Doing({"connect"}, "velocity")
  BY <1>6, Zenon DEF DisconnectBlock, FlushStateToDisk, Shutdown, Doing, Is
<1>7. ~Crash
  BY DEF Crash, At, Task
<1>8. ASSUME Writes, ~ConnectVelocity
      PROVE  failed' \subseteq failed /\ ~Doing({"connect"}, "velocity")
  BY <1>8, Zenon
     DEF Writes, FlushCoins, WriteMarker, InsertNullifiers, RemoveNullifiers,
         InsertSettlementAnchors, RemoveSettlementAnchors, DisconnectVelocity,
         RebuildVelocity, WritePoolBalance, WipeStores, WritePersistedState,
         PersistNullifierAccumulator,
         PersistShieldedStatePin, ClearMutationMarker, Doing, Is
<1>9. ASSUME Startup
      PROVE  failed' \subseteq failed /\ ~Doing({"connect"}, "velocity")
  BY <1>9, Zenon
     DEF Startup, RestorePreparedTransition, ClearStaleMarker, AbandonMarker,
         RepairVelocity, AcceptSnapshot, AuditSnapshot, BridgeGap, RejectSnapshot,
         Unresumed, Loading, Doing, Is
<1> QED
  BY <1>4, <1>5, <1>6, <1>7, <1>8, <1>9, Zenon DEF Next

(* As long as no rejected block has left writes behind and the velocity log *)
(* covers the window, ConnectBlock rejects no block its chain allows and    *)
(* connects none its chain forbids.                                         *)
THEOREM AlwaysVerdictsFollowChain == Spec => VerdictsFollowChain
<1>1. ASSUME IInv, [Next]_vars
      PROVE  [(strays = {} /\ Covers(mem.velocity, tip) /\ op'.kind # "down") =>
                /\ \A b \in failed' \ failed : ~ChainValid(b)
                /\ (Doing({"connect"}, "velocity") /\ op'.kind = "connect")
                      => ChainValid(op.dst)]_vars
  BY <1>1, VerdictStep, Zenon
<1> QED
  BY <1>1, AlwaysIInv, PTL DEF Spec, VerdictsFollowChain

(* No step of a startup that can resume wipes the stores. *)
LEMMA DiscardStep ==
    ASSUME IInv, Next, Resumable, RecentBlocks(tip)
    PROVE  db' # EmptyDb
<1>1. db.marker # NoMarker /\ IsDb(db)
  BY Zenon DEF Resumable, IInv, DisksOK, DbOK
<1>2. EmptyDb.marker = NoMarker /\ EmptyDb.snapshot = NoSnapshot
  BY Zenon DEF EmptyDb
<1>3. db # EmptyDb
  BY <1>1, <1>2, Zenon
<1>4. ASSUME \/ \E b \in Block : ConnectBlock(b)
             \/ DisconnectBlock
             \/ \E h \in {Height[b] : b \in Block} : FlushStateToDisk(h)
             \/ Shutdown \/ FlushCoins
             \/ RestorePreparedTransition
             \/ AbandonMarker \/ AcceptSnapshot \/ BridgeGap \/ RejectSnapshot
      PROVE  db' # EmptyDb
  <2>1. db' = db
    BY <1>4, Zenon
       DEF ConnectBlock, DisconnectBlock, FlushStateToDisk, Shutdown, FlushCoins,
           RestorePreparedTransition, AbandonMarker, AcceptSnapshot, BridgeGap,
           RejectSnapshot
  <2> QED
    BY <1>3, <2>1, Zenon
<1>5. ASSUME Crash
      PROVE  db' # EmptyDb
  BY <1>2, <1>3, <1>5, Zenon DEF Crash, IInv, DisksOK
<1>6. ASSUME RepairVelocity \/ AuditSnapshot
      PROVE  db' # EmptyDb
  <2>1. Loading
    BY <1>6, Zenon DEF RepairVelocity, AuditSnapshot
  <2> QED
    BY <1>1, <2>1, LoadingFacts, Zenon
<1>7. ASSUME ClearStaleMarker
      PROVE  db' # EmptyDb
  <2>1. db' = [db EXCEPT !.marker = NoMarker] /\ db.snapshot # NoSnapshot
    BY <1>7, Zenon DEF ClearStaleMarker, StaleMarker
  <2>2. db'.snapshot = db.snapshot
    BY <1>1, <2>1, Zenon DEF IsDb
  <2> QED
    BY <1>2, <2>1, <2>2, Zenon
<1>8. ASSUME WipeStores
      PROVE  db' # EmptyDb
  <2>1. op.kind = "rebuild" /\ op.kind \in Running /\ OpOK /\ Head(op.todo) = "wipe"
    BY <1>8, Zenon DEF WipeStores, Doing, Is, IInv, Running
  <2>2. Left = 10
    BY <2>1, StepsLeft, Zenon DEF WritesLeft
  <2>3. WipePending
    BY <2>1, <2>2 DEF WipePending
  <2> QED
    BY <2>1, <2>3, Zenon DEF IInv, MarkerPhase
<1>9. ASSUME ClearMutationMarker
      PROVE  db' # EmptyDb
  <2>1. op.kind \in Running /\ OpOK /\ Head(op.todo) = "clear"
    BY <1>9, Zenon DEF ClearMutationMarker, Doing, Is, IInv
  <2>2. Left = 1
    BY <2>1, StepsLeft, Zenon DEF WritesLeft
  <2>3. ~StatePending
    BY <2>2 DEF StatePending
  <2>4. op.dst \in Block
    BY <2>1, Zenon DEF OpOK, Good
  <2>5. db.snapshot # NoSnapshot
    BY <2>1, <2>3, <2>4, SnapshotFacts, Zenon DEF IInv, PersistPhase
  <2>6. db' = [db EXCEPT !.marker = NoMarker]
    BY <1>9, Zenon DEF ClearMutationMarker
  <2>7. db'.snapshot = db.snapshot
    BY <1>1, <2>6, Zenon DEF IsDb
  <2> QED
    BY <1>2, <2>5, <2>7, Zenon
<1>10. ASSUME WriteMarker
       PROVE  db' # EmptyDb
  <2>1. op.dst \in Block
    BY <1>10, Zenon DEF WriteMarker, Doing, Is, IInv, OpOK, Good
  <2> DEFINE marker == IF Is({"rebuild"}) THEN LegacyMarker(op.dst)
                       ELSE PreparedMarker(op.src, op.dst)
  <2>2. marker # NoMarker
    <3>1. PreparedMarker(op.src, op.dst).dst = op.dst /\ NoMarker.dst = None
      BY Zenon DEF PreparedMarker, NoMarker
    <3> QED
      BY <2>1, <3>1, Tree, MarkerFacts, Zenon
  <2>3. db' = [db EXCEPT !.marker = marker]
    BY <1>10, Zenon DEF WriteMarker
  <2> HIDE DEF marker
  <2>4. db'.marker = marker
    BY <1>1, <2>3, Zenon DEF IsDb
  <2> QED
    BY <1>2, <2>2, <2>4, Zenon
<1>11. ASSUME \/ InsertNullifiers \/ RemoveNullifiers
              \/ InsertSettlementAnchors \/ RemoveSettlementAnchors
              \/ ConnectVelocity \/ DisconnectVelocity \/ RebuildVelocity
              \/ WritePoolBalance \/ WritePersistedState
              \/ PersistNullifierAccumulator \/ PersistShieldedStatePin
       PROVE  db' # EmptyDb
  <2>1. \/ db' = db
        \/ \E v : \/ db' = [db EXCEPT !.nullifiers = v]
                  \/ db' = [db EXCEPT !.anchors = v]
                  \/ db' = [db EXCEPT !.velocity = v]
                  \/ db' = [db EXCEPT !.pool = v]
                  \/ db' = [db EXCEPT !.snapshot = v]
                  \/ db' = [db EXCEPT !.accumulator = v]
                  \/ db' = [db EXCEPT !.pin = v]
    BY <1>11, Zenon
       DEF InsertNullifiers, RemoveNullifiers, InsertSettlementAnchors,
           RemoveSettlementAnchors, ConnectVelocity, DisconnectVelocity, RebuildVelocity,
           WritePoolBalance, WritePersistedState, PersistNullifierAccumulator,
           PersistShieldedStatePin
  <2>2. db'.marker = db.marker
    BY <1>1, <2>1, Zenon DEF IsDb
  <2> QED
    BY <1>1, <1>2, <2>2, Zenon
<1> QED
  BY <1>4, <1>5, <1>6, <1>7, <1>8, <1>9, <1>10, <1>11, Zenon DEF Next, Writes, Startup

(* A startup never discards the stores while the journal can finish them. *)
THEOREM AlwaysPreparedTransitionNotDiscarded == Spec => PreparedTransitionNotDiscarded
<1>1. ASSUME IInv, [Next]_vars
      PROVE  [(/\ db.marker # NoMarker
               /\ db.marker.prepared
               /\ db.marker.dst = tip
               /\ Redoable(db.marker.src, tip)
               /\ RecentBlocks(tip)) => db' # EmptyDb]_vars
  BY <1>1, DiscardStep, Zenon DEF Resumable
<1> QED
  BY <1>1, AlwaysIInv, PTL DEF Spec, PreparedTransitionNotDiscarded
=============================================================================
