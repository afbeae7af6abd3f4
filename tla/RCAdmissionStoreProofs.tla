----------------------- MODULE RCAdmissionStoreProofs -----------------------
(***************************************************************************)
(* Proofs about RCAdmissionStore, for every set of hashes and netgroups    *)
(* and every configuration: the running counts are exact, the tiers stay   *)
(* within their bounds, every ticket that can be spent was paid for, and a *)
(* rollback always finds room.                                             *)
(***************************************************************************)
EXTENDS RCAdmissionStore, FiniteSetTheorems, SequenceTheorems,
        WellFoundedInduction, TLAPS

(* The contents of a tier. *)
Tier == [Key -> {NoEntry} \cup [valid : BOOLEAN, age : 0..(Ttl + 1)]]

(* The counts gc and hc are those of a tier that holds the keys K. *)
Exact(K, gc, hc) ==
    /\ gc \in [Group -> Nat]
    /\ hc \in [Hash -> Nat]
    /\ \A g \in Group : gc[g] = Cardinality(OfGroup(K, g))
    /\ \A h \in Hash : hc[h] = Cardinality(OfHash(K, h))

(* The counts gd and hd are gc and hc after gone was erased and A added. *)
CountsChanged(gc, hc, gone, A, gd, hd) ==
    /\ gd = [g \in Group |-> GroupCountsWithout(gc, gone)[g]
                               + Cardinality(OfGroup(A, g))]
    /\ hd = [h \in Hash |-> HashCountsWithout(hc, gone)[h]
                              + Cardinality(OfHash(A, h))]
-----------------------------------------------------------------------------
(* Induction over data, in the form of a least element.                    *)

(* Every nonempty set of natural numbers has a least element. *)
LEMMA NatMinimum ==
    ASSUME NEW T, T \subseteq Nat, T # {}
    PROVE  \E n \in T : \A m \in T : n <= m
<1>1. PICK t \in T : TRUE
  OBVIOUS
<1> DEFINE Initial == {S \in SUBSET (0..t) : \E n \in T : S = 0..n}
<1>2. IsFiniteSet(0..t)
  BY FS_Interval
<1>3. IsWellFoundedOn(StrictSubsetOrdering(0..t), SUBSET (0..t))
  BY <1>2, FS_StrictSubsetOrderingWellFounded, FS_FiniteSubsetsOfFinite
<1>4. Initial # {}
  BY <1>1
<1>5. PICK S \in Initial :
        \A R \in Initial : <<R, S>> \notin StrictSubsetOrdering(0..t)
  BY <1>3, <1>4, WFMin, Zenon
<1>6. PICK n \in T : S = 0..n /\ S \subseteq 0..t
  BY <1>5
<1>7. ASSUME NEW m \in T PROVE n <= m
  <2> SUFFICES ASSUME m < n PROVE FALSE
    BY <1>7
  <2>1. 0..m \in SUBSET (0..t) /\ n <= t
    BY <1>6
  <2>2. 0..m \in Initial
    BY <2>1
  <2>3. 0..m \subseteq S /\ 0..m # S
    <3>1. n \in S /\ n \notin 0..m
      BY <1>6
    <3> QED
      BY <1>6, <3>1
  <2>4. <<0..m, S>> \in StrictSubsetOrdering(0..t)
    BY <2>1, <2>3, <1>6 DEF StrictSubsetOrdering
  <2> QED
    BY <1>5, <2>2, <2>4
<1> QED
  BY <1>7

(* Induction: a set that holds zero and every successor holds every n. *)
LEMMA NatClosed ==
    ASSUME NEW T, 0 \in T, \A n \in Nat : n \in T => n + 1 \in T
    PROVE  Nat \subseteq T
<1> SUFFICES ASSUME Nat \ T # {} PROVE FALSE
  OBVIOUS
<1>1. PICK n \in Nat \ T : \A m \in Nat \ T : n <= m
  BY NatMinimum
<1>2. n - 1 \in Nat /\ n - 1 \in T
  BY <1>1
<1> QED
  BY <1>1, <1>2
-----------------------------------------------------------------------------
(* Keys and their counts.                                                  *)

(* There are finitely many keys. *)
LEMMA KeyFinite == IsFiniteSet(Key)
  BY FS_Product, AdmissionAssumption DEF Key

(* A set of keys has a cardinality, which bounds that of its subsets. *)
LEMMA KeySets ==
    ASSUME NEW K \in SUBSET Key
    PROVE  /\ IsFiniteSet(K)
           /\ Cardinality(K) \in Nat
           /\ \A L \in SUBSET K : Cardinality(L) <= Cardinality(K)
<1>1. IsFiniteSet(K)
  BY KeyFinite, FS_Subset
<1> QED
  BY <1>1, FS_Subset, FS_CardinalityType

(* Less subtracts down to zero. *)
LEMMA LessType ==
    ASSUME NEW n \in Nat, NEW m \in Nat
    PROVE  Less(n, m) \in Nat /\ (m <= n => Less(n, m) = n - m)
  BY DEF Less

(* Taking gone out of K lowers the count by its size. *)
LEMMA CountErase ==
    ASSUME NEW K \in SUBSET Key, NEW gone \in SUBSET K
    PROVE  Cardinality(K \ gone) = Less(Cardinality(K), Cardinality(gone))
<1>1. IsFiniteSet(K) /\ IsFiniteSet(gone)
  BY KeySets
<1>2. /\ Cardinality(gone) \in Nat /\ Cardinality(K) \in Nat
      /\ Cardinality(gone) <= Cardinality(K)
  BY KeySets
<1>3. Cardinality(K \ gone) = Cardinality(K) - Cardinality(K \cap gone)
  BY <1>1, FS_Difference
<1>4. K \cap gone = gone
  OBVIOUS
<1> QED
  BY <1>2, <1>3, <1>4, LessType

(* ... and putting A in raises it by the size of A. *)
LEMMA CountChange ==
    ASSUME NEW K \in SUBSET Key, NEW gone \in SUBSET K, NEW A \in SUBSET Key,
           A \cap (K \ gone) = {}
    PROVE  Cardinality((K \ gone) \cup A)
             = Less(Cardinality(K), Cardinality(gone)) + Cardinality(A)
<1>1. IsFiniteSet(K \ gone) /\ IsFiniteSet(A)
  BY KeySets
<1>2. Cardinality(K \ gone) \in Nat /\ Cardinality(A) \in Nat
  BY KeySets
<1>3. Cardinality((K \ gone) \cup A)
        = Cardinality(K \ gone) + Cardinality(A) - Cardinality((K \ gone) \cap A)
  BY <1>1, FS_Union
<1>4. (K \ gone) \cap A = {}
  OBVIOUS
<1>5. Cardinality((K \ gone) \cap A) = 0
  BY <1>4, FS_EmptySet
<1>6. Cardinality(K \ gone) = Less(Cardinality(K), Cardinality(gone))
  BY CountErase
<1> QED
  BY <1>2, <1>3, <1>5, <1>6

(* The counts after such a change are those of the keys that are left. *)
LEMMA ExactChange ==
    ASSUME NEW K \in SUBSET Key, NEW gone \in SUBSET K, NEW A \in SUBSET Key,
           A \cap (K \ gone) = {},
           NEW gc, NEW hc, Exact(K, gc, hc),
           NEW gd, NEW hd, CountsChanged(gc, hc, gone, A, gd, hd)
    PROVE  Exact((K \ gone) \cup A, gd, hd)
<1> DEFINE L == (K \ gone) \cup A
<1>1. ASSUME NEW g \in Group
      PROVE  /\ GroupCountsWithout(gc, gone)[g] + Cardinality(OfGroup(A, g))
                  = Cardinality(OfGroup(L, g))
             /\ Cardinality(OfGroup(L, g)) \in Nat
  <2>1. OfGroup(L, g)
          = (OfGroup(K, g) \ OfGroup(gone, g)) \cup OfGroup(A, g)
    BY DEF OfGroup
  <2>2. /\ OfGroup(K, g) \in SUBSET Key
        /\ OfGroup(gone, g) \in SUBSET OfGroup(K, g)
        /\ OfGroup(A, g) \in SUBSET Key
        /\ OfGroup(A, g) \cap (OfGroup(K, g) \ OfGroup(gone, g)) = {}
    BY DEF OfGroup
  <2>3. Cardinality(OfGroup(L, g))
          = Less(Cardinality(OfGroup(K, g)), Cardinality(OfGroup(gone, g)))
              + Cardinality(OfGroup(A, g))
    <3>1. Cardinality((OfGroup(K, g) \ OfGroup(gone, g)) \cup OfGroup(A, g))
            = Less(Cardinality(OfGroup(K, g)), Cardinality(OfGroup(gone, g)))
                + Cardinality(OfGroup(A, g))
      BY <2>2, CountChange, SMTT(30)
    <3> QED
      BY <2>1, <3>1, Zenon
  <2>4. GroupCountsWithout(gc, gone)[g]
          = Less(Cardinality(OfGroup(K, g)), Cardinality(OfGroup(gone, g)))
    BY DEF GroupCountsWithout, Exact
  <2>5. OfGroup(L, g) \in SUBSET Key /\ OfGroup(gone, g) \in SUBSET Key
    BY DEF OfGroup
  <2>6. /\ Cardinality(OfGroup(L, g)) \in Nat
        /\ Cardinality(OfGroup(A, g)) \in Nat
        /\ Cardinality(OfGroup(gone, g)) \in Nat
        /\ Cardinality(OfGroup(K, g)) \in Nat
    BY <2>2, <2>5, KeySets
  <2>7. Less(Cardinality(OfGroup(K, g)), Cardinality(OfGroup(gone, g))) \in Nat
    BY <2>6, LessType
  <2> QED
    BY <2>3, <2>4, <2>6, <2>7
<1>2. ASSUME NEW h \in Hash
      PROVE  /\ HashCountsWithout(hc, gone)[h] + Cardinality(OfHash(A, h))
                  = Cardinality(OfHash(L, h))
             /\ Cardinality(OfHash(L, h)) \in Nat
  <2>1. OfHash(L, h)
          = (OfHash(K, h) \ OfHash(gone, h)) \cup OfHash(A, h)
    BY DEF OfHash
  <2>2. /\ OfHash(K, h) \in SUBSET Key
        /\ OfHash(gone, h) \in SUBSET OfHash(K, h)
        /\ OfHash(A, h) \in SUBSET Key
        /\ OfHash(A, h) \cap (OfHash(K, h) \ OfHash(gone, h)) = {}
    BY DEF OfHash
  <2>3. Cardinality(OfHash(L, h))
          = Less(Cardinality(OfHash(K, h)), Cardinality(OfHash(gone, h)))
              + Cardinality(OfHash(A, h))
    <3>1. Cardinality((OfHash(K, h) \ OfHash(gone, h)) \cup OfHash(A, h))
            = Less(Cardinality(OfHash(K, h)), Cardinality(OfHash(gone, h)))
                + Cardinality(OfHash(A, h))
      BY <2>2, CountChange, SMTT(30)
    <3> QED
      BY <2>1, <3>1, Zenon
  <2>4. HashCountsWithout(hc, gone)[h]
          = Less(Cardinality(OfHash(K, h)), Cardinality(OfHash(gone, h)))
    BY DEF HashCountsWithout, Exact
  <2>5. OfHash(L, h) \in SUBSET Key /\ OfHash(gone, h) \in SUBSET Key
    BY DEF OfHash
  <2>6. /\ Cardinality(OfHash(L, h)) \in Nat
        /\ Cardinality(OfHash(A, h)) \in Nat
        /\ Cardinality(OfHash(gone, h)) \in Nat
        /\ Cardinality(OfHash(K, h)) \in Nat
    BY <2>2, <2>5, KeySets
  <2>7. Less(Cardinality(OfHash(K, h)), Cardinality(OfHash(gone, h))) \in Nat
    BY <2>6, LessType
  <2> QED
    BY <2>3, <2>4, <2>6, <2>7
<1> QED
  BY <1>1, <1>2 DEF Exact, CountsChanged
-----------------------------------------------------------------------------
(* A tier before and after a method.                                       *)

(* A tier without gone and with A as new entries is a tier, and holds the  *)
(* other keys as before.                                                   *)
LEMMA TierChange ==
    ASSUME NEW e \in Tier, NEW gone \in SUBSET Keys(e), NEW A \in SUBSET Key,
           NEW valid \in BOOLEAN, NEW f,
           f = [k \in Key |-> IF k \in A THEN Fresh(valid)
                              ELSE Without(e, gone)[k]]
    PROVE  /\ f \in Tier
           /\ Keys(f) = (Keys(e) \ gone) \cup A
           /\ \A k \in A : f[k] = Fresh(valid)
           /\ \A k \in Keys(f) \ A : f[k] = e[k]
<1>1. Ttl \in Nat
  BY AdmissionAssumption
<1>2. Fresh(valid) \in [valid : BOOLEAN, age : 0..(Ttl + 1)]
  BY <1>1 DEF Fresh
<1>3. Fresh(valid) # NoEntry
  BY DEF Fresh, NoEntry
<1>4. \A k \in Key : Without(e, gone)[k] = IF k \in gone THEN NoEntry ELSE e[k]
  BY DEF Without
<1>5. \A k \in Key : e[k] \in {NoEntry} \cup [valid : BOOLEAN, age : 0..(Ttl + 1)]
  BY DEF Tier
<1>6. \A k \in Key : f[k] = IF k \in A THEN Fresh(valid)
                             ELSE IF k \in gone THEN NoEntry ELSE e[k]
  BY <1>4
<1>7. f \in Tier
  BY <1>2, <1>4, <1>5, <1>6 DEF Tier
<1>8. Keys(f) = (Keys(e) \ gone) \cup A
  BY <1>3, <1>6 DEF Keys
<1>9. \A k \in Keys(f) \ A : f[k] = e[k]
  BY <1>6 DEF Keys
<1> QED
  BY <1>6, <1>7, <1>8, <1>9

(* What the invariants say of the two tiers. *)
LEMMA TiersOf ==
    ASSUME TypeOK, CountsExact
    PROVE  /\ m_validated_entries \in Tier /\ m_unknown_entries \in Tier
           /\ Exact(Keys(m_validated_entries), m_validated_netgroup_counts,
                    m_validated_hash_counts)
           /\ Exact(Keys(m_unknown_entries), m_unknown_netgroup_counts,
                    m_unknown_hash_counts)
           /\ Stale(m_validated_entries) \in SUBSET Keys(m_validated_entries)
           /\ Stale(m_unknown_entries) \in SUBSET Keys(m_unknown_entries)
           /\ Keys(m_validated_entries) \in SUBSET Key
           /\ Keys(m_unknown_entries) \in SUBSET Key
<1>1. m_validated_entries \in Tier /\ m_unknown_entries \in Tier
  BY DEF TypeOK, Tier
<1>2. Exact(Keys(m_validated_entries), m_validated_netgroup_counts,
            m_validated_hash_counts)
  BY DEF TypeOK, CountsExact, Exact
<1>3. Exact(Keys(m_unknown_entries), m_unknown_netgroup_counts,
            m_unknown_hash_counts)
  BY DEF TypeOK, CountsExact, Exact
<1> QED
  BY <1>1, <1>2, <1>3 DEF Stale, Keys

(* ChangeValidated leaves exact counts and the live entries outside S. *)
LEMMA ValidatedChange ==
    ASSUME TypeOK, CountsExact,
           NEW S \in SUBSET Keys(m_validated_entries),
           NEW A \in SUBSET Key, A \cap (LiveValidated \ S) = {},
           NEW valid \in BOOLEAN, ChangeValidated(S, A, valid)
    PROVE  /\ m_validated_entries' \in Tier
           /\ Keys(m_validated_entries') = (LiveValidated \ S) \cup A
           /\ Exact(Keys(m_validated_entries'), m_validated_netgroup_counts',
                    m_validated_hash_counts')
           /\ \A k \in A : m_validated_entries'[k] = Fresh(valid)
           /\ \A k \in Keys(m_validated_entries') \ A :
                 m_validated_entries'[k] = m_validated_entries[k]
<1> DEFINE gone == Stale(m_validated_entries) \cup S
<1>1. /\ m_validated_entries \in Tier
      /\ Exact(Keys(m_validated_entries), m_validated_netgroup_counts, m_validated_hash_counts)
      /\ gone \in SUBSET Keys(m_validated_entries) /\ Keys(m_validated_entries) \in SUBSET Key
  BY TiersOf
<1>2. /\ LiveValidated \ S = Keys(m_validated_entries) \ gone
      /\ A \cap (Keys(m_validated_entries) \ gone) = {}
  BY DEF LiveValidated
<1>3. m_validated_entries' =
        [k \in Key |-> IF k \in A THEN Fresh(valid)
                       ELSE Without(m_validated_entries, gone)[k]]
  BY DEF ChangeValidated
<1>4. CountsChanged(m_validated_netgroup_counts, m_validated_hash_counts, gone, A,
                    m_validated_netgroup_counts', m_validated_hash_counts')
  BY DEF ChangeValidated, CountsChanged
<1> HIDE DEF gone
<1>5. /\ m_validated_entries' \in Tier
      /\ Keys(m_validated_entries') = (Keys(m_validated_entries) \ gone) \cup A
      /\ \A k \in A : m_validated_entries'[k] = Fresh(valid)
      /\ \A k \in Keys(m_validated_entries') \ A :
            m_validated_entries'[k] = m_validated_entries[k]
  BY <1>1, <1>3, TierChange, SMTT(30)
<1>6. Exact((Keys(m_validated_entries) \ gone) \cup A, m_validated_netgroup_counts',
            m_validated_hash_counts')
  BY <1>1, <1>2, <1>4, ExactChange, SMTT(30)
<1> QED
  BY <1>2, <1>5, <1>6

(* The same for the quarantine. *)
LEMMA UnknownChange ==
    ASSUME TypeOK, CountsExact,
           NEW S \in SUBSET Keys(m_unknown_entries),
           NEW A \in SUBSET Key, A \cap (LiveUnknown \ S) = {},
           NEW valid \in BOOLEAN, ChangeUnknown(S, A, valid)
    PROVE  /\ m_unknown_entries' \in Tier
           /\ Keys(m_unknown_entries') = (LiveUnknown \ S) \cup A
           /\ Exact(Keys(m_unknown_entries'), m_unknown_netgroup_counts',
                    m_unknown_hash_counts')
           /\ \A k \in A : m_unknown_entries'[k] = Fresh(valid)
           /\ \A k \in Keys(m_unknown_entries') \ A :
                 m_unknown_entries'[k] = m_unknown_entries[k]
<1> DEFINE gone == Stale(m_unknown_entries) \cup S
<1>1. /\ m_unknown_entries \in Tier
      /\ Exact(Keys(m_unknown_entries), m_unknown_netgroup_counts, m_unknown_hash_counts)
      /\ gone \in SUBSET Keys(m_unknown_entries) /\ Keys(m_unknown_entries) \in SUBSET Key
  BY TiersOf
<1>2. /\ LiveUnknown \ S = Keys(m_unknown_entries) \ gone
      /\ A \cap (Keys(m_unknown_entries) \ gone) = {}
  BY DEF LiveUnknown
<1>3. m_unknown_entries' =
        [k \in Key |-> IF k \in A THEN Fresh(valid)
                       ELSE Without(m_unknown_entries, gone)[k]]
  BY DEF ChangeUnknown
<1>4. CountsChanged(m_unknown_netgroup_counts, m_unknown_hash_counts, gone, A,
                    m_unknown_netgroup_counts', m_unknown_hash_counts')
  BY DEF ChangeUnknown, CountsChanged
<1> HIDE DEF gone
<1>5. /\ m_unknown_entries' \in Tier
      /\ Keys(m_unknown_entries') = (Keys(m_unknown_entries) \ gone) \cup A
      /\ \A k \in A : m_unknown_entries'[k] = Fresh(valid)
      /\ \A k \in Keys(m_unknown_entries') \ A :
            m_unknown_entries'[k] = m_unknown_entries[k]
  BY <1>1, <1>3, TierChange, SMTT(30)
<1>6. Exact((Keys(m_unknown_entries) \ gone) \cup A, m_unknown_netgroup_counts',
            m_unknown_hash_counts')
  BY <1>1, <1>2, <1>4, ExactChange, SMTT(30)
<1> QED
  BY <1>2, <1>5, <1>6
-----------------------------------------------------------------------------
(* Bounds.                                                                 *)

(* The keys K are within the bounds of a tier. *)
Within(K, total, per_group, per_hash) ==
    /\ Cardinality(K) <= total
    /\ \A g \in Group : Cardinality(OfGroup(K, g)) <= per_group
    /\ \A h \in Hash : Cardinality(OfHash(K, h)) <= per_hash

(* The bounds of both tiers are positive. *)
LEMMA LimitTypes ==
    /\ MaxEntries \in Nat \ {0} /\ MaxEntriesPerNetgroup \in Nat \ {0}
    /\ MaxValidatedCandidatesPerHash \in Nat \ {0}
    /\ MaxUnknownEntries \in Nat \ {0}
    /\ MaxUnknownEntriesPerNetgroup \in Nat \ {0}
    /\ MaxUnknownCandidatesPerHash \in Nat \ {0}
    /\ MaxUnknownSubmissionsPerNetgroup \in Nat \ {0}
  BY AdmissionAssumption DEF Limits

(* Erasing entries exceeds no bound. *)
LEMMA WithinSubset ==
    ASSUME NEW K \in SUBSET Key, NEW L \in SUBSET K,
           NEW t \in Nat, NEW pg \in Nat, NEW ph \in Nat,
           Within(K, t, pg, ph)
    PROVE  Within(L, t, pg, ph)
<1>1. Cardinality(L) <= t
  <2>1. /\ Cardinality(K) \in Nat /\ Cardinality(L) \in Nat
        /\ Cardinality(L) <= Cardinality(K)
    BY KeySets
  <2> QED
    BY <2>1 DEF Within
<1>2. ASSUME NEW g \in Group PROVE Cardinality(OfGroup(L, g)) <= pg
  <2>1. OfGroup(K, g) \in SUBSET Key /\ OfGroup(L, g) \in SUBSET OfGroup(K, g)
        /\ OfGroup(L, g) \in SUBSET Key
    BY DEF OfGroup
  <2>2. /\ Cardinality(OfGroup(K, g)) \in Nat /\ Cardinality(OfGroup(L, g)) \in Nat
        /\ Cardinality(OfGroup(L, g)) <= Cardinality(OfGroup(K, g))
    BY <2>1, KeySets
  <2> QED
    BY <2>2 DEF Within
<1>3. ASSUME NEW h \in Hash PROVE Cardinality(OfHash(L, h)) <= ph
  <2>1. OfHash(K, h) \in SUBSET Key /\ OfHash(L, h) \in SUBSET OfHash(K, h)
        /\ OfHash(L, h) \in SUBSET Key
    BY DEF OfHash
  <2>2. /\ Cardinality(OfHash(K, h)) \in Nat /\ Cardinality(OfHash(L, h)) \in Nat
        /\ Cardinality(OfHash(L, h)) <= Cardinality(OfHash(K, h))
    BY <2>1, KeySets
  <2> QED
    BY <2>2 DEF Within
<1> QED
  BY <1>1, <1>2, <1>3 DEF Within

(* Adding one key adds one to a count. *)
LEMMA CountAdd ==
    ASSUME NEW K \in SUBSET Key, NEW k \in Key, k \notin K
    PROVE  Cardinality(K \cup {k}) = Cardinality(K) + 1
  BY KeySets, FS_AddElement

(* An entry that finds each of its three counts below the bound fits in. *)
LEMMA WithinAdd ==
    ASSUME NEW K \in SUBSET Key, NEW k \in Key, k \notin K,
           NEW t \in Nat, NEW pg \in Nat, NEW ph \in Nat,
           Within(K, t, pg, ph),
           Cardinality(K) < t,
           Cardinality(OfGroup(K, k[2])) < pg,
           Cardinality(OfHash(K, k[1])) < ph
    PROVE  Within(K \cup {k}, t, pg, ph)
<1>1. Cardinality(K \cup {k}) <= t
  <2>1. Cardinality(K \cup {k}) = Cardinality(K) + 1 /\ Cardinality(K) \in Nat
    BY CountAdd, KeySets
  <2> QED
    BY <2>1
<1>2. ASSUME NEW g \in Group PROVE Cardinality(OfGroup(K \cup {k}, g)) <= pg
  <2>1. CASE g = k[2]
    <3>1. OfGroup(K \cup {k}, g) = OfGroup(K, g) \cup {k}
      BY <2>1 DEF OfGroup
    <3>2. OfGroup(K, g) \in SUBSET Key /\ k \notin OfGroup(K, g)
      BY DEF OfGroup
    <3>3. /\ Cardinality(OfGroup(K, g) \cup {k}) = Cardinality(OfGroup(K, g)) + 1
          /\ Cardinality(OfGroup(K, g)) \in Nat
      BY <3>2, CountAdd, KeySets
    <3> QED
      BY <2>1, <3>1, <3>3
  <2>2. CASE g # k[2]
    <3>1. OfGroup(K \cup {k}, g) = OfGroup(K, g)
      BY <2>2 DEF OfGroup
    <3> QED
      BY <3>1 DEF Within
  <2> QED
    BY <2>1, <2>2
<1>3. ASSUME NEW h \in Hash PROVE Cardinality(OfHash(K \cup {k}, h)) <= ph
  <2>1. CASE h = k[1]
    <3>1. OfHash(K \cup {k}, h) = OfHash(K, h) \cup {k}
      BY <2>1 DEF OfHash
    <3>2. OfHash(K, h) \in SUBSET Key /\ k \notin OfHash(K, h)
      BY DEF OfHash
    <3>3. /\ Cardinality(OfHash(K, h) \cup {k}) = Cardinality(OfHash(K, h)) + 1
          /\ Cardinality(OfHash(K, h)) \in Nat
      BY <3>2, CountAdd, KeySets
    <3> QED
      BY <2>1, <3>1, <3>3
  <2>2. CASE h # k[1]
    <3>1. OfHash(K \cup {k}, h) = OfHash(K, h)
      BY <2>2 DEF OfHash
    <3> QED
      BY <3>1 DEF Within
  <2> QED
    BY <2>1, <2>2
<1> QED
  BY <1>1, <1>2, <1>3 DEF Within

(* The same, where entries were erased from a tier within its bounds. *)
LEMMA WithinReplace ==
    ASSUME NEW K \in SUBSET Key, NEW L \in SUBSET K, NEW k \in Key, k \notin L,
           NEW t \in Nat, NEW pg \in Nat, NEW ph \in Nat,
           Within(K, t, pg, ph),
           Cardinality(L) < t,
           Cardinality(OfGroup(L, k[2])) < pg,
           Cardinality(OfHash(L, k[1])) < ph
    PROVE  Within(L \cup {k}, t, pg, ph)
<1>1. L \in SUBSET Key /\ Within(L, t, pg, ph)
  BY WithinSubset, Zenon
<1> QED
  BY <1>1, WithinAdd, SMTT(30)

(* What a method sees of the counts after it has pruned: exact counts of    *)
(* the live entries.                                                       *)
LEMMA LiveCounts ==
    ASSUME TypeOK, CountsExact
    PROVE  /\ \A g \in Group :
                /\ NetgroupSize(g) = Cardinality(OfGroup(LiveValidated, g))
                /\ UnknownNetgroupSize(g) = Cardinality(OfGroup(LiveUnknown, g))
           /\ \A h \in Hash :
                /\ ValidatedCandidatesForHash(h)
                     = Cardinality(OfHash(LiveValidated, h))
                /\ UnknownCandidatesForHash(h)
                     = Cardinality(OfHash(LiveUnknown, h))
           /\ LiveValidated \in SUBSET Key /\ LiveUnknown \in SUBSET Key
<1> DEFINE Pruned(K, st, gc, hc) ==
             /\ \A g \in Group : GroupCountsWithout(gc, st)[g]
                                   = Cardinality(OfGroup(K \ st, g))
             /\ \A h \in Hash : HashCountsWithout(hc, st)[h]
                                  = Cardinality(OfHash(K \ st, h))
<1>1. ASSUME NEW K \in SUBSET Key, NEW st \in SUBSET K, NEW gc, NEW hc,
             Exact(K, gc, hc)
      PROVE  Pruned(K, st, gc, hc)
  <2>1. ASSUME NEW g \in Group
        PROVE  GroupCountsWithout(gc, st)[g] = Cardinality(OfGroup(K \ st, g))
    <3>1. /\ OfGroup(K, g) \in SUBSET Key
          /\ OfGroup(st, g) \in SUBSET OfGroup(K, g)
          /\ OfGroup(K \ st, g) = OfGroup(K, g) \ OfGroup(st, g)
      BY DEF OfGroup
    <3>2. Cardinality(OfGroup(K, g) \ OfGroup(st, g))
            = Less(Cardinality(OfGroup(K, g)), Cardinality(OfGroup(st, g)))
      BY <3>1, CountErase
    <3>3. GroupCountsWithout(gc, st)[g]
            = Less(Cardinality(OfGroup(K, g)), Cardinality(OfGroup(st, g)))
      BY <1>1 DEF GroupCountsWithout, Exact
    <3> QED
      BY <3>1, <3>2, <3>3
  <2>2. ASSUME NEW h \in Hash
        PROVE  HashCountsWithout(hc, st)[h] = Cardinality(OfHash(K \ st, h))
    <3>1. /\ OfHash(K, h) \in SUBSET Key
          /\ OfHash(st, h) \in SUBSET OfHash(K, h)
          /\ OfHash(K \ st, h) = OfHash(K, h) \ OfHash(st, h)
      BY DEF OfHash
    <3>2. Cardinality(OfHash(K, h) \ OfHash(st, h))
            = Less(Cardinality(OfHash(K, h)), Cardinality(OfHash(st, h)))
      BY <3>1, CountErase
    <3>3. HashCountsWithout(hc, st)[h]
            = Less(Cardinality(OfHash(K, h)), Cardinality(OfHash(st, h)))
      BY <1>1 DEF HashCountsWithout, Exact
    <3> QED
      BY <3>1, <3>2, <3>3
  <2> QED
    BY <2>1, <2>2
<1> HIDE DEF Pruned
<1>2. Pruned(Keys(m_validated_entries), Stale(m_validated_entries),
             m_validated_netgroup_counts, m_validated_hash_counts)
  BY <1>1, TiersOf
<1>3. Pruned(Keys(m_unknown_entries), Stale(m_unknown_entries),
             m_unknown_netgroup_counts, m_unknown_hash_counts)
  BY <1>1, TiersOf
<1>4. LiveValidated \in SUBSET Key /\ LiveUnknown \in SUBSET Key
  BY DEF LiveValidated, LiveUnknown, Keys
<1> QED
  BY <1>2, <1>3, <1>4 DEF Pruned, NetgroupSize, UnknownNetgroupSize,
     ValidatedCandidatesForHash, UnknownCandidatesForHash, LiveValidated,
     LiveUnknown
-----------------------------------------------------------------------------
(* The inductive invariant, by the parts of the state.                     *)

ValidatedOK ==
    /\ m_validated_entries \in Tier
    /\ Exact(Keys(m_validated_entries), m_validated_netgroup_counts,
             m_validated_hash_counts)
    /\ Within(Keys(m_validated_entries), MaxEntries, MaxEntriesPerNetgroup,
              MaxValidatedCandidatesPerHash)

UnknownOK ==
    /\ m_unknown_entries \in Tier
    /\ Exact(Keys(m_unknown_entries), m_unknown_netgroup_counts,
             m_unknown_hash_counts)
    /\ Within(Keys(m_unknown_entries), MaxUnknownEntries,
              MaxUnknownEntriesPerNetgroup, MaxUnknownCandidatesPerHash)

HistoryOK ==
    /\ m_unknown_submission_history \in
         [Group -> Seq(0..(UnknownSubmissionWindow + 1))]
    /\ \A g \in Group : Len(m_unknown_submission_history[g])
                           <= MaxUnknownSubmissionsPerNetgroup

LedgerOK ==
    /\ receipts \in [Key -> Nat]
    /\ paid \in [Key -> Nat]
    /\ GrantsPaid

IInv == ValidatedOK /\ UnknownOK /\ HistoryOK /\ LedgerOK

(* The invariant says what the properties say. *)
LEMMA IInvMeans ==
    IInv <=> TypeOK /\ CountsExact /\ TiersBounded /\ GrantsPaid
<1>1. IInv => TypeOK
  BY DEF IInv, TypeOK, ValidatedOK, UnknownOK, HistoryOK, LedgerOK, Exact, Tier
<1>2. IInv => CountsExact
  BY DEF IInv, CountsExact, ValidatedOK, UnknownOK, Exact
<1>3. IInv => TiersBounded
  BY DEF IInv, TiersBounded, ValidatedOK, UnknownOK, HistoryOK, Within
<1>4. IInv => GrantsPaid
  BY DEF IInv, LedgerOK
<1>5. ASSUME TypeOK, CountsExact, TiersBounded, GrantsPaid
      PROVE  IInv
  <2>1. ValidatedOK
    BY <1>5, TiersOf DEF ValidatedOK, Within, TiersBounded
  <2>2. UnknownOK
    BY <1>5, TiersOf DEF UnknownOK, Within, TiersBounded
  <2>3. HistoryOK
    BY <1>5 DEF HistoryOK, TypeOK, TiersBounded
  <2>4. LedgerOK
    BY <1>5 DEF LedgerOK, TypeOK
  <2> QED
    BY <2>1, <2>2, <2>3, <2>4 DEF IInv
<1> QED
  BY <1>1, <1>2, <1>3, <1>4, <1>5

(* A freshly constructed store satisfies it. *)
LEMMA InitIInv == Init => IInv
<1> SUFFICES ASSUME Init PROVE IInv
  OBVIOUS
<1>1. m_validated_entries \in Tier /\ m_unknown_entries \in Tier
  BY DEF Init, Tier
<1>2. Keys(m_validated_entries) = {} /\ Keys(m_unknown_entries) = {}
  BY DEF Init, Keys
<1>3. \A g \in Group : OfGroup({}, g) = {}
  BY DEF OfGroup
<1>4. \A h \in Hash : OfHash({}, h) = {}
  BY DEF OfHash
<1>5. Cardinality({}) = 0
  BY FS_EmptySet
<1>6. /\ Exact({}, [g \in Group |-> 0], [h \in Hash |-> 0])
      /\ \A t, pg, ph \in Nat : Within({}, t, pg, ph)
  <2>1. \A g \in Group : Cardinality(OfGroup({}, g)) = 0
    BY <1>3, <1>5
  <2>2. \A h \in Hash : Cardinality(OfHash({}, h)) = 0
    BY <1>4, <1>5
  <2> QED
    BY <2>1, <2>2, <1>5 DEF Exact, Within
<1>7. ValidatedOK /\ UnknownOK
  BY <1>1, <1>2, <1>6, LimitTypes DEF Init, ValidatedOK, UnknownOK
<1>8. HistoryOK
  <2>1. <<>> \in Seq(0..(UnknownSubmissionWindow + 1)) /\ Len(<<>>) = 0
    OBVIOUS
  <2> QED
    BY <2>1, LimitTypes DEF Init, HistoryOK
<1>9. LedgerOK
  BY <1>2 DEF Init, LedgerOK, GrantsPaid
<1> QED
  BY <1>7, <1>8, <1>9 DEF IInv

(* Pruning the history keeps its type and shortens it. *)
LEMMA RecentSubmissionsType ==
    ASSUME HistoryOK
    PROVE  /\ RecentSubmissions \in
                [Group -> Seq(0..(UnknownSubmissionWindow + 1))]
           /\ \A g \in Group : Len(RecentSubmissions[g])
                                  <= MaxUnknownSubmissionsPerNetgroup
<1> DEFINE Age == 0..(UnknownSubmissionWindow + 1)
<1>1. ASSUME NEW g \in Group
      PROVE  /\ RecentSubmissions[g] \in Seq(Age)
             /\ Len(RecentSubmissions[g]) <= MaxUnknownSubmissionsPerNetgroup
  <2> DEFINE times == m_unknown_submission_history[g]
             n == Cardinality(Expired(times))
  <2>1. /\ times \in Seq(Age) /\ Len(times) \in Nat
        /\ DOMAIN times = 1..Len(times)
        /\ Len(times) <= MaxUnknownSubmissionsPerNetgroup
    BY DEF HistoryOK
  <2>2. IsFiniteSet(1..Len(times)) /\ Cardinality(1..Len(times)) = Len(times)
    BY <2>1, FS_Interval
  <2>3. Expired(times) \subseteq 1..Len(times)
    BY <2>1 DEF Expired
  <2>4. n \in Nat /\ n <= Len(times)
    BY <2>2, <2>3, FS_Subset, FS_CardinalityType
  <2>5. RecentSubmissions[g] = SubSeq(times, n + 1, Len(times))
    BY DEF RecentSubmissions
  <2> HIDE DEF n
  <2>6. /\ SubSeq(times, n + 1, Len(times)) \in Seq(Age)
        /\ Len(SubSeq(times, n + 1, Len(times))) <= Len(times)
    <3> HIDE DEF times, Age
    <3>1. \A i \in (n + 1)..Len(times) : times[i] \in Age
      BY <2>1, <2>4, ElementOfSeq
    <3>2. n + 1 \in Int /\ Len(times) \in Int
      BY <2>1, <2>4
    <3>3. /\ SubSeq(times, n + 1, Len(times)) \in Seq(Age)
          /\ Len(SubSeq(times, n + 1, Len(times)))
               = IF n + 1 <= Len(times) THEN Len(times) - (n + 1) + 1 ELSE 0
      BY <3>1, <3>2, SubSeqProperties, Zenon
    <3> QED
      BY <3>3, <2>1, <2>4
  <2> QED
    BY <2>1, <2>5, <2>6, LimitTypes
<1>2. RecentSubmissions
        = [g \in Group |-> SubSeq(m_unknown_submission_history[g],
             Cardinality(Expired(m_unknown_submission_history[g])) + 1,
             Len(m_unknown_submission_history[g]))]
  BY DEF RecentSubmissions
<1> QED
  BY <1>1, <1>2

(* ... so pruning keeps the history's part of the invariant, *)
LEMMA PruneHistory ==
    ASSUME HistoryOK, PruneSubmissionHistory
    PROVE  HistoryOK'
  BY RecentSubmissionsType DEF HistoryOK, PruneSubmissionHistory

(* ... and so does charging one submission to a netgroup that is not rate   *)
(* limited.                                                                *)
LEMMA ChargeHistory ==
    ASSUME HistoryOK, NEW g \in Group, ~RateLimited(g), ChargeSubmission(g)
    PROVE  HistoryOK'
<1> DEFINE Age == 0..(UnknownSubmissionWindow + 1)
<1>1. /\ RecentSubmissions \in [Group -> Seq(Age)]
      /\ \A f \in Group : Len(RecentSubmissions[f])
                             <= MaxUnknownSubmissionsPerNetgroup
  BY RecentSubmissionsType
<1>2. m_unknown_submission_history'
        = [RecentSubmissions EXCEPT ![g] = Append(RecentSubmissions[g], 0)]
  BY DEF ChargeSubmission
<1>3. 0 \in Age
  BY AdmissionAssumption
<1>4. /\ Append(RecentSubmissions[g], 0) \in Seq(Age)
      /\ Len(Append(RecentSubmissions[g], 0)) = Len(RecentSubmissions[g]) + 1
      /\ Len(RecentSubmissions[g]) \in Nat
  BY <1>1, <1>3
<1>5. Len(RecentSubmissions[g]) < MaxUnknownSubmissionsPerNetgroup
  BY <1>4, LimitTypes DEF RateLimited
<1> HIDE DEF Age
<1>6. m_unknown_submission_history' \in [Group -> Seq(Age)]
  BY <1>1, <1>2, <1>4
<1>7. ASSUME NEW f \in Group
      PROVE  Len(m_unknown_submission_history'[f])
               <= MaxUnknownSubmissionsPerNetgroup
  <2>1. CASE f = g
    BY <2>1, <1>1, <1>2, <1>4, <1>5, LimitTypes
  <2>2. CASE f # g
    BY <2>2, <1>1, <1>2
  <2> QED
    BY <2>1, <2>2
<1> QED
  BY <1>6, <1>7 DEF HistoryOK, Age

(* Pruning the validated tier and erasing entries keeps its part of the     *)
(* invariant,                                                              *)
LEMMA ValidatedErase ==
    ASSUME IInv, NEW S \in SUBSET Keys(m_validated_entries), NEW valid \in BOOLEAN,
           ChangeValidated(S, {}, valid)
    PROVE  /\ ValidatedOK'
           /\ Keys(m_validated_entries') = LiveValidated \ S
           /\ \A k \in Keys(m_validated_entries') :
                m_validated_entries'[k] = m_validated_entries[k]
<1>0. /\ MaxEntries \in Nat /\ MaxEntriesPerNetgroup \in Nat
      /\ MaxValidatedCandidatesPerHash \in Nat
  BY LimitTypes
<1>1. TypeOK /\ CountsExact /\ TiersBounded
  BY IInvMeans
<1> DEFINE A == {}
<1>2. A \in SUBSET Key /\ A \cap (LiveValidated \ S) = {} /\ ChangeValidated(S, A, valid)
  OBVIOUS
<1> HIDE DEF A
<1>3. /\ m_validated_entries' \in Tier
      /\ Keys(m_validated_entries') = (LiveValidated \ S) \cup A
      /\ Exact(Keys(m_validated_entries'), m_validated_netgroup_counts',
               m_validated_hash_counts')
      /\ \A l \in A : m_validated_entries'[l] = Fresh(valid)
      /\ \A l \in Keys(m_validated_entries') \ A :
            m_validated_entries'[l] = m_validated_entries[l]
  BY <1>1, <1>2, ValidatedChange
<1> USE DEF A
<1>4. Keys(m_validated_entries') = LiveValidated \ S
  BY <1>3
<1>5. /\ Keys(m_validated_entries) \in SUBSET Key
      /\ LiveValidated \ S \in SUBSET Keys(m_validated_entries)
  BY DEF Keys, LiveValidated
<1>6. Within(Keys(m_validated_entries), MaxEntries, MaxEntriesPerNetgroup,
             MaxValidatedCandidatesPerHash)
  BY DEF IInv, ValidatedOK
<1>7. Within(LiveValidated \ S, MaxEntries, MaxEntriesPerNetgroup,
             MaxValidatedCandidatesPerHash)
  BY <1>5, <1>6, <1>0, WithinSubset, Zenon
<1> QED
  BY <1>3, <1>4, <1>7 DEF ValidatedOK

(* ... and so does storing one entry for which there is room. *)
LEMMA ValidatedStore ==
    ASSUME IInv, NEW S \in SUBSET Keys(m_validated_entries), NEW A \in SUBSET Key,
           NEW valid \in BOOLEAN, ChangeValidated(S, A, valid),
           A \cap (LiveValidated \ S) = {},
           Within((LiveValidated \ S) \cup A, MaxEntries,
                  MaxEntriesPerNetgroup, MaxValidatedCandidatesPerHash)
    PROVE  /\ ValidatedOK'
           /\ Keys(m_validated_entries') = (LiveValidated \ S) \cup A
           /\ \A l \in A : m_validated_entries'[l] = Fresh(valid)
           /\ \A l \in Keys(m_validated_entries') \ A :
                m_validated_entries'[l] = m_validated_entries[l]
<1>1. TypeOK /\ CountsExact
  BY IInvMeans
<1>2. /\ m_validated_entries' \in Tier
      /\ Keys(m_validated_entries') = (LiveValidated \ S) \cup A
      /\ Exact(Keys(m_validated_entries'), m_validated_netgroup_counts',
               m_validated_hash_counts')
      /\ \A l \in A : m_validated_entries'[l] = Fresh(valid)
      /\ \A l \in Keys(m_validated_entries') \ A :
            m_validated_entries'[l] = m_validated_entries[l]
  BY <1>1, ValidatedChange
<1> QED
  BY <1>2 DEF ValidatedOK

(* The same two facts for the quarantine. *)
LEMMA UnknownErase ==
    ASSUME IInv, NEW S \in SUBSET Keys(m_unknown_entries), NEW valid \in BOOLEAN,
           ChangeUnknown(S, {}, valid)
    PROVE  /\ UnknownOK'
           /\ Keys(m_unknown_entries') = LiveUnknown \ S
           /\ \A k \in Keys(m_unknown_entries') :
                m_unknown_entries'[k] = m_unknown_entries[k]
<1>0. /\ MaxUnknownEntries \in Nat /\ MaxUnknownEntriesPerNetgroup \in Nat
      /\ MaxUnknownCandidatesPerHash \in Nat
  BY LimitTypes
<1>1. TypeOK /\ CountsExact /\ TiersBounded
  BY IInvMeans
<1> DEFINE A == {}
<1>2. A \in SUBSET Key /\ A \cap (LiveUnknown \ S) = {} /\ ChangeUnknown(S, A, valid)
  OBVIOUS
<1> HIDE DEF A
<1>3. /\ m_unknown_entries' \in Tier
      /\ Keys(m_unknown_entries') = (LiveUnknown \ S) \cup A
      /\ Exact(Keys(m_unknown_entries'), m_unknown_netgroup_counts',
               m_unknown_hash_counts')
      /\ \A l \in A : m_unknown_entries'[l] = Fresh(valid)
      /\ \A l \in Keys(m_unknown_entries') \ A :
            m_unknown_entries'[l] = m_unknown_entries[l]
  BY <1>1, <1>2, UnknownChange
<1> USE DEF A
<1>4. Keys(m_unknown_entries') = LiveUnknown \ S
  BY <1>3
<1>5. /\ Keys(m_unknown_entries) \in SUBSET Key
      /\ LiveUnknown \ S \in SUBSET Keys(m_unknown_entries)
  BY DEF Keys, LiveUnknown
<1>6. Within(Keys(m_unknown_entries), MaxUnknownEntries, MaxUnknownEntriesPerNetgroup,
             MaxUnknownCandidatesPerHash)
  BY DEF IInv, UnknownOK
<1>7. Within(LiveUnknown \ S, MaxUnknownEntries, MaxUnknownEntriesPerNetgroup,
             MaxUnknownCandidatesPerHash)
  BY <1>5, <1>6, <1>0, WithinSubset, Zenon
<1> QED
  BY <1>3, <1>4, <1>7 DEF UnknownOK

(* ... and so does storing one entry for which there is room. *)
LEMMA UnknownStore ==
    ASSUME IInv, NEW S \in SUBSET Keys(m_unknown_entries), NEW A \in SUBSET Key,
           NEW valid \in BOOLEAN, ChangeUnknown(S, A, valid),
           A \cap (LiveUnknown \ S) = {},
           Within((LiveUnknown \ S) \cup A, MaxUnknownEntries,
                  MaxUnknownEntriesPerNetgroup, MaxUnknownCandidatesPerHash)
    PROVE  /\ UnknownOK'
           /\ Keys(m_unknown_entries') = (LiveUnknown \ S) \cup A
           /\ \A l \in A : m_unknown_entries'[l] = Fresh(valid)
           /\ \A l \in Keys(m_unknown_entries') \ A :
                m_unknown_entries'[l] = m_unknown_entries[l]
<1>1. TypeOK /\ CountsExact
  BY IInvMeans
<1>2. /\ m_unknown_entries' \in Tier
      /\ Keys(m_unknown_entries') = (LiveUnknown \ S) \cup A
      /\ Exact(Keys(m_unknown_entries'), m_unknown_netgroup_counts',
               m_unknown_hash_counts')
      /\ \A l \in A : m_unknown_entries'[l] = Fresh(valid)
      /\ \A l \in Keys(m_unknown_entries') \ A :
            m_unknown_entries'[l] = m_unknown_entries[l]
  BY <1>1, UnknownChange
<1> QED
  BY <1>2 DEF UnknownOK
-----------------------------------------------------------------------------
(* Each method keeps the invariant.                                        *)

(* The live entries are entries. *)
LEMMA LiveKeys ==
    /\ LiveValidated \subseteq Keys(m_validated_entries)
    /\ LiveUnknown \subseteq Keys(m_unknown_entries)
    /\ Keys(m_validated_entries) \subseteq Key
    /\ Keys(m_unknown_entries) \subseteq Key
  BY DEF LiveValidated, LiveUnknown, Keys

(* The two prunings that a method which stores nothing performs. *)
LEMMA PruneTiers ==
    ASSUME IInv
    PROVE  /\ \A valid \in BOOLEAN : ChangeValidated({}, {}, valid) =>
                /\ ValidatedOK'
                /\ Keys(m_validated_entries') \subseteq Keys(m_validated_entries)
                /\ \A k \in Keys(m_validated_entries') :
                     m_validated_entries'[k] = m_validated_entries[k]
           /\ \A valid \in BOOLEAN : ChangeUnknown({}, {}, valid) =>
                /\ UnknownOK'
                /\ Keys(m_unknown_entries') = LiveUnknown
<1>1. {} \in SUBSET Keys(m_validated_entries)
      /\ {} \in SUBSET Keys(m_unknown_entries)
  OBVIOUS
<1>2. ASSUME NEW valid \in BOOLEAN, ChangeValidated({}, {}, valid)
      PROVE  /\ ValidatedOK'
             /\ Keys(m_validated_entries') \subseteq Keys(m_validated_entries)
             /\ \A k \in Keys(m_validated_entries') :
                  m_validated_entries'[k] = m_validated_entries[k]
  <2> DEFINE S == {}
  <2>1. S \in SUBSET Keys(m_validated_entries) /\ ChangeValidated(S, {}, valid)
    BY <1>2
  <2> HIDE DEF S
  <2>2. /\ ValidatedOK'
        /\ Keys(m_validated_entries') = LiveValidated \ S
        /\ \A k \in Keys(m_validated_entries') :
             m_validated_entries'[k] = m_validated_entries[k]
    BY <2>1, ValidatedErase
  <2> QED
    BY <2>2, LiveKeys
<1>3. ASSUME NEW valid \in BOOLEAN, ChangeUnknown({}, {}, valid)
      PROVE  UnknownOK' /\ Keys(m_unknown_entries') = LiveUnknown
  <2> DEFINE S == {}
  <2>1. S \in SUBSET Keys(m_unknown_entries) /\ ChangeUnknown(S, {}, valid)
    BY <1>3
  <2> HIDE DEF S
  <2>2. UnknownOK' /\ Keys(m_unknown_entries') = LiveUnknown \ S
    BY <2>1, UnknownErase
  <2> QED
    BY <2>2 DEF S
<1> QED
  BY <1>2, <1>3

(* What the ledger needs of a step: no key gains tickets without paying,    *)
(* and no ticket enters the validated tier unchecked.                      *)
LEMMA LedgerStep ==
    ASSUME IInv,
           receipts' \in [Key -> Nat], paid' \in [Key -> Nat],
           \A k \in Key :
              receipts'[k] + (IF k \in Keys(m_validated_entries') THEN 1 ELSE 0)
                + (IF k \in Keys(m_unknown_entries') THEN 1 ELSE 0) <= paid'[k],
           \A k \in Keys(m_validated_entries') : m_validated_entries'[k].valid
    PROVE  LedgerOK'
<1>1. GrantsPaid'
  BY LiveKeys DEF GrantsPaid, Keys
<1> QED
  BY <1>1 DEF LedgerOK

(* What the ledger says of the state as it is. *)
LEMMA LedgerNow ==
    ASSUME IInv
    PROVE  /\ receipts \in [Key -> Nat] /\ paid \in [Key -> Nat]
           /\ \A k \in Key :
                receipts[k] + (IF k \in Keys(m_validated_entries) THEN 1 ELSE 0)
                  + (IF k \in Keys(m_unknown_entries) THEN 1 ELSE 0) <= paid[k]
           /\ \A k \in Keys(m_validated_entries) : m_validated_entries[k].valid
  BY LiveKeys DEF IInv, LedgerOK, GrantsPaid

(* An unknown header's sidecar. *)
LEMMA RememberStep ==
    ASSUME IInv, NEW k \in Key, NEW valid \in BOOLEAN, Remember(k, valid)
    PROVE  IInv'
<1>1. /\ ValidatedOK'
      /\ Keys(m_validated_entries') \subseteq Keys(m_validated_entries)
      /\ \A l \in Keys(m_validated_entries') :
           m_validated_entries'[l] = m_validated_entries[l]
  BY PruneTiers DEF Remember
<1>2. k[2] \in Group /\ k[1] \in Hash
  BY DEF Key
<1>3. /\ receipts \in [Key -> Nat] /\ paid \in [Key -> Nat]
      /\ \A l \in Key :
           receipts[l] + (IF l \in Keys(m_validated_entries) THEN 1 ELSE 0)
             + (IF l \in Keys(m_unknown_entries) THEN 1 ELSE 0) <= paid[l]
      /\ \A l \in Keys(m_validated_entries) : m_validated_entries[l].valid
  BY LedgerNow
<1>4. receipts' = receipts
  BY DEF Remember
<1>5. HistoryOK
  BY DEF IInv
<1>6. CASE /\ ChangeUnknown({}, {}, valid)
           /\ UNCHANGED paid
           /\ PruneSubmissionHistory \/ (~RateLimited(k[2]) /\ ChargeSubmission(k[2]))
  <2>1. UnknownOK' /\ Keys(m_unknown_entries') = LiveUnknown
    BY <1>6, PruneTiers
  <2>2. HistoryOK'
    BY <1>2, <1>5, <1>6, PruneHistory, ChargeHistory
  <2>3. LedgerOK'
    BY <1>1, <1>3, <1>4, <1>6, <2>1, LiveKeys, LedgerStep
  <2> QED
    BY <1>1, <2>1, <2>2, <2>3 DEF IInv
<1>7. CASE /\ ~QuarantineFull(k)
           /\ ~RateLimited(k[2]) /\ ChargeSubmission(k[2])
           /\ k \notin LiveUnknown
           /\ ~(UnknownNetgroupSize(k[2]) >= MaxUnknownEntriesPerNetgroup)
           /\ ChangeUnknown({}, {k}, valid) /\ Pay(k)
  <2>1. HistoryOK'
    BY <1>2, <1>5, <1>7, ChargeHistory
  <2> DEFINE S == {}
             A == {k}
  <2>2. S \in SUBSET Keys(m_unknown_entries) /\ ChangeUnknown(S, A, valid)
    BY <1>7
  <2>3. A = {k} /\ LiveUnknown \ S = LiveUnknown
    OBVIOUS
  <2> HIDE DEF S, A
  <2>4. /\ Cardinality(LiveUnknown) < MaxUnknownEntries
        /\ Cardinality(OfGroup(LiveUnknown, k[2])) < MaxUnknownEntriesPerNetgroup
        /\ Cardinality(OfHash(LiveUnknown, k[1])) < MaxUnknownCandidatesPerHash
    <3>1. TypeOK /\ CountsExact
      BY IInvMeans
    <3>2. /\ UnknownNetgroupSize(k[2]) = Cardinality(OfGroup(LiveUnknown, k[2]))
          /\ UnknownCandidatesForHash(k[1]) = Cardinality(OfHash(LiveUnknown, k[1]))
          /\ LiveUnknown \in SUBSET Key
      BY <1>2, <3>1, LiveCounts
    <3>3. OfGroup(LiveUnknown, k[2]) \in SUBSET Key
          /\ OfHash(LiveUnknown, k[1]) \in SUBSET Key
      BY <3>2 DEF OfGroup, OfHash
    <3>4. /\ Cardinality(LiveUnknown) \in Nat
          /\ Cardinality(OfGroup(LiveUnknown, k[2])) \in Nat
          /\ Cardinality(OfHash(LiveUnknown, k[1])) \in Nat
      BY <3>2, <3>3, KeySets
    <3> QED
      BY <1>7, <3>2, <3>4, LimitTypes DEF QuarantineFull
  <2>5. UnknownOK' /\ Keys(m_unknown_entries') = LiveUnknown \cup {k}
    <3>1. Within(LiveUnknown \cup {k}, MaxUnknownEntries,
                 MaxUnknownEntriesPerNetgroup, MaxUnknownCandidatesPerHash)
      <4>1. Within(Keys(m_unknown_entries), MaxUnknownEntries,
                   MaxUnknownEntriesPerNetgroup, MaxUnknownCandidatesPerHash)
        BY DEF IInv, UnknownOK
      <4> QED
        BY <1>7, <2>4, <4>1, LiveKeys, LimitTypes, WithinReplace
    <3>2. /\ A \in SUBSET Key /\ A \cap (LiveUnknown \ S) = {}
          /\ Within((LiveUnknown \ S) \cup A, MaxUnknownEntries,
                    MaxUnknownEntriesPerNetgroup, MaxUnknownCandidatesPerHash)
      BY <1>7, <2>3, <3>1
    <3>3. UnknownOK' /\ Keys(m_unknown_entries') = (LiveUnknown \ S) \cup A
      BY <2>2, <3>2, UnknownStore
    <3> QED
      BY <2>3, <3>3
  <2>6. /\ paid' = [paid EXCEPT ![k] = paid[k] + 1]
    BY <1>7 DEF Pay
  <2>7. LedgerOK'
    <3>1. paid' \in [Key -> Nat]
      BY <1>3, <2>6
    <3>2. ASSUME NEW l \in Key
          PROVE  receipts'[l] + (IF l \in Keys(m_validated_entries') THEN 1 ELSE 0)
                  + (IF l \in Keys(m_unknown_entries') THEN 1 ELSE 0) <= paid'[l]
      <4>1. CASE l = k
        BY <4>1, <1>1, <1>3, <1>4, <2>5, <2>6, LiveKeys
      <4>2. CASE l # k
        BY <4>2, <1>1, <1>3, <1>4, <2>5, <2>6, LiveKeys
      <4> QED
        BY <4>1, <4>2
    <3> QED
      BY <1>1, <1>3, <1>4, <3>1, <3>2, LedgerStep
  <2> QED
    BY <1>1, <2>1, <2>5, <2>7 DEF IInv
<1> QED
  BY <1>6, <1>7 DEF Remember

(* The counts of the live entries are numbers. *)
LEMMA LiveValidatedNumbers ==
    ASSUME IInv, NEW k \in Key
    PROVE  /\ Cardinality(LiveValidated) \in Nat
           /\ NetgroupSize(k[2]) = Cardinality(OfGroup(LiveValidated, k[2]))
           /\ Cardinality(OfGroup(LiveValidated, k[2])) \in Nat
           /\ ValidatedCandidatesForHash(k[1])
                = Cardinality(OfHash(LiveValidated, k[1]))
           /\ Cardinality(OfHash(LiveValidated, k[1])) \in Nat
<1>1. TypeOK /\ CountsExact /\ k[2] \in Group /\ k[1] \in Hash
  BY IInvMeans DEF Key
<1>2. /\ NetgroupSize(k[2]) = Cardinality(OfGroup(LiveValidated, k[2]))
      /\ ValidatedCandidatesForHash(k[1])
           = Cardinality(OfHash(LiveValidated, k[1]))
      /\ LiveValidated \in SUBSET Key
  BY <1>1, LiveCounts
<1>3. /\ OfGroup(LiveValidated, k[2]) \in SUBSET Key
      /\ OfHash(LiveValidated, k[1]) \in SUBSET Key
  BY <1>2 DEF OfGroup, OfHash
<1> QED
  BY <1>2, <1>3, KeySets

(* A known header's sidecar. *)
LEMMA RememberKnownStep ==
    ASSUME IInv, NEW k \in Key, NEW valid \in BOOLEAN, RememberKnown(k, valid)
    PROVE  IInv'
<1>1. HistoryOK'
  BY PruneHistory DEF IInv, RememberKnown
<1>2. /\ receipts \in [Key -> Nat] /\ paid \in [Key -> Nat]
      /\ \A l \in Key :
           receipts[l] + (IF l \in Keys(m_validated_entries) THEN 1 ELSE 0)
             + (IF l \in Keys(m_unknown_entries) THEN 1 ELSE 0) <= paid[l]
      /\ \A l \in Keys(m_validated_entries) : m_validated_entries[l].valid
  BY LedgerNow
<1>3. receipts' = receipts
  BY DEF RememberKnown
<1>4. CASE ~valid \/ k \in LiveValidated \/ ValidatedFull(k)
  <2>1. /\ ChangeValidated({}, {}, FALSE) /\ ChangeUnknown({}, {}, FALSE)
        /\ paid' = paid
    BY <1>4 DEF RememberKnown
  <2>2. /\ ValidatedOK'
        /\ Keys(m_validated_entries') \subseteq Keys(m_validated_entries)
        /\ \A l \in Keys(m_validated_entries') :
             m_validated_entries'[l] = m_validated_entries[l]
        /\ UnknownOK' /\ Keys(m_unknown_entries') = LiveUnknown
    BY <2>1, PruneTiers
  <2>3. LedgerOK'
    BY <1>2, <1>3, <2>1, <2>2, LiveKeys, LedgerStep
  <2> QED
    BY <1>1, <2>2, <2>3 DEF IInv
<1>5. CASE valid /\ k \notin LiveValidated /\ ~ValidatedFull(k)
  <2> DEFINE S == {}
             A == {k}
             T == {k} \cap LiveUnknown
  <2>1. S \in SUBSET Keys(m_validated_entries) /\ ChangeValidated(S, A, valid)
    BY <1>5 DEF RememberKnown
  <2>2. /\ T \in SUBSET Keys(m_unknown_entries)
        /\ ChangeUnknown(T, {}, FALSE)
    BY <1>5, LiveKeys DEF RememberKnown
  <2>3. paid' = [paid EXCEPT ![k] = paid[k] + 1]
    BY <1>5 DEF RememberKnown, Pay
  <2>4. /\ A = {k} /\ T = {k} \cap LiveUnknown
        /\ LiveValidated \ S = LiveValidated
    OBVIOUS
  <2> HIDE DEF S, A, T
  <2>5. UnknownOK' /\ Keys(m_unknown_entries') = LiveUnknown \ T
    BY <2>2, UnknownErase
  <2>6. Within(LiveValidated \cup {k}, MaxEntries, MaxEntriesPerNetgroup,
               MaxValidatedCandidatesPerHash)
    <3>1. Within(Keys(m_validated_entries), MaxEntries, MaxEntriesPerNetgroup,
                 MaxValidatedCandidatesPerHash)
      BY DEF IInv, ValidatedOK
    <3>2. /\ Cardinality(LiveValidated) < MaxEntries
          /\ Cardinality(OfGroup(LiveValidated, k[2])) < MaxEntriesPerNetgroup
          /\ Cardinality(OfHash(LiveValidated, k[1]))
               < MaxValidatedCandidatesPerHash
      BY <1>5, LiveValidatedNumbers, LimitTypes DEF ValidatedFull
    <3> QED
      BY <1>5, <3>1, <3>2, LiveKeys, LimitTypes, WithinReplace
  <2>7. /\ A \in SUBSET Key /\ A \cap (LiveValidated \ S) = {}
        /\ Within((LiveValidated \ S) \cup A, MaxEntries, MaxEntriesPerNetgroup,
                  MaxValidatedCandidatesPerHash)
    BY <1>5, <2>4, <2>6
  <2>8. /\ ValidatedOK'
        /\ Keys(m_validated_entries') = (LiveValidated \ S) \cup A
        /\ \A l \in A : m_validated_entries'[l] = Fresh(valid)
        /\ \A l \in Keys(m_validated_entries') \ A :
             m_validated_entries'[l] = m_validated_entries[l]
    BY <2>1, <2>7, ValidatedStore
  <2>9. LedgerOK'
    <3>1. paid' \in [Key -> Nat] /\ receipts' \in [Key -> Nat]
      BY <1>2, <1>3, <2>3
    <3>2. ASSUME NEW l \in Key
          PROVE  receipts'[l] + (IF l \in Keys(m_validated_entries') THEN 1 ELSE 0)
                  + (IF l \in Keys(m_unknown_entries') THEN 1 ELSE 0) <= paid'[l]
      <4>1. CASE l = k
        <5>1. /\ l \in Keys(m_validated_entries') /\ l \notin Keys(m_unknown_entries')
              /\ paid'[l] = paid[l] + 1 /\ receipts'[l] = receipts[l]
          BY <4>1, <1>2, <1>3, <2>3, <2>4, <2>5, <2>8
        <5>2. receipts[l] \in Nat /\ paid[l] \in Nat /\ receipts[l] <= paid[l]
          BY <1>2
        <5> QED
          BY <5>1, <5>2
      <4>2. CASE l # k
        <5>1. /\ l \in Keys(m_validated_entries') => l \in Keys(m_validated_entries)
              /\ l \in Keys(m_unknown_entries') => l \in Keys(m_unknown_entries)
              /\ paid'[l] = paid[l] /\ receipts'[l] = receipts[l]
          BY <4>2, <1>2, <1>3, <2>3, <2>4, <2>5, <2>8, LiveKeys
        <5> QED
          BY <5>1, <1>2
      <4> QED
        BY <4>1, <4>2
    <3>3. ASSUME NEW l \in Keys(m_validated_entries')
          PROVE  m_validated_entries'[l].valid
      <4>1. CASE l = k
        BY <4>1, <1>5, <2>4, <2>8 DEF Fresh
      <4>2. CASE l # k
        BY <4>2, <1>2, <2>4, <2>8, LiveKeys
      <4> QED
        BY <4>1, <4>2
    <3> QED
      BY <3>1, <3>2, <3>3, LedgerStep
  <2> QED
    BY <1>1, <2>5, <2>8, <2>9 DEF IInv
<1> QED
  BY <1>4, <1>5

(* Taking a ticket. *)
LEMMA ConsumeStep ==
    ASSUME IInv, NEW k \in Key, Consume(k)
    PROVE  IInv'
<1>1. HistoryOK'
  BY PruneHistory DEF IInv, Consume
<1>2. /\ receipts \in [Key -> Nat] /\ paid \in [Key -> Nat]
      /\ \A l \in Key :
           receipts[l] + (IF l \in Keys(m_validated_entries) THEN 1 ELSE 0)
             + (IF l \in Keys(m_unknown_entries) THEN 1 ELSE 0) <= paid[l]
      /\ \A l \in Keys(m_validated_entries) : m_validated_entries[l].valid
  BY LedgerNow
<1>3. paid' = paid
  BY DEF Consume
<1>4. ASSUME NEW S \in SUBSET Keys(m_validated_entries),
             NEW T \in SUBSET Keys(m_unknown_entries),
             ChangeValidated(S, {}, FALSE), ChangeUnknown(T, {}, FALSE),
             \/ receipts' = receipts
             \/ /\ receipts' = [receipts EXCEPT ![k] = receipts[k] + 1]
                /\ k \in S \cup T
      PROVE  IInv'
  <2>1. /\ ValidatedOK'
        /\ Keys(m_validated_entries') = LiveValidated \ S
        /\ \A l \in Keys(m_validated_entries') :
             m_validated_entries'[l] = m_validated_entries[l]
    BY <1>4, ValidatedErase
  <2>2. UnknownOK' /\ Keys(m_unknown_entries') = LiveUnknown \ T
    BY <1>4, UnknownErase
  <2>3. receipts' \in [Key -> Nat]
    BY <1>2, <1>4
  <2>4. ASSUME NEW l \in Key
        PROVE  receipts'[l] + (IF l \in Keys(m_validated_entries') THEN 1 ELSE 0)
                + (IF l \in Keys(m_unknown_entries') THEN 1 ELSE 0) <= paid'[l]
    <3>1. /\ l \in Keys(m_validated_entries') => l \in Keys(m_validated_entries)
          /\ l \in Keys(m_unknown_entries') => l \in Keys(m_unknown_entries)
      BY <2>1, <2>2, LiveKeys
    <3>2. CASE receipts'[l] = receipts[l]
      BY <3>1, <3>2, <1>2, <1>3
    <3>3. CASE receipts'[l] = receipts[l] + 1 /\ l \in S \cup T
      <4>1. /\ l \in S => l \in Keys(m_validated_entries)
                           /\ l \notin Keys(m_validated_entries')
            /\ l \in T => l \in Keys(m_unknown_entries)
                           /\ l \notin Keys(m_unknown_entries')
        BY <2>1, <2>2
      <4> QED
        BY <3>1, <3>3, <4>1, <1>2, <1>3
    <3> QED
      BY <1>2, <1>4, <3>2, <3>3
  <2>5. LedgerOK'
    BY <1>2, <1>3, <2>1, <2>3, <2>4, LiveKeys, LedgerStep
  <2> QED
    BY <1>1, <2>1, <2>2, <2>5 DEF IInv
<1>5. CASE k \in LiveValidated
  BY <1>4, <1>5, LiveKeys DEF Consume
<1>6. CASE k \notin LiveValidated
  <2>1. {k} \cap LiveUnknown \in SUBSET Keys(m_unknown_entries)
    BY LiveKeys
  <2> QED
    BY <1>4, <1>6, <2>1 DEF Consume
<1> QED
  BY <1>5, <1>6
-----------------------------------------------------------------------------
(* The rollback.                                                           *)

(* A loop that erases its excess leaves room for one. *)
LEMMA RoomAfterExcess ==
    ASSUME NEW S \in SUBSET Key, NEW V \in SUBSET S, NEW limit \in Nat \ {0},
           Cardinality(V) = Excess(Cardinality(S), limit)
    PROVE  Cardinality(S \ V) < limit
<1>1. V \in SUBSET Key /\ Cardinality(S) \in Nat /\ Cardinality(V) \in Nat
  BY KeySets
<1>2. Cardinality(S \ V) = Less(Cardinality(S), Cardinality(V))
  BY CountErase
<1> QED
  BY <1>1, <1>2 DEF Less, Excess

(* What the three loops erase: the excess of the hash, then of the netgroup, *)
(* then of the whole tier.                                                 *)
Loops(k, V1, V2, V3) ==
    /\ V1 \in SUBSET OfHash(LiveValidated, k[1])
    /\ V2 \in SUBSET OfGroup(LiveValidated \ V1, k[2])
    /\ V3 \in SUBSET (LiveValidated \ (V1 \cup V2))
    /\ Cardinality(V1) = Excess(Cardinality(OfHash(LiveValidated, k[1])),
                                MaxValidatedCandidatesPerHash)
    /\ Cardinality(V2) = Excess(Cardinality(OfGroup(LiveValidated \ V1, k[2])),
                                MaxEntriesPerNetgroup)
    /\ Cardinality(V3) = Excess(Cardinality(LiveValidated \ (V1 \cup V2)),
                                MaxEntries)

(* Evictions(k) holds nothing but what the three loops erase. *)
LEMMA EvictionParts ==
    ASSUME IInv, NEW k \in Key, NEW V \in Evictions(k)
    PROVE  \E V1, V2, V3 : V = V1 \cup V2 \cup V3 /\ Loops(k, V1, V2, V3)
<1> DEFINE byHash == Oldest(OfHash(LiveValidated, k[1]),
                            Excess(ValidatedCandidatesForHash(k[1]),
                                   MaxValidatedCandidatesPerHash))
           byGroup(W) == Oldest(OfGroup(LiveValidated \ W, k[2]),
                                Excess(Less(NetgroupSize(k[2]),
                                            Cardinality(OfGroup(W, k[2]))),
                                       MaxEntriesPerNetgroup))
           byAge(W) == Oldest(LiveValidated \ W,
                              Excess(Cardinality(LiveValidated \ W), MaxEntries))
<1>1. Evictions(k)
        = UNION {UNION {{V1 \cup V2 \cup V3 : V3 \in byAge(V1 \cup V2)} :
                            V2 \in byGroup(V1)} : V1 \in byHash}
  BY DEF Evictions
<1> HIDE DEF byHash, byGroup, byAge
<1>2. PICK V1 \in byHash :
        V \in UNION {{V1 \cup V2 \cup V3 : V3 \in byAge(V1 \cup V2)} :
                        V2 \in byGroup(V1)}
  BY <1>1
<1>3. PICK V2 \in byGroup(V1) : \E V3 \in byAge(V1 \cup V2) : V = V1 \cup V2 \cup V3
  BY <1>2
<1>4. PICK V3 \in byAge(V1 \cup V2) : V = V1 \cup V2 \cup V3
  BY <1>3
<1>5. /\ ValidatedCandidatesForHash(k[1]) = Cardinality(OfHash(LiveValidated, k[1]))
      /\ NetgroupSize(k[2]) = Cardinality(OfGroup(LiveValidated, k[2]))
  BY LiveValidatedNumbers
<1>6. /\ V1 \in SUBSET OfHash(LiveValidated, k[1])
      /\ Cardinality(V1)
           = Excess(Cardinality(OfHash(LiveValidated, k[1])),
                    MaxValidatedCandidatesPerHash)
  BY <1>2, <1>5 DEF byHash, Oldest
<1>7. Less(Cardinality(OfGroup(LiveValidated, k[2])), Cardinality(OfGroup(V1, k[2])))
        = Cardinality(OfGroup(LiveValidated \ V1, k[2]))
  <2>1. /\ OfGroup(LiveValidated, k[2]) \in SUBSET Key
        /\ OfGroup(V1, k[2]) \in SUBSET OfGroup(LiveValidated, k[2])
        /\ OfGroup(LiveValidated \ V1, k[2])
             = OfGroup(LiveValidated, k[2]) \ OfGroup(V1, k[2])
    BY <1>6, LiveKeys DEF OfGroup, OfHash
  <2> QED
    BY <2>1, CountErase
<1>8. /\ V2 \in SUBSET OfGroup(LiveValidated \ V1, k[2])
      /\ Cardinality(V2)
           = Excess(Cardinality(OfGroup(LiveValidated \ V1, k[2])),
                    MaxEntriesPerNetgroup)
  BY <1>3, <1>5, <1>7 DEF byGroup, Oldest
<1>9. /\ V3 \in SUBSET (LiveValidated \ (V1 \cup V2))
      /\ Cardinality(V3)
           = Excess(Cardinality(LiveValidated \ (V1 \cup V2)), MaxEntries)
  BY <1>4 DEF byAge, Oldest
<1> QED
  BY <1>4, <1>6, <1>8, <1>9 DEF Loops

(* The evictions make room for the ticket in each of the three counts. *)
LEMMA EvictionRoom ==
    ASSUME IInv, NEW k \in Key, NEW V \in Evictions(k)
    PROVE  /\ V \in SUBSET LiveValidated
           /\ Cardinality(LiveValidated \ V) < MaxEntries
           /\ Cardinality(OfGroup(LiveValidated \ V, k[2])) < MaxEntriesPerNetgroup
           /\ Cardinality(OfHash(LiveValidated \ V, k[1]))
                < MaxValidatedCandidatesPerHash
<1>1. PICK V1, V2, V3 : V = V1 \cup V2 \cup V3 /\ Loops(k, V1, V2, V3)
  BY EvictionParts
<1>2. /\ V = V1 \cup V2 \cup V3
      /\ V1 \in SUBSET OfHash(LiveValidated, k[1])
      /\ V2 \in SUBSET OfGroup(LiveValidated \ V1, k[2])
      /\ V3 \in SUBSET (LiveValidated \ (V1 \cup V2))
  BY <1>1 DEF Loops
<1>3. V \in SUBSET LiveValidated
  BY <1>2 DEF OfHash, OfGroup
<1>4. LiveValidated \in SUBSET Key
  BY LiveKeys
<1>5. Cardinality(LiveValidated \ V) < MaxEntries
  <2> DEFINE S == LiveValidated \ (V1 \cup V2)
  <2>1. S \in SUBSET Key /\ LiveValidated \ V = S \ V3 /\ V3 \in SUBSET S
    BY <1>2, <1>4
  <2>2. Cardinality(V3) = Excess(Cardinality(S), MaxEntries)
    BY <1>1 DEF Loops
  <2> HIDE DEF S
  <2> QED
    BY <2>1, <2>2, RoomAfterExcess, LimitTypes
<1>6. Cardinality(OfGroup(LiveValidated \ V, k[2])) < MaxEntriesPerNetgroup
  <2> DEFINE S == OfGroup(LiveValidated \ V1, k[2])
             R == OfGroup(LiveValidated \ V, k[2])
  <2>1. /\ S \in SUBSET Key /\ S \ V2 \in SUBSET Key /\ V2 \in SUBSET S
        /\ R \in SUBSET (S \ V2) /\ R \in SUBSET Key
    BY <1>2, <1>4 DEF OfGroup
  <2>2. Cardinality(V2) = Excess(Cardinality(S), MaxEntriesPerNetgroup)
    BY <1>1 DEF Loops
  <2> HIDE DEF S, R
  <2>3. Cardinality(S \ V2) < MaxEntriesPerNetgroup
    BY <2>1, <2>2, RoomAfterExcess, LimitTypes
  <2>4. /\ Cardinality(R) <= Cardinality(S \ V2)
        /\ Cardinality(R) \in Nat /\ Cardinality(S \ V2) \in Nat
    BY <2>1, KeySets
  <2> QED
    BY <2>3, <2>4, LimitTypes DEF R
<1>7. Cardinality(OfHash(LiveValidated \ V, k[1])) < MaxValidatedCandidatesPerHash
  <2> DEFINE S == OfHash(LiveValidated, k[1])
             R == OfHash(LiveValidated \ V, k[1])
  <2>1. /\ S \in SUBSET Key /\ S \ V1 \in SUBSET Key /\ V1 \in SUBSET S
        /\ R \in SUBSET (S \ V1) /\ R \in SUBSET Key
    BY <1>2, <1>4 DEF OfHash
  <2>2. Cardinality(V1) = Excess(Cardinality(S), MaxValidatedCandidatesPerHash)
    BY <1>1 DEF Loops
  <2> HIDE DEF S, R
  <2>3. Cardinality(S \ V1) < MaxValidatedCandidatesPerHash
    BY <2>1, <2>2, RoomAfterExcess, LimitTypes
  <2>4. /\ Cardinality(R) <= Cardinality(S \ V1)
        /\ Cardinality(R) \in Nat /\ Cardinality(S \ V1) \in Nat
    BY <2>1, KeySets
  <2> QED
    BY <2>3, <2>4, LimitTypes DEF R
<1> QED
  BY <1>3, <1>5, <1>6, <1>7

(* Handing a ticket back. *)
LEMMA RestoreConsumedStep ==
    ASSUME IInv, NEW k \in Key, RestoreConsumed(k)
    PROVE  IInv'
<1>1. HistoryOK'
  BY PruneHistory DEF IInv, RestoreConsumed
<1>2. /\ receipts \in [Key -> Nat] /\ paid \in [Key -> Nat]
      /\ \A l \in Key :
           receipts[l] + (IF l \in Keys(m_validated_entries) THEN 1 ELSE 0)
             + (IF l \in Keys(m_unknown_entries) THEN 1 ELSE 0) <= paid[l]
      /\ \A l \in Keys(m_validated_entries) : m_validated_entries[l].valid
  BY LedgerNow
<1>3. /\ paid' = paid /\ receipts[k] > 0
      /\ receipts' = [receipts EXCEPT ![k] = receipts[k] - 1]
      /\ ChangeUnknown({}, {}, FALSE)
  BY DEF RestoreConsumed
<1>4. UnknownOK' /\ Keys(m_unknown_entries') = LiveUnknown
  BY <1>3, PruneTiers
<1>5. receipts' \in [Key -> Nat]
  BY <1>2, <1>3
<1>6. CASE k \in LiveValidated
  <2>1. /\ ValidatedOK'
        /\ Keys(m_validated_entries') \subseteq Keys(m_validated_entries)
        /\ \A l \in Keys(m_validated_entries') :
             m_validated_entries'[l] = m_validated_entries[l]
    BY <1>6, PruneTiers DEF RestoreConsumed
  <2>2. ASSUME NEW l \in Key
        PROVE  receipts'[l] + (IF l \in Keys(m_validated_entries') THEN 1 ELSE 0)
                + (IF l \in Keys(m_unknown_entries') THEN 1 ELSE 0) <= paid'[l]
    <3>1. /\ receipts'[l] <= receipts[l] /\ receipts'[l] \in Nat
          /\ receipts[l] \in Nat /\ paid[l] \in Nat
      BY <1>2, <1>3, <1>5
    <3>2. l \in Keys(m_unknown_entries') => l \in Keys(m_unknown_entries)
      BY <1>4, LiveKeys
    <3> QED
      BY <1>2, <1>3, <2>1, <3>1, <3>2
  <2>3. LedgerOK'
    BY <1>2, <1>3, <1>5, <2>1, <2>2, LiveKeys, LedgerStep
  <2> QED
    BY <1>1, <1>4, <2>1, <2>3 DEF IInv
<1>7. CASE k \notin LiveValidated
  <2>1. PICK V \in Evictions(k) : ChangeValidated(V, {k}, TRUE)
    BY <1>7 DEF RestoreConsumed
  <2>2. /\ V \in SUBSET LiveValidated
        /\ Cardinality(LiveValidated \ V) < MaxEntries
        /\ Cardinality(OfGroup(LiveValidated \ V, k[2])) < MaxEntriesPerNetgroup
        /\ Cardinality(OfHash(LiveValidated \ V, k[1]))
             < MaxValidatedCandidatesPerHash
    BY EvictionRoom
  <2> DEFINE A == {k}
  <2>3. ChangeValidated(V, A, TRUE)
    BY <2>1
  <2>4. A = {k}
    OBVIOUS
  <2> HIDE DEF A
  <2>5. Within((LiveValidated \ V) \cup {k}, MaxEntries, MaxEntriesPerNetgroup,
               MaxValidatedCandidatesPerHash)
    <3>1. Within(Keys(m_validated_entries), MaxEntries, MaxEntriesPerNetgroup,
                 MaxValidatedCandidatesPerHash)
      BY DEF IInv, ValidatedOK
    <3>2. /\ LiveValidated \ V \in SUBSET Keys(m_validated_entries)
          /\ k \notin LiveValidated \ V
          /\ Keys(m_validated_entries) \in SUBSET Key
      BY <1>7, LiveKeys
    <3> QED
      BY <2>2, <3>1, <3>2, LimitTypes, WithinReplace
  <2>6. /\ A \in SUBSET Key /\ A \cap (LiveValidated \ V) = {}
        /\ Within((LiveValidated \ V) \cup A, MaxEntries, MaxEntriesPerNetgroup,
                  MaxValidatedCandidatesPerHash)
        /\ V \in SUBSET Keys(m_validated_entries)
    BY <1>7, <2>2, <2>4, <2>5, LiveKeys
  <2>7. /\ ValidatedOK'
        /\ Keys(m_validated_entries') = (LiveValidated \ V) \cup A
        /\ \A l \in A : m_validated_entries'[l] = Fresh(TRUE)
        /\ \A l \in Keys(m_validated_entries') \ A :
             m_validated_entries'[l] = m_validated_entries[l]
    BY <2>3, <2>6, ValidatedStore
  <2>8. ASSUME NEW l \in Key
        PROVE  receipts'[l] + (IF l \in Keys(m_validated_entries') THEN 1 ELSE 0)
                + (IF l \in Keys(m_unknown_entries') THEN 1 ELSE 0) <= paid'[l]
    <3>1. l \in Keys(m_unknown_entries') => l \in Keys(m_unknown_entries)
      BY <1>4, LiveKeys
    <3>2. receipts[l] \in Nat /\ paid[l] \in Nat
      BY <1>2
    <3>3. CASE l = k
      <4>1. receipts'[l] = receipts[l] - 1
        BY <3>3, <1>2, <1>3
      <4> QED
        BY <3>1, <3>2, <4>1, <1>2, <1>3
    <3>4. CASE l # k
      <4>1. /\ receipts'[l] = receipts[l]
            /\ l \in Keys(m_validated_entries') => l \in Keys(m_validated_entries)
        BY <3>4, <1>2, <1>3, <2>4, <2>7, LiveKeys
      <4> QED
        BY <3>1, <3>2, <4>1, <1>2, <1>3
    <3> QED
      BY <3>3, <3>4
  <2>9. ASSUME NEW l \in Keys(m_validated_entries')
        PROVE  m_validated_entries'[l].valid
    <3>1. CASE l = k
      BY <3>1, <2>4, <2>7 DEF Fresh
    <3>2. CASE l # k
      BY <3>2, <1>2, <2>4, <2>7, LiveKeys
    <3> QED
      BY <3>1, <3>2
  <2>10. LedgerOK'
    BY <1>2, <1>3, <1>5, <2>8, <2>9, LedgerStep
  <2> QED
    BY <1>1, <1>4, <2>7, <2>10 DEF IInv
<1> QED
  BY <1>6, <1>7
-----------------------------------------------------------------------------
(* The remaining steps.                                                    *)

(* Starting the paid attempt. *)
LEMMA CommitStep ==
    ASSUME IInv, NEW k \in Key, Commit(k)
    PROVE  IInv'
<1>1. /\ m_validated_entries' = m_validated_entries
      /\ m_unknown_entries' = m_unknown_entries
      /\ UNCHANGED <<validated, unknown, m_unknown_submission_history>>
      /\ receipts[k] > 0
      /\ receipts' = [receipts EXCEPT ![k] = receipts[k] - 1]
      /\ paid' = [paid EXCEPT ![k] = paid[k] - 1]
  BY DEF Commit, validated, unknown
<1>2. /\ receipts \in [Key -> Nat] /\ paid \in [Key -> Nat]
      /\ \A l \in Key :
           receipts[l] + (IF l \in Keys(m_validated_entries) THEN 1 ELSE 0)
             + (IF l \in Keys(m_unknown_entries) THEN 1 ELSE 0) <= paid[l]
      /\ \A l \in Keys(m_validated_entries) : m_validated_entries[l].valid
  BY LedgerNow
<1>3. receipts[k] <= paid[k] /\ receipts[k] \in Nat /\ paid[k] \in Nat
  BY <1>2
<1>4. receipts' \in [Key -> Nat] /\ paid' \in [Key -> Nat]
  BY <1>1, <1>2, <1>3
<1>5. ASSUME NEW l \in Key
      PROVE  receipts'[l] + (IF l \in Keys(m_validated_entries') THEN 1 ELSE 0)
              + (IF l \in Keys(m_unknown_entries') THEN 1 ELSE 0) <= paid'[l]
  <2>1. receipts[l] \in Nat /\ paid[l] \in Nat
    BY <1>2
  <2>2. CASE l = k
    <3>1. receipts'[l] = receipts[l] - 1 /\ paid'[l] = paid[l] - 1
      BY <2>2, <1>1, <1>2
    <3> QED
      BY <2>1, <3>1, <1>1, <1>2
  <2>3. CASE l # k
    <3>1. receipts'[l] = receipts[l] /\ paid'[l] = paid[l]
      BY <2>3, <1>1, <1>2
    <3> QED
      BY <3>1, <1>1, <1>2
  <2> QED
    BY <2>2, <2>3
<1>6. LedgerOK'
  BY <1>1, <1>2, <1>4, <1>5, LedgerStep
<1>7. ValidatedOK' /\ UnknownOK' /\ HistoryOK'
  BY <1>1 DEF IInv, ValidatedOK, UnknownOK, HistoryOK, validated, unknown
<1> QED
  BY <1>6, <1>7 DEF IInv

(* A tier without the keys in gone, with exact counts. *)
LEMMA TierWithout ==
    ASSUME NEW e \in Tier, NEW gc, NEW hc, Exact(Keys(e), gc, hc),
           NEW gone \in SUBSET Keys(e)
    PROVE  /\ Without(e, gone) \in Tier
           /\ Keys(Without(e, gone)) = Keys(e) \ gone
           /\ \A k \in Keys(Without(e, gone)) : Without(e, gone)[k] = e[k]
           /\ Exact(Keys(e) \ gone, GroupCountsWithout(gc, gone),
                    HashCountsWithout(hc, gone))
<1>1. /\ Without(e, gone) \in Tier
      /\ Keys(Without(e, gone)) = Keys(e) \ gone
      /\ \A k \in Keys(Without(e, gone)) : Without(e, gone)[k] = e[k]
  BY DEF Without, Tier, Keys
<1>2. ASSUME NEW g \in Group
      PROVE  /\ GroupCountsWithout(gc, gone)[g]
                  = Cardinality(OfGroup(Keys(e) \ gone, g))
             /\ GroupCountsWithout(gc, gone)[g] \in Nat
  <2>1. /\ OfGroup(Keys(e), g) \in SUBSET Key
        /\ OfGroup(gone, g) \in SUBSET OfGroup(Keys(e), g)
        /\ OfGroup(Keys(e) \ gone, g) = OfGroup(Keys(e), g) \ OfGroup(gone, g)
        /\ OfGroup(Keys(e) \ gone, g) \in SUBSET Key
    BY DEF OfGroup, Keys
  <2>2. Cardinality(OfGroup(Keys(e), g) \ OfGroup(gone, g))
          = Less(Cardinality(OfGroup(Keys(e), g)), Cardinality(OfGroup(gone, g)))
    BY <2>1, CountErase
  <2>3. GroupCountsWithout(gc, gone)[g]
          = Less(Cardinality(OfGroup(Keys(e), g)), Cardinality(OfGroup(gone, g)))
    BY DEF GroupCountsWithout, Exact
  <2>4. Cardinality(OfGroup(Keys(e) \ gone, g)) \in Nat
    BY <2>1, KeySets
  <2> QED
    BY <2>1, <2>2, <2>3, <2>4
<1>3. ASSUME NEW h \in Hash
      PROVE  /\ HashCountsWithout(hc, gone)[h]
                  = Cardinality(OfHash(Keys(e) \ gone, h))
             /\ HashCountsWithout(hc, gone)[h] \in Nat
  <2>1. /\ OfHash(Keys(e), h) \in SUBSET Key
        /\ OfHash(gone, h) \in SUBSET OfHash(Keys(e), h)
        /\ OfHash(Keys(e) \ gone, h) = OfHash(Keys(e), h) \ OfHash(gone, h)
        /\ OfHash(Keys(e) \ gone, h) \in SUBSET Key
    BY DEF OfHash, Keys
  <2>2. Cardinality(OfHash(Keys(e), h) \ OfHash(gone, h))
          = Less(Cardinality(OfHash(Keys(e), h)), Cardinality(OfHash(gone, h)))
    BY <2>1, CountErase
  <2>3. HashCountsWithout(hc, gone)[h]
          = Less(Cardinality(OfHash(Keys(e), h)), Cardinality(OfHash(gone, h)))
    BY DEF HashCountsWithout, Exact
  <2>4. Cardinality(OfHash(Keys(e) \ gone, h)) \in Nat
    BY <2>1, KeySets
  <2> QED
    BY <2>1, <2>2, <2>3, <2>4
<1>4. /\ GroupCountsWithout(gc, gone) \in [Group -> Nat]
      /\ HashCountsWithout(hc, gone) \in [Hash -> Nat]
  BY <1>2, <1>3 DEF GroupCountsWithout, HashCountsWithout
<1> QED
  BY <1>1, <1>2, <1>3, <1>4 DEF Exact

(* Erasing every ticket of a block. *)
LEMMA EraseStep ==
    ASSUME IInv, NEW h \in Hash, Erase(h)
    PROVE  IInv'
<1> DEFINE hv == OfHash(Keys(m_validated_entries), h)
           hu == OfHash(Keys(m_unknown_entries), h)
<1>1. /\ m_validated_entries' = Without(m_validated_entries, hv)
      /\ m_validated_netgroup_counts'
           = GroupCountsWithout(m_validated_netgroup_counts, hv)
      /\ m_validated_hash_counts'
           = HashCountsWithout(m_validated_hash_counts, hv)
      /\ m_unknown_entries' = Without(m_unknown_entries, hu)
      /\ m_unknown_netgroup_counts'
           = GroupCountsWithout(m_unknown_netgroup_counts, hu)
      /\ m_unknown_hash_counts' = HashCountsWithout(m_unknown_hash_counts, hu)
      /\ m_unknown_submission_history' = m_unknown_submission_history
      /\ receipts' = receipts /\ paid' = paid
  BY DEF Erase, callers
<1>2. /\ hv \in SUBSET Keys(m_validated_entries)
      /\ hu \in SUBSET Keys(m_unknown_entries)
  BY DEF OfHash
<1>3. ValidatedOK /\ UnknownOK /\ HistoryOK
  BY DEF IInv
<1>4. /\ m_validated_entries' \in Tier
      /\ Keys(m_validated_entries') = Keys(m_validated_entries) \ hv
      /\ \A k \in Keys(m_validated_entries') :
           m_validated_entries'[k] = m_validated_entries[k]
      /\ Exact(Keys(m_validated_entries) \ hv, m_validated_netgroup_counts',
               m_validated_hash_counts')
  <2> HIDE DEF hv
  <2> QED
    BY <1>1, <1>2, <1>3, TierWithout DEF ValidatedOK
<1>5. /\ m_unknown_entries' \in Tier
      /\ Keys(m_unknown_entries') = Keys(m_unknown_entries) \ hu
      /\ Exact(Keys(m_unknown_entries) \ hu, m_unknown_netgroup_counts',
               m_unknown_hash_counts')
  <2> HIDE DEF hu
  <2> QED
    BY <1>1, <1>2, <1>3, TierWithout DEF UnknownOK
<1> HIDE DEF hv, hu
<1>6. Within(Keys(m_validated_entries) \ hv, MaxEntries, MaxEntriesPerNetgroup,
             MaxValidatedCandidatesPerHash)
  <2>1. /\ MaxEntries \in Nat /\ MaxEntriesPerNetgroup \in Nat
        /\ MaxValidatedCandidatesPerHash \in Nat
        /\ Keys(m_validated_entries) \in SUBSET Key
        /\ Keys(m_validated_entries) \ hv \in SUBSET Keys(m_validated_entries)
    BY LimitTypes, LiveKeys
  <2>2. Within(Keys(m_validated_entries), MaxEntries, MaxEntriesPerNetgroup,
               MaxValidatedCandidatesPerHash)
    BY <1>3 DEF ValidatedOK
  <2> QED
    BY <2>1, <2>2, WithinSubset, Zenon
<1>7. Within(Keys(m_unknown_entries) \ hu, MaxUnknownEntries,
             MaxUnknownEntriesPerNetgroup, MaxUnknownCandidatesPerHash)
  <2>1. /\ MaxUnknownEntries \in Nat /\ MaxUnknownEntriesPerNetgroup \in Nat
        /\ MaxUnknownCandidatesPerHash \in Nat
        /\ Keys(m_unknown_entries) \in SUBSET Key
        /\ Keys(m_unknown_entries) \ hu \in SUBSET Keys(m_unknown_entries)
    BY LimitTypes, LiveKeys
  <2>2. Within(Keys(m_unknown_entries), MaxUnknownEntries,
               MaxUnknownEntriesPerNetgroup, MaxUnknownCandidatesPerHash)
    BY <1>3 DEF UnknownOK
  <2> QED
    BY <2>1, <2>2, WithinSubset, Zenon
<1>8. ValidatedOK' /\ UnknownOK'
  BY <1>4, <1>5, <1>6, <1>7 DEF ValidatedOK, UnknownOK
<1>9. LedgerOK'
  BY <1>1, <1>4, <1>5, LedgerNow, LedgerStep
<1>10. HistoryOK'
  BY <1>1, <1>3 DEF HistoryOK
<1> QED
  BY <1>8, <1>9, <1>10 DEF IInv

(* Time passing. *)
LEMMA TickStep ==
    ASSUME IInv, Tick
    PROVE  IInv'
<1>1. Ttl \in Nat /\ UnknownSubmissionWindow \in Nat
  BY AdmissionAssumption
<1> DEFINE Aged(e) == [k \in Key |-> IF e[k] = NoEntry THEN NoEntry
                            ELSE [e[k] EXCEPT !.age = Older(@, Ttl)]]
<1>2. ASSUME NEW e \in Tier
      PROVE  /\ Aged(e) \in Tier
             /\ Keys(Aged(e)) = Keys(e)
             /\ \A k \in Keys(e) : Aged(e)[k].valid = e[k].valid
  <2>1. ASSUME NEW k \in Key, e[k] # NoEntry
        PROVE  /\ Aged(e)[k] \in [valid : BOOLEAN, age : 0..(Ttl + 1)]
               /\ Aged(e)[k].valid = e[k].valid
               /\ Aged(e)[k] # NoEntry
    <3>1. e[k] \in [valid : BOOLEAN, age : 0..(Ttl + 1)]
      BY <2>1 DEF Tier
    <3>2. Older(e[k].age, Ttl) \in 0..(Ttl + 1)
      BY <1>1, <3>1 DEF Older
    <3>3. Aged(e)[k] = [e[k] EXCEPT !.age = Older(e[k].age, Ttl)]
      BY <2>1
    <3> HIDE DEF Aged
    <3>4. /\ Aged(e)[k] \in [valid : BOOLEAN, age : 0..(Ttl + 1)]
          /\ Aged(e)[k].valid = e[k].valid
      BY <3>1, <3>2, <3>3
    <3> QED
      BY <3>4, <1>1 DEF NoEntry
  <2>2. \A k \in Key : e[k] = NoEntry => Aged(e)[k] = NoEntry
    OBVIOUS
  <2>3. DOMAIN Aged(e) = Key /\ Aged(e) = [k \in Key |-> Aged(e)[k]]
    OBVIOUS
  <2> HIDE DEF Aged
  <2> QED
    BY <2>1, <2>2, <2>3 DEF Tier, Keys
<1>3. /\ m_validated_entries' = Aged(m_validated_entries)
      /\ m_unknown_entries' = Aged(m_unknown_entries)
      /\ m_validated_netgroup_counts' = m_validated_netgroup_counts
      /\ m_validated_hash_counts' = m_validated_hash_counts
      /\ m_unknown_netgroup_counts' = m_unknown_netgroup_counts
      /\ m_unknown_hash_counts' = m_unknown_hash_counts
      /\ receipts' = receipts /\ paid' = paid
  BY DEF Tick, callers
<1> HIDE DEF Aged
<1>4. ValidatedOK /\ UnknownOK /\ HistoryOK
  BY DEF IInv
<1>5. /\ m_validated_entries' \in Tier
      /\ Keys(m_validated_entries') = Keys(m_validated_entries)
      /\ \A k \in Keys(m_validated_entries) :
           m_validated_entries'[k].valid = m_validated_entries[k].valid
      /\ m_unknown_entries' \in Tier
      /\ Keys(m_unknown_entries') = Keys(m_unknown_entries)
  BY <1>2, <1>3, <1>4 DEF ValidatedOK, UnknownOK
<1>6. ValidatedOK' /\ UnknownOK'
  BY <1>3, <1>4, <1>5 DEF ValidatedOK, UnknownOK
<1>7. LedgerOK'
  BY <1>3, <1>5, LedgerNow, LedgerStep
<1>8. HistoryOK'
  <2> DEFINE Age == 0..(UnknownSubmissionWindow + 1)
             H(g) == [i \in DOMAIN m_unknown_submission_history[g] |->
                        Older(m_unknown_submission_history[g][i],
                              UnknownSubmissionWindow)]
  <2>1. ASSUME NEW g \in Group
        PROVE  H(g) \in Seq(Age) /\ Len(H(g)) = Len(m_unknown_submission_history[g])
    <3> DEFINE times == m_unknown_submission_history[g]
    <3>1. times \in Seq(Age) /\ Len(times) \in Nat /\ DOMAIN times = 1..Len(times)
      BY <1>4 DEF HistoryOK
    <3>2. ASSUME NEW i \in 1..Len(times)
          PROVE  Older(times[i], UnknownSubmissionWindow) \in Age
      <4>1. times[i] \in Age
        <5> HIDE DEF times, Age
        <5> QED
          BY <3>1, <3>2, ElementOfSeq
      <4> QED
        BY <4>1, <1>1 DEF Older
    <3>3. H(g) = [i \in 1..Len(times) |-> Older(times[i], UnknownSubmissionWindow)]
      BY <3>1
    <3> HIDE DEF H, Age
    <3>4. H(g) \in [1..Len(times) -> Age]
      BY <3>2, <3>3
    <3> HIDE DEF times
    <3>5. H(g) \in Seq(Age)
      BY <3>1, <3>4, SeqDef
    <3>6. Len(H(g)) \in Nat /\ DOMAIN H(g) = 1..Len(H(g)) /\ DOMAIN H(g) = 1..Len(times)
      BY <3>4, <3>5, LenProperties
    <3> QED
      BY <3>1, <3>5, <3>6 DEF times
  <2>2. m_unknown_submission_history' = [g \in Group |-> H(g)]
    BY DEF Tick
  <2> HIDE DEF H, Age
  <2>3. m_unknown_submission_history' \in [Group -> Seq(Age)]
    BY <2>1, <2>2
  <2> QED
    BY <1>4, <2>1, <2>2, <2>3 DEF HistoryOK, Age
<1> QED
  BY <1>6, <1>7, <1>8 DEF IInv

(* The invariant is inductive. *)
LEMMA NextIInv == IInv /\ [Next]_vars => IInv'
<1> SUFFICES ASSUME IInv, [Next]_vars PROVE IInv'
  OBVIOUS
<1>1. CASE \E k \in Key, valid \in BOOLEAN : Remember(k, valid)
  BY <1>1, RememberStep
<1>2. CASE \E k \in Key, valid \in BOOLEAN : RememberKnown(k, valid)
  BY <1>2, RememberKnownStep
<1>3. CASE \E k \in Key : Consume(k)
  BY <1>3, ConsumeStep
<1>4. CASE \E k \in Key : RestoreConsumed(k)
  BY <1>4, RestoreConsumedStep
<1>5. CASE \E k \in Key : Commit(k)
  BY <1>5, CommitStep
<1>6. CASE \E h \in Hash : Erase(h)
  BY <1>6, EraseStep
<1>7. CASE Tick
  BY <1>7, TickStep
<1>8. CASE UNCHANGED vars
  <2>1. UNCHANGED <<m_validated_entries, m_unknown_entries,
                    m_validated_netgroup_counts, m_validated_hash_counts,
                    m_unknown_netgroup_counts, m_unknown_hash_counts,
                    m_unknown_submission_history, receipts, paid>>
    BY <1>8 DEF vars, validated, unknown, callers
  <2>2. ValidatedOK' /\ UnknownOK' /\ HistoryOK' /\ LedgerOK'
    BY <2>1 DEF IInv, ValidatedOK, UnknownOK, HistoryOK, LedgerOK, GrantsPaid
  <2> QED
    BY <2>2 DEF IInv
<1> QED
  BY <1>1, <1>2, <1>3, <1>4, <1>5, <1>6, <1>7, <1>8 DEF Next

(* The inductive invariant holds in every reachable state. *)
THEOREM AlwaysIInv == Spec => []IInv
  BY InitIInv, NextIInv, PTL DEF Spec

-----------------------------------------------------------------------------
(* A rollback finds its evictions.                                         *)

(* A set of entries that has n more has n + 1 oldest ones: the oldest of   *)
(* the rest joins them.                                                    *)
LEMMA OldestGrows ==
    ASSUME m_validated_entries \in Tier,
           NEW S \in SUBSET Keys(m_validated_entries),
           NEW n \in Nat, n + 1 <= Cardinality(S),
           NEW V \in Oldest(S, n)
    PROVE  \E W : W \in Oldest(S, n + 1)
<1> DEFINE Age(s) == m_validated_entries[s].age
           Youth == {Ttl + 1 - Age(s) : s \in S \ V}
<1>1. /\ S \in SUBSET Key /\ V \in SUBSET S /\ V \in SUBSET Key
      /\ Cardinality(V) = n
      /\ \A v \in V, s \in S \ V : Age(v) >= Age(s)
  BY DEF Keys, Oldest
<1>2. IsFiniteSet(V) /\ Cardinality(V) # Cardinality(S) /\ Cardinality(S) \in Nat
  BY <1>1, KeySets
<1>3. S \ V # {}
  BY <1>1, <1>2
<1>4. \A s \in S : Age(s) \in Nat /\ Age(s) <= Ttl + 1
  BY AdmissionAssumption DEF Tier, Keys
<1>5. Youth \subseteq Nat /\ Youth # {}
  BY <1>3, <1>4, AdmissionAssumption
<1>6. PICK y \in Youth : \A z \in Youth : y <= z
  <2> HIDE DEF Youth
  <2> QED
    BY <1>5, NatMinimum
<1>7. PICK s \in S \ V : y = Ttl + 1 - Age(s)
  BY <1>6
<1>8. \A t \in S \ V : Age(s) >= Age(t)
  <2> TAKE t \in S \ V
  <2>1. Ttl + 1 - Age(s) <= Ttl + 1 - Age(t)
    BY <1>6, <1>7
  <2>2. Age(s) \in Nat /\ Age(t) \in Nat /\ Ttl \in Nat
    BY <1>4, <1>7, AdmissionAssumption
  <2> HIDE DEF Age
  <2> QED
    BY <2>1, <2>2
<1> DEFINE W == V \cup {s}
<1>9. W \in SUBSET S
  BY <1>1, <1>7
<1>10. Cardinality(W) = n + 1
  BY <1>1, <1>2, <1>7, FS_AddElement
<1>11. \A v \in W, t \in S \ W : Age(v) >= Age(t)
  BY <1>1, <1>8
<1> HIDE DEF W
<1>12. W \in Oldest(S, n + 1)
  BY <1>9, <1>10, <1>11 DEF Oldest
<1> QED
  BY <1>12

(* A loop that erases no more entries than there are finds them. *)
LEMMA OldestExists ==
    ASSUME m_validated_entries \in Tier,
           NEW S \in SUBSET Keys(m_validated_entries),
           NEW n \in Nat, n <= Cardinality(S)
    PROVE  \E V : V \in Oldest(S, n)
<1> DEFINE T == {m \in Nat : m <= Cardinality(S) => \E V : V \in Oldest(S, m)}
<1>1. S \in SUBSET Key /\ Cardinality(S) \in Nat
  <2>1. S \in SUBSET Key
    BY DEF Keys
  <2> QED
    BY <2>1, KeySets
<1>2. 0 \in T
  <2>1. {} \in Oldest(S, 0)
    BY FS_EmptySet DEF Oldest
  <2> QED
    BY <2>1
<1>3. ASSUME NEW m \in Nat, m \in T
      PROVE  m + 1 \in T
  <2> SUFFICES ASSUME m + 1 <= Cardinality(S)
               PROVE  \E V : V \in Oldest(S, m + 1)
    OBVIOUS
  <2>1. m <= Cardinality(S)
    BY <1>1
  <2>2. PICK V : V \in Oldest(S, m)
    BY <1>3, <2>1
  <2> QED
    BY <2>2, OldestGrows
<1> HIDE DEF T
<1>4. n \in T
  BY <1>2, <1>3, NatClosed
<1> QED
  BY <1>4 DEF T

(* What a loop has to erase is never more than what it counts. *)
LEMMA ExcessBound ==
    ASSUME NEW count \in Nat, NEW limit \in Nat \ {0}
    PROVE  Excess(count, limit) \in Nat /\ Excess(count, limit) <= count
  BY DEF Excess

(* Each of the three loops finds what it has to erase. *)
LEMMA EvictionsExist ==
    ASSUME IInv, NEW k \in Key
    PROVE  Evictions(k) # {}
<1> DEFINE byHash == Oldest(OfHash(LiveValidated, k[1]),
                            Excess(ValidatedCandidatesForHash(k[1]),
                                   MaxValidatedCandidatesPerHash))
           byGroup(W) == Oldest(OfGroup(LiveValidated \ W, k[2]),
                                Excess(Less(NetgroupSize(k[2]),
                                            Cardinality(OfGroup(W, k[2]))),
                                       MaxEntriesPerNetgroup))
           byAge(W) == Oldest(LiveValidated \ W,
                              Excess(Cardinality(LiveValidated \ W), MaxEntries))
<1>1. Evictions(k)
        = UNION {UNION {{V1 \cup V2 \cup V3 : V3 \in byAge(V1 \cup V2)} :
                            V2 \in byGroup(V1)} : V1 \in byHash}
  BY DEF Evictions
<1>2. /\ m_validated_entries \in Tier
      /\ LiveValidated \in SUBSET Keys(m_validated_entries)
      /\ LiveValidated \in SUBSET Key
  BY LiveKeys DEF IInv, ValidatedOK, LiveValidated
<1>3. /\ ValidatedCandidatesForHash(k[1]) = Cardinality(OfHash(LiveValidated, k[1]))
      /\ NetgroupSize(k[2]) = Cardinality(OfGroup(LiveValidated, k[2]))
  BY LiveValidatedNumbers
<1>4. ASSUME NEW S \in SUBSET LiveValidated, NEW limit \in Nat \ {0}
      PROVE  \E V : V \in Oldest(S, Excess(Cardinality(S), limit))
  <2>1. S \in SUBSET Key /\ S \in SUBSET Keys(m_validated_entries)
    BY <1>2
  <2>2. Cardinality(S) \in Nat
    BY <2>1, KeySets
  <2> QED
    BY <1>2, <2>1, <2>2, ExcessBound, OldestExists
<1>5. PICK V1 : V1 \in byHash
  <2>1. OfHash(LiveValidated, k[1]) \in SUBSET LiveValidated
    BY DEF OfHash
  <2> QED
    BY <1>3, <1>4, <2>1, LimitTypes
<1>6. V1 \in SUBSET LiveValidated
  BY <1>5 DEF Oldest, OfHash
<1>7. Less(Cardinality(OfGroup(LiveValidated, k[2])), Cardinality(OfGroup(V1, k[2])))
        = Cardinality(OfGroup(LiveValidated \ V1, k[2]))
  <2>1. /\ OfGroup(LiveValidated, k[2]) \in SUBSET Key
        /\ OfGroup(V1, k[2]) \in SUBSET OfGroup(LiveValidated, k[2])
        /\ OfGroup(LiveValidated \ V1, k[2])
             = OfGroup(LiveValidated, k[2]) \ OfGroup(V1, k[2])
    BY <1>2, <1>6 DEF OfGroup
  <2> QED
    BY <2>1, CountErase
<1>8. PICK V2 : V2 \in byGroup(V1)
  <2>1. OfGroup(LiveValidated \ V1, k[2]) \in SUBSET LiveValidated
    BY DEF OfGroup
  <2> QED
    BY <1>3, <1>4, <1>7, <2>1, LimitTypes
<1>9. PICK V3 : V3 \in byAge(V1 \cup V2)
  <2>1. LiveValidated \ (V1 \cup V2) \in SUBSET LiveValidated
    OBVIOUS
  <2> QED
    BY <1>4, <2>1, LimitTypes
<1> HIDE DEF byHash, byGroup, byAge
<1>10. V1 \cup V2 \cup V3 \in Evictions(k)
  <2>1. \E V \in byAge(V1 \cup V2) : V1 \cup V2 \cup V3 = V1 \cup V2 \cup V
    BY <1>9
  <2>2. V1 \cup V2 \cup V3 \in {V1 \cup V2 \cup V : V \in byAge(V1 \cup V2)}
    BY <2>1
  <2>3. V1 \cup V2 \cup V3
          \in UNION {{V1 \cup W \cup V : V \in byAge(V1 \cup W)} :
                         W \in byGroup(V1)}
    BY <2>2, <1>8
  <2> DEFINE From(U) == UNION {{U \cup W \cup V : V \in byAge(U \cup W)} :
                                   W \in byGroup(U)}
  <2>4. Evictions(k) = UNION {From(U) : U \in byHash}
    BY <1>1
  <2>5. V1 \cup V2 \cup V3 \in From(V1)
    BY <2>3
  <2> HIDE DEF From
  <2> QED
    BY <1>5, <2>4, <2>5
<1> QED
  BY <1>10

-----------------------------------------------------------------------------
(* The state of the store always has its type. *)
THEOREM AlwaysTypeOK == Spec => []TypeOK
  BY AlwaysIInv, IInvMeans, PTL

(* The four running counts that the quotas are decided from always equal   *)
(* the number of entries they stand for, for every size of the store.      *)
THEOREM AlwaysCountsExact == Spec => []CountsExact
  BY AlwaysIInv, IInvMeans, PTL

(* Neither tier exceeds one of its bounds, in total, per netgroup or per   *)
(* hash, and no netgroup its submission rate.                              *)
THEOREM AlwaysTiersBounded == Spec => []TiersBounded
  BY AlwaysIInv, IInvMeans, PTL

(* Every ticket that can still be spent, or has been taken, is backed by a *)
(* sidecar its netgroup stored for its hash; what the validated tier holds *)
(* has passed its check.                                                   *)
THEOREM AlwaysGrantsPaid == Spec => []GrantsPaid
  BY AlwaysIInv, IInvMeans, PTL

(* A rollback always finds what it has to evict, so the callers' Assume on *)
(* the result of RestoreConsumed holds.                                    *)
THEOREM AlwaysRollbackPossible == Spec => []RollbackPossible
<1>1. IInv => RollbackPossible
  BY EvictionsExist DEF RollbackPossible
<1> QED
  BY <1>1, AlwaysIInv, PTL

-----------------------------------------------------------------------------
(* What pruning the submission history drops.                              *)

(* The times of a netgroup are in the order of their submission. *)
Ordered(times) ==
    \A i, j \in 1..Len(times) : i <= j => times[j] <= times[i]

HistoryOrdered == \A g \in Group : Ordered(m_unknown_submission_history[g])

(* The times that are too old are the first ones, as many as the prefix    *)
(* that RecentSubmissions drops.                                           *)
PruneDropsExpired ==
    \A g \in Group :
        LET times == m_unknown_submission_history[g]
        IN  Expired(times) = 1..Cardinality(Expired(times))

(* A set of positions that has every position before one of its own is an  *)
(* initial interval.                                                       *)
LEMMA InitialInterval ==
    ASSUME NEW n \in Nat, NEW D \in SUBSET (1..n),
           \A j \in D : \A i \in 1..j : i \in D
    PROVE  D = 1..Cardinality(D)
<1> DEFINE Out == {m \in Nat : m + 1 \notin D}
<1>1. Out \subseteq Nat /\ Out # {}
  <2>1. n \in Out
    OBVIOUS
  <2> QED
    BY <2>1
<1>2. PICK m \in Out : \A l \in Out : m <= l
  <2> HIDE DEF Out
  <2> QED
    BY <1>1, NatMinimum
<1>3. m \in Nat /\ m + 1 \notin D
  BY <1>2
<1>4. ASSUME NEW i \in 1..m PROVE i \in D
  <2>1. i - 1 \in Nat /\ ~(m <= i - 1) /\ i - 1 + 1 = i
    BY <1>3
  <2>2. i - 1 \notin Out
    BY <1>2, <2>1
  <2> QED
    BY <2>1, <2>2
<1>5. ASSUME NEW i \in D PROVE i \in 1..m
  <2>1. i \in 1..n /\ i \in Nat
    OBVIOUS
  <2>2. CASE i > m
    <3>1. m + 1 \in 1..i
      BY <2>1, <2>2, <1>3
    <3> QED
      BY <3>1, <1>3
  <2> QED
    BY <2>1, <2>2, <1>3
<1>6. D = 1..m
  BY <1>4, <1>5
<1>7. Cardinality(1..m) = m
  BY <1>3, FS_Interval
<1> QED
  BY <1>6, <1>7

(* In a history in order the expired times come first. *)
LEMMA ExpiredFirst ==
    ASSUME HistoryOK, HistoryOrdered
    PROVE  PruneDropsExpired
<1> SUFFICES ASSUME NEW g \in Group
             PROVE  Expired(m_unknown_submission_history[g])
                      = 1..Cardinality(Expired(m_unknown_submission_history[g]))
  BY DEF PruneDropsExpired
<1> DEFINE Age == 0..(UnknownSubmissionWindow + 1)
           times == m_unknown_submission_history[g]
<1>1. times \in Seq(Age) /\ Len(times) \in Nat /\ DOMAIN times = 1..Len(times)
  BY DEF HistoryOK
<1>2. Ordered(times)
  BY DEF HistoryOrdered
<1>3. \A i \in 1..Len(times) : times[i] \in Age
  <2> HIDE DEF times, Age
  <2> QED
    BY <1>1, ElementOfSeq
<1>4. \A i \in 1..Len(times) : times[i] \in Nat
  BY <1>3, AdmissionAssumption
<1> HIDE DEF times
<1>5. Expired(times) \in SUBSET (1..Len(times))
  BY <1>1 DEF Expired
<1>6. ASSUME NEW j \in Expired(times), NEW i \in 1..j
      PROVE  i \in Expired(times)
  <2>1. j \in 1..Len(times) /\ times[j] > UnknownSubmissionWindow
    BY <1>1 DEF Expired
  <2>2. i \in 1..Len(times) /\ i <= j
    BY <2>1, <1>1
  <2>3. times[j] <= times[i] /\ times[i] \in Nat /\ times[j] \in Nat
    BY <2>1, <2>2, <1>2, <1>4 DEF Ordered
  <2> QED
    BY <2>1, <2>2, <2>3, <1>1, AdmissionAssumption DEF Expired
<1> HIDE DEF Age
<1>7. Expired(times) = 1..Cardinality(Expired(times))
  <2> DEFINE D == Expired(times)
  <2>1. D \in SUBSET (1..Len(times)) /\ \A j \in D : \A i \in 1..j : i \in D
    BY <1>5, <1>6
  <2> HIDE DEF D
  <2>2. D = 1..Cardinality(D)
    BY <1>1, <2>1, InitialInterval
  <2> QED
    BY <2>2 DEF D
<1> QED
  BY <1>7 DEF times

(* Pruning keeps the order. *)
LEMMA RecentOrdered ==
    ASSUME HistoryOK, HistoryOrdered, NEW g \in Group
    PROVE  Ordered(RecentSubmissions[g])
<1> DEFINE Age == 0..(UnknownSubmissionWindow + 1)
           times == m_unknown_submission_history[g]
           n == Cardinality(Expired(times))
           m == n + 1
           l == Len(times)
           s == SubSeq(times, m, l)
<1>1. times \in Seq(Age) /\ Len(times) \in Nat /\ DOMAIN times = 1..Len(times)
  BY DEF HistoryOK
<1>2. IsFiniteSet(Expired(times))
  <2>1. Expired(times) \subseteq 1..Len(times)
    BY <1>1 DEF Expired
  <2>2. IsFiniteSet(1..Len(times))
    BY <1>1, FS_Interval
  <2> QED
    BY <2>1, <2>2, FS_Subset
<1>3. n \in Nat
  BY <1>2, FS_CardinalityType
<1>4. Ordered(times)
  BY DEF HistoryOrdered
<1>5. RecentSubmissions[g] = s
  BY DEF RecentSubmissions
<1> HIDE DEF n, times, Age
<1>6. \A i \in m..l : times[i] \in Age
  BY <1>1, <1>3, ElementOfSeq
<1>7. m \in Nat /\ m >= 1 /\ l \in Nat /\ m \in Int /\ l \in Int
  BY <1>1, <1>3
<1> HIDE DEF m, l
<1>8. /\ Len(s) = IF m <= l THEN l - m + 1 ELSE 0
      /\ \A i \in 1..l - m + 1 : s[i] = times[m + i - 1]
  BY <1>6, <1>7, SubSeqProperties
<1> HIDE DEF s
<1>9. ASSUME NEW i \in 1..Len(s), NEW j \in 1..Len(s), i <= j
      PROVE  s[j] <= s[i]
  <2>1. m <= l
    BY <1>7, <1>8
  <2>2. i \in 1..l - m + 1 /\ j \in 1..l - m + 1
    BY <1>8, <2>1
  <2>3. s[i] = times[m + i - 1] /\ s[j] = times[m + j - 1]
    BY <1>8, <2>2
  <2>4. /\ m + i - 1 \in 1..l /\ m + j - 1 \in 1..l
        /\ m + i - 1 <= m + j - 1
    BY <1>7, <1>9, <2>2
  <2> QED
    BY <1>4, <2>3, <2>4 DEF Ordered, l
<1> QED
  BY <1>5, <1>9 DEF Ordered

(* A new submission is the youngest. *)
LEMMA ChargeOrdered ==
    ASSUME HistoryOK, HistoryOrdered, NEW g \in Group, ChargeSubmission(g)
    PROVE  HistoryOrdered'
<1> DEFINE Age == 0..(UnknownSubmissionWindow + 1)
           s == RecentSubmissions[g]
<1>1. RecentSubmissions \in [Group -> Seq(Age)]
  BY RecentSubmissionsType
<1>2. m_unknown_submission_history'
        = [RecentSubmissions EXCEPT ![g] = Append(RecentSubmissions[g], 0)]
  BY DEF ChargeSubmission
<1>3. s \in Seq(Age) /\ Len(s) \in Nat
  BY <1>1
<1>4. \A i \in 1..Len(s) : s[i] \in Age
  <2> HIDE DEF s, Age
  <2> QED
    BY <1>3, ElementOfSeq
<1>5. \A i \in 1..Len(s) : s[i] \in Nat
  BY <1>4, AdmissionAssumption
<1>6. /\ Len(Append(s, 0)) = Len(s) + 1
      /\ \A i \in 1..Len(s) : Append(s, 0)[i] = s[i]
      /\ Append(s, 0)[Len(s) + 1] = 0
  <2> HIDE DEF s, Age
  <2> QED
    BY <1>3
<1>7. Ordered(s)
  BY RecentOrdered
<1> HIDE DEF s
<1>8. Ordered(Append(s, 0))
  <2> SUFFICES ASSUME NEW i \in 1..(Len(s) + 1), NEW j \in 1..(Len(s) + 1), i <= j
               PROVE  Append(s, 0)[j] <= Append(s, 0)[i]
    BY <1>6 DEF Ordered
  <2>1. CASE j = Len(s) + 1
    <3>1. CASE i = Len(s) + 1
      BY <2>1, <3>1, <1>6
    <3>2. CASE i \in 1..Len(s)
      BY <2>1, <3>2, <1>5, <1>6
    <3> QED
      BY <3>1, <3>2, <1>3
  <2>2. CASE j \in 1..Len(s)
    <3>1. i \in 1..Len(s)
      BY <2>2, <1>3
    <3> QED
      BY <2>2, <3>1, <1>6, <1>7 DEF Ordered
  <2> QED
    BY <2>1, <2>2, <1>3
<1>9. ASSUME NEW f \in Group
      PROVE  Ordered(m_unknown_submission_history'[f])
  <2>1. CASE f = g
    BY <2>1, <1>1, <1>2, <1>8 DEF s
  <2>2. CASE f # g
    <3>1. m_unknown_submission_history'[f] = RecentSubmissions[f]
      BY <2>2, <1>1, <1>2
    <3> QED
      BY <3>1, RecentOrdered
  <2> QED
    BY <2>1, <2>2
<1> QED
  BY <1>9 DEF HistoryOrdered

(* Time passing keeps the order. *)
LEMMA TickOrdered ==
    ASSUME HistoryOK, HistoryOrdered, Tick
    PROVE  HistoryOrdered'
<1> SUFFICES ASSUME NEW g \in Group
             PROVE  Ordered(m_unknown_submission_history'[g])
  BY DEF HistoryOrdered
<1> DEFINE Age == 0..(UnknownSubmissionWindow + 1)
           times == m_unknown_submission_history[g]
           s == [i \in DOMAIN times |-> Older(times[i], UnknownSubmissionWindow)]
<1>1. times \in Seq(Age) /\ Len(times) \in Nat /\ DOMAIN times = 1..Len(times)
  BY DEF HistoryOK
<1>2. m_unknown_submission_history'[g] = s
  BY DEF Tick
<1>3. \A i \in 1..Len(times) : times[i] \in Age
  <2> HIDE DEF times, Age
  <2> QED
    BY <1>1, ElementOfSeq
<1>4. \A i \in 1..Len(times) : times[i] \in Nat
  BY <1>3, AdmissionAssumption
<1>5. Ordered(times)
  BY DEF HistoryOrdered
<1> HIDE DEF times, Age
<1>6. \A i \in 1..Len(times) : s[i] = Older(times[i], UnknownSubmissionWindow)
  BY <1>1
<1>7. Len(s) = Len(times)
  BY <1>1
<1> HIDE DEF s
<1>8. ASSUME NEW i \in 1..Len(times), NEW j \in 1..Len(times), i <= j
      PROVE  s[j] <= s[i]
  <2>1. times[j] <= times[i] /\ times[i] \in Nat /\ times[j] \in Nat
    BY <1>4, <1>5, <1>8 DEF Ordered
  <2> QED
    BY <1>6, <2>1, AdmissionAssumption DEF Older
<1> QED
  BY <1>2, <1>7, <1>8 DEF Ordered

(* Every step keeps the order. *)
LEMMA NextOrdered == IInv /\ HistoryOrdered /\ [Next]_vars => HistoryOrdered'
<1> SUFFICES ASSUME IInv, HistoryOrdered, [Next]_vars PROVE HistoryOrdered'
  OBVIOUS
<1>1. HistoryOK
  BY DEF IInv
<1>2. ASSUME PruneSubmissionHistory PROVE HistoryOrdered'
  BY <1>1, <1>2, RecentOrdered DEF HistoryOrdered, PruneSubmissionHistory
<1>3. ASSUME UNCHANGED m_unknown_submission_history PROVE HistoryOrdered'
  BY <1>3 DEF HistoryOrdered
<1>4. ASSUME NEW k \in Key, NEW valid \in BOOLEAN, Remember(k, valid)
      PROVE  HistoryOrdered'
  <2>1. PruneSubmissionHistory \/ ChargeSubmission(k[2])
    BY <1>4 DEF Remember
  <2>2. k[2] \in Group
    BY DEF Key
  <2> QED
    BY <1>1, <1>2, <2>1, <2>2, ChargeOrdered
<1>5. CASE \E k \in Key, valid \in BOOLEAN : RememberKnown(k, valid)
  BY <1>5, <1>2 DEF RememberKnown
<1>6. CASE \E k \in Key : Consume(k)
  BY <1>6, <1>2 DEF Consume
<1>7. CASE \E k \in Key : RestoreConsumed(k)
  BY <1>7, <1>2 DEF RestoreConsumed
<1>8. CASE \E k \in Key : Commit(k)
  BY <1>8, <1>3 DEF Commit
<1>9. CASE \E h \in Hash : Erase(h)
  BY <1>9, <1>3 DEF Erase
<1>10. CASE Tick
  BY <1>10, <1>1, TickOrdered
<1>11. CASE UNCHANGED vars
  BY <1>11, <1>3 DEF vars
<1> QED
  BY <1>4, <1>5, <1>6, <1>7, <1>8, <1>9, <1>10, <1>11 DEF Next

(* PruneSubmissionHistory drops exactly the submissions that are older than *)
(* the window: they are always the first ones of their netgroup's history.  *)
THEOREM AlwaysPruneDropsExpired == Spec => []PruneDropsExpired
<1>1. Init => HistoryOrdered
  BY DEF Init, HistoryOrdered, Ordered
<1>2. IInv /\ HistoryOrdered => PruneDropsExpired
  BY ExpiredFirst DEF IInv
<1>3. Spec => []HistoryOrdered
  BY <1>1, NextOrdered, AlwaysIInv, PTL DEF Spec
<1> QED
  BY <1>2, <1>3, AlwaysIInv, PTL
=============================================================================
