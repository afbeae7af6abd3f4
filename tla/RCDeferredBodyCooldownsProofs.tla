------------------- MODULE RCDeferredBodyCooldownsProofs --------------------
(* The capacity bound and the non-refreshing deadlines, for any number of  *)
(* hashes, netgroups and entries and any cooldown.                         *)
EXTENDS RCDeferredBodyCooldowns, FiniteSetTheorems, TLAPS

(* There are finitely many keys, so Keys has a cardinality. *)
LEMMA FiniteKeys ==
    /\ IsFiniteSet(Key)
    /\ IsFiniteSet(Keys)
    /\ Cardinality(Keys) \in Nat
  <1>1. IsFiniteSet(Key)
    BY CooldownAssumption, FS_Product DEF Key
  <1>2. Keys \in SUBSET Key
    BY DEF Keys
  <1> QED
    BY <1>1, <1>2, FS_Subset, FS_CardinalityType

(* A step that only erases entries, or only ages them, keeps the type and  *)
(* the bound: it covers Contains, Erase, Size and Tick.                    *)
LEMMA ShrinkingStep ==
    ASSUME TypeOK,
           m_deadlines' \in [Key -> {Absent} \cup 0..Cooldown],
           \A k \in Key : m_deadlines[k] = Absent => m_deadlines'[k] = Absent
    PROVE  TypeOK'
  <1>1. Keys' \in SUBSET Keys
    BY DEF Keys
  <1>2. Cardinality(Keys') <= Cardinality(Keys) /\ Cardinality(Keys') \in Nat
    BY <1>1, FiniteKeys, FS_Subset, FS_CardinalityType
  <1> QED
    BY <1>2, FiniteKeys, CooldownAssumption DEF TypeOK

(* Erasing any set of entries is such a step. *)
LEMMA ErasingStep ==
    ASSUME TypeOK, NEW S, m_deadlines' = Without(S)
    PROVE  TypeOK'
  <1>1. m_deadlines' \in [Key -> {Absent} \cup 0..Cooldown]
    BY DEF TypeOK, Without
  <1>2. \A k \in Key : m_deadlines[k] = Absent => m_deadlines'[k] = Absent
    BY DEF Without
  <1> QED
    BY <1>1, <1>2, ShrinkingStep

(* The clock ages entries and adds none. *)
LEMMA TickStep ==
    ASSUME TypeOK, Tick
    PROVE  TypeOK'
  <1>1. m_deadlines' \in [Key -> {Absent} \cup 0..Cooldown]
    <2> SUFFICES ASSUME NEW k \in Key
                 PROVE  (IF Live(k) THEN m_deadlines[k] - 1 ELSE m_deadlines[k])
                           \in {Absent} \cup 0..Cooldown
      BY DEF Tick
    <2>1. m_deadlines[k] \in {Absent} \cup 0..Cooldown
      BY DEF TypeOK
    <2> QED
      BY <2>1, CooldownAssumption DEF Live, Absent
  <1>2. \A k \in Key : m_deadlines[k] = Absent => m_deadlines'[k] = Absent
    BY DEF Tick, Live, Absent
  <1> QED
    BY <1>1, <1>2, ShrinkingStep

(* Mark adds one entry, and first evicts one when the map is full. *)
LEMMA MarkStep ==
    ASSUME TypeOK, NEW k \in Key, Mark(k)
    PROVE  TypeOK'
  <1>1. PICK V \in Evictable(k) :
           m_deadlines' = [Without(V) EXCEPT ![k] = Cooldown]
    BY DEF Mark
  <1>2. m_deadlines' \in [Key -> {Absent} \cup 0..Cooldown]
    <2>1. Without(V) \in [Key -> {Absent} \cup 0..Cooldown]
      BY DEF TypeOK, Without
    <2>2. Cooldown \in 0..Cooldown
      BY CooldownAssumption
    <2> QED
      BY <1>1, <2>1, <2>2
  <1> DEFINE R == Keys \ {k}
  <1>3. IsFiniteSet(R) /\ Cardinality(R) \in Nat
    BY FiniteKeys, FS_RemoveElement, FS_CardinalityType
  <1>4. Cardinality(R) <= Cardinality(Keys)
    BY FiniteKeys, FS_Subset
  <1>5. Keys' = (R \ V) \cup {k}
    <2>1. \A j \in Key \ {k} : m_deadlines'[j] = Without(V)[j]
      BY <1>1, <1>2 DEF Without
    <2>2. m_deadlines'[k] = Cooldown
      BY <1>1 DEF Without
    <2>3. Cooldown # Absent
      BY CooldownAssumption DEF Absent
    <2> QED
      BY <2>1, <2>2, <2>3 DEF Keys, Without
  <1>6. Cardinality(Keys') <= MaxEntries
    <2>1. CASE Cardinality(R) >= MaxEntries
      <3>1. PICK j \in R : V = {j}
        BY <2>1 DEF Evictable, Oldest, R
      <3>2. /\ IsFiniteSet(R \ V)
            /\ Cardinality(R \ V) = Cardinality(R) - 1
        BY <3>1, <1>3, FS_RemoveElement
      <3>3. k \notin R \ V
        BY DEF R
      <3>4. Cardinality(Keys) <= MaxEntries
        BY DEF TypeOK
      <3> HIDE DEF R
      <3>5. Cardinality(Keys') = Cardinality(R \ V) + 1
        BY <3>2, <3>3, <1>5, FS_AddElement
      <3> QED
        BY <3>2, <3>4, <3>5, <1>3, <1>4, FiniteKeys, CooldownAssumption
    <2>2. CASE ~(Cardinality(R) >= MaxEntries)
      <3>1. V = {}
        BY <2>2 DEF Evictable, R
      <3>2. Keys' = R \cup {k}
        BY <3>1, <1>5
      <3>3. k \notin R
        BY DEF R
      <3> HIDE DEF R
      <3>4. Cardinality(Keys') = Cardinality(R) + 1
        BY <3>2, <3>3, <1>3, FS_AddElement
      <3> QED
        BY <2>2, <3>4, <1>3, CooldownAssumption
    <2> QED
      BY <2>1, <2>2
  <1> QED
    BY <1>2, <1>6 DEF TypeOK

(* The type of the map, its capacity bound included, is an invariant. *)
THEOREM TypeCorrect == Spec => []TypeOK
  <1>1. Init => TypeOK
    <2> SUFFICES ASSUME Init PROVE TypeOK
      OBVIOUS
    <2>1. Keys = {}
      BY DEF Init, Keys
    <2>2. Cardinality(Keys) <= MaxEntries
      BY <2>1, FS_EmptySet, CooldownAssumption
    <2> QED
      BY <2>2 DEF Init, TypeOK
  <1>2. TypeOK /\ [Next]_m_deadlines => TypeOK'
    <2> SUFFICES ASSUME TypeOK, [Next]_m_deadlines PROVE TypeOK'
      OBVIOUS
    <2>1. CASE \E k \in Key : Mark(k)
      BY <2>1, MarkStep
    <2>2. CASE \E k \in Key : Contains(k)
      BY <2>2, ErasingStep DEF Contains
    <2>3. CASE \E h \in Hash : Erase(h)
      BY <2>3, ErasingStep DEF Erase
    <2>4. CASE Size
      BY <2>4, ErasingStep DEF Size
    <2>5. CASE Tick
      BY <2>5, TickStep
    <2>6. CASE UNCHANGED m_deadlines
      BY <2>6 DEF TypeOK, Keys
    <2> QED
      BY <2>1, <2>2, <2>3, <2>4, <2>5, <2>6 DEF Next
  <1> QED
    BY <1>1, <1>2, PTL DEF Spec

(* No call ever pushes a live deadline back: Mark refuses a live key, the  *)
(* other calls only erase, and the clock only brings the deadline closer.  *)
THEOREM DeadlinesNotRefreshed == Spec => NotRefreshed
  <1> DEFINE Step == \A k \in Key : Live(k) => m_deadlines'[k] <= m_deadlines[k]
  <1>1. TypeOK /\ [Next]_m_deadlines => [Step]_m_deadlines
    <2> SUFFICES ASSUME TypeOK, Next, NEW j \in Key, Live(j)
                 PROVE  m_deadlines'[j] <= m_deadlines[j]
      OBVIOUS
    <2>0. m_deadlines[j] \in Nat /\ m_deadlines[j] > 0
      BY CooldownAssumption DEF TypeOK, Live, Absent
    <2>1. ASSUME NEW S, m_deadlines' = Without(S)
          PROVE  m_deadlines'[j] <= m_deadlines[j]
      BY <2>0, <2>1 DEF Without, Absent
    <2>2. ASSUME NEW k \in Key, Mark(k)
          PROVE  m_deadlines'[j] <= m_deadlines[j]
      <3>1. PICK V \in Evictable(k) :
               m_deadlines' = [Without(V) EXCEPT ![k] = Cooldown]
        BY <2>2 DEF Mark
      <3>2. j # k
        BY <2>2 DEF Mark
      <3>3. m_deadlines'[j] = Without(V)[j]
        BY <3>1, <3>2 DEF Without
      <3> QED
        BY <3>3, <2>0 DEF Without, Absent
    <2>3. CASE Tick
      BY <2>0, <2>3 DEF Tick
    <2> QED
      BY <2>1, <2>2, <2>3 DEF Next, Contains, Erase, Size
  <1> QED
    BY <1>1, TypeCorrect, PTL DEF Spec, NotRefreshed

(* Mark displaces a live cooldown only if all are live: the entry it       *)
(* evicts has the earliest deadline of the others, and an expired entry of *)
(* the key itself leaves room, so that nothing is evicted.                 *)
THEOREM LiveOnesEvictedLast == Spec => LiveEvictedLast
  <1> DEFINE Step == (\E k \in Key : m_deadlines'[k] > m_deadlines[k]) =>
                       \A j \in Key : Live(j) /\ m_deadlines'[j] = Absent =>
                          \A i \in Keys : Live(i)
  <1>1. TypeOK /\ [Next]_m_deadlines => [Step]_m_deadlines
    <2> SUFFICES ASSUME TypeOK, Next, NEW k \in Key, m_deadlines'[k] > m_deadlines[k],
                        NEW j \in Key, Live(j), m_deadlines'[j] = Absent,
                        NEW i \in Keys
                 PROVE  Live(i)
      OBVIOUS
    <2>1. \A q \in Key : m_deadlines[q] \in Int /\ m_deadlines[q] >= Absent
      BY CooldownAssumption DEF TypeOK, Absent
    <2>2. ASSUME NEW S, m_deadlines' = Without(S) PROVE FALSE
      BY <2>1, <2>2 DEF Without, Absent
    <2>3. ~Tick
      BY <2>1 DEF Tick
    <2>4. PICK q \in Key : Mark(q)
      BY <2>2, <2>3, Zenon DEF Next, Contains, Erase, Size
    <2>5. PICK V \in Evictable(q) :
             m_deadlines' = [Without(V) EXCEPT ![q] = Cooldown]
      BY <2>4, Zenon DEF Mark
    <2>6. j # q
      BY <2>4 DEF Mark
    <2>7. m_deadlines'[j] = Without(V)[j]
      BY <2>5, <2>6 DEF Without
    <2>8. j \in V
      BY <2>7 DEF Without, Live, Absent
    <2> DEFINE R == Keys \ {q}
    <2>9. Cardinality(R) >= MaxEntries /\ V \in {{v} : v \in Oldest(R)}
      BY <2>8 DEF Evictable
    <2>10. \A v \in R : m_deadlines[j] <= m_deadlines[v]
      BY <2>8, <2>9 DEF Oldest
    <2>11. q \notin Keys
      <3> SUFFICES ASSUME q \in Keys PROVE FALSE
        OBVIOUS
      <3>1. Cardinality(R) = Cardinality(Keys) - 1
        BY FiniteKeys, FS_RemoveElement, Zenon
      <3>2. Cardinality(Keys) <= MaxEntries
        BY DEF TypeOK
      <3> QED BY <3>1, <3>2, <2>9, FiniteKeys, CooldownAssumption
    <2>12. i \in R /\ i \in Key /\ m_deadlines[j] <= m_deadlines[i]
      BY <2>10, <2>11 DEF Keys
    <2> QED BY <2>1, <2>12 DEF Live
  <1> QED
    BY <1>1, TypeCorrect, PTL DEF Spec, LiveEvictedLast
=============================================================================
