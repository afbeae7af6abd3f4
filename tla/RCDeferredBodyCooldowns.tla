---------------------- MODULE RCDeferredBodyCooldowns -----------------------
(***************************************************************************)
(* node::RCDeferredBodyCooldowns: how long a block body that came without  *)
(* an admission ticket keeps its block from being requested again from the *)
(* same netgroup.  PeerManager holds m_matmul_rc_deferred_mutex across     *)
(* each call, so each method is one action.                                *)
(*                                                                         *)
(* A deadline is abstracted to the time left until it.  It stops at zero:  *)
(* an expired deadline stays in the map until some call removes it.        *)
(***************************************************************************)
EXTENDS Integers, FiniteSets

CONSTANTS
    Hash, Group,   \* block hashes and keyed netgroups
    MaxEntries,    \* m_config.max_entries
    Cooldown       \* m_config.cooldown

(* The constructor raises both limits to at least one. *)
ASSUME CooldownAssumption ==
    /\ IsFiniteSet(Hash)
    /\ IsFiniteSet(Group)
    /\ MaxEntries \in Nat \ {0}
    /\ Cooldown \in Nat \ {0}

VARIABLE m_deadlines

Key == Hash \X Group

(* A key that is not in the map. *)
Absent == -1

Keys == {k \in Key : m_deadlines[k] # Absent}

Live(k) == m_deadlines[k] > 0

Init == m_deadlines = [k \in Key |-> Absent]

Without(S) == [k \in Key |-> IF k \in S THEN Absent ELSE m_deadlines[k]]

(* The entries with the earliest deadline among the keys in S. *)
Oldest(S) == {k \in S : \A j \in S : m_deadlines[k] <= m_deadlines[j]}

(* Mutant: an expired entry is evicted no sooner than any other. *)
EvictableAny(k) ==
    IF Cardinality(Keys \ {k}) >= MaxEntries
    THEN {{j} : j \in Keys \ {k}} ELSE {{}}

(* What Mark may evict for k, whose own expired entry is already erased. *)
Evictable(k) ==
    IF Cardinality(Keys \ {k}) >= MaxEntries
    THEN {{j} : j \in Oldest(Keys \ {k})} ELSE {{}}

(* Mutant: a redelivery starts the cooldown again. *)
MarkRefreshes(k) ==
    \E V \in Evictable(k) :
        m_deadlines' = [Without(V) EXCEPT ![k] = Cooldown]

(* A body without a ticket arrived: the first one owns the deadline. *)
Mark(k) ==
    /\ ~Live(k)
    /\ \E V \in Evictable(k) :
          m_deadlines' = [Without(V) EXCEPT ![k] = Cooldown]

(* The download selection asks whether to skip k; it drops k if expired. *)
Contains(k) ==
    /\ m_deadlines[k] = 0
    /\ m_deadlines' = Without({k})

(* The block was admitted or has a terminal verdict: for every netgroup. *)
Erase(h) == m_deadlines' = Without({k \in Keys : k[1] = h})

(* Size prunes every expired entry before it counts. *)
Size == m_deadlines' = Without({k \in Keys : ~Live(k)})

(* The steady clock advances. *)
Tick ==
    /\ \E k \in Key : Live(k)
    /\ m_deadlines' = [k \in Key |-> IF Live(k) THEN m_deadlines[k] - 1
                                     ELSE m_deadlines[k]]

Next ==
    \/ \E k \in Key : Mark(k)
    \/ \E k \in Key : Contains(k)
    \/ \E h \in Hash : Erase(h)
    \/ Size
    \/ Tick

Spec == Init /\ [][Next]_m_deadlines

(* Time passes whatever the peers do. *)
FairSpec == Spec /\ WF_m_deadlines(Tick)

-----------------------------------------------------------------------------
(* The type of the state; the map never exceeds its capacity. *)
TypeOK ==
    /\ m_deadlines \in [Key -> {Absent} \cup 0..Cooldown]
    /\ Cardinality(Keys) <= MaxEntries

(* The first deferral owns the deadline: as long as a cooldown is live, no *)
(* redelivery pushes it back.                                              *)
NotRefreshed ==
    [][\A k \in Key : Live(k) => m_deadlines'[k] <= m_deadlines[k]]_m_deadlines

(* At capacity a new cooldown displaces a live one only when no expired    *)
(* entry is left to displace, although Mark does not prune.                *)
LiveEvictedLast ==
    [][(\E k \in Key : m_deadlines'[k] > m_deadlines[k]) =>
         \A j \in Key : Live(j) /\ m_deadlines'[j] = Absent =>
            \A i \in Keys : Live(i)]_m_deadlines

(* No source can suppress a block for good: every live cooldown runs out,  *)
(* however often the body is delivered again meanwhile.                    *)
SuppressionEnds ==
    \A k \in Key : Live(k) ~> ~Live(k)
=============================================================================
