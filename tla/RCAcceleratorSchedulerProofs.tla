-------------------- MODULE RCAcceleratorSchedulerProofs --------------------
(***************************************************************************)
(* Proofs about RCAcceleratorScheduler: whatever the number of threads, the *)
(* lane limits and the quanta, the device has one owner, is granted in     *)
(* order within a lane, is given up for a higher priority only, and by a   *)
(* miner not before its minimum lease is over; and the reserved lanes are  *)
(* kept.                                                                   *)
(***************************************************************************)
EXTENDS RCAcceleratorScheduler, TLAPS

(* What holds of the calls c in the middle of a critical section, when the *)
(* latches may be ahead of the variable call but the owner is still the    *)
(* one before the step.                                                    *)
CallsOK(c) ==
    /\ c \in [Thread -> Call]
    /\ \A t \in Thread : c[t].pc = "holding" <=> m_active_owner = t
    /\ OwnedByMining(c) /\ c[m_active_owner].latch = "raised" => held >= MinLease

(* The inductive invariant: it says nothing of the queue, because neither  *)
(* ownership nor the quantum rests on who waits.                           *)
Inv ==
    /\ m_active_owner \in Thread \cup {NoThread}
    /\ held \in Nat
    /\ CallsOK(call)

USE SchedulerAssumption

-----------------------------------------------------------------------------
(* Lemmas about the operators of the model.                                *)

(* Raising the owner's latch changes nothing else of any call. *)
LEMMA RaiseLatchFacts ==
    ASSUME NEW c \in [Thread -> Call], m_active_owner \in Thread
    PROVE  /\ RaiseLatch(c) \in [Thread -> Call]
           /\ \A u \in Thread : /\ RaiseLatch(c)[u].pc = c[u].pc
                                /\ RaiseLatch(c)[u].priority = c[u].priority
  <1> DEFINE r == [c[m_active_owner] EXCEPT !.latch = "raised"]
  <1>1. r \in Call /\ r.pc = c[m_active_owner].pc
        /\ r.priority = c[m_active_owner].priority
    BY DEF Call
  <1>2. [c EXCEPT ![m_active_owner].latch = "raised"]
            = [c EXCEPT ![m_active_owner] = r]
    OBVIOUS
  <1> HIDE DEF r
  <1> QED BY <1>1, <1>2 DEF RaiseLatch

(* Raising the latch of an owner that is not mining, or whose quantum is   *)
(* over, keeps the calls as they should be.                                *)
LEMMA RaiseLatchOK ==
    ASSUME Inv, NEW c, CallsOK(c), m_active,
           OwnedByMining(c) => held >= MinLease
    PROVE  /\ CallsOK(RaiseLatch(c))
           /\ \A u \in Thread : RaiseLatch(c)[u].pc = c[u].pc
  <1>1. m_active_owner \in Thread /\ c \in [Thread -> Call]
    BY DEF Inv, CallsOK, m_active
  <1> DEFINE d == RaiseLatch(c)
  <1>2. /\ d \in [Thread -> Call]
        /\ \A u \in Thread : d[u].pc = c[u].pc /\ d[u].priority = c[u].priority
    BY <1>1, RaiseLatchFacts
  <1> HIDE DEF d
  <1>3. OwnedByMining(d) => held >= MinLease
    BY <1>1, <1>2 DEF OwnedByMining
  <1>4. CallsOK(d)
    BY <1>2, <1>3 DEF CallsOK
  <1> QED BY <1>2, <1>4 DEF d

(* A request of priority p never raises the latch of a miner too early. *)
LEMMA MaybePreemptOK ==
    ASSUME Inv, NEW c, CallsOK(c), NEW p
    PROVE  /\ CallsOK(MaybePreemptActiveOwner(p, c))
           /\ \A u \in Thread : MaybePreemptActiveOwner(p, c)[u].pc = c[u].pc
  <1> DEFINE asked == /\ m_active
                      /\ p > c[m_active_owner].priority
                      /\ ~(OwnedByMining(c) /\ MinLease > 0 /\ held < MinLease)
  <1>1. MaybePreemptActiveOwner(p, c) = IF asked THEN RaiseLatch(c) ELSE c
    BY DEF MaybePreemptActiveOwner
  <1>2. asked => m_active /\ (OwnedByMining(c) => held >= MinLease)
    BY DEF Inv
  <1> HIDE DEF asked
  <1> QED BY <1>1, <1>2, RaiseLatchOK

(* Neither does the re-check at the head of the wait loop. *)
LEMMA RecheckOK ==
    ASSUME Inv, NEW c, CallsOK(c), NEW q
    PROVE  /\ CallsOK(RecheckDeferredPreemption(q, c))
           /\ \A u \in Thread : RecheckDeferredPreemption(q, c)[u].pc = c[u].pc
  <1> DEFINE due == /\ OwnedByMining(c)
                    /\ HasHigherPriorityWaiter(q, c, Mining)
                    /\ held >= MinLease
  <1>1. RecheckDeferredPreemption(q, c) = IF due THEN RaiseLatch(c) ELSE c
    BY DEF RecheckDeferredPreemption
  <1>2. due => m_active /\ held >= MinLease
    BY DEF OwnedByMining
  <1> HIDE DEF due
  <1> QED BY <1>1, <1>2, RaiseLatchOK

-----------------------------------------------------------------------------
(* The actions preserve the invariant.                                     *)

(* A pass of the wait loop grants the device only when it is free. *)
LEMMA PassInv ==
    ASSUME Inv, NEW t \in Thread, NEW q, NEW c, CallsOK(c),
           c[t].pc = "waiting", Pass(t, q, c)
    PROVE  Inv'
  <1>1. c \in [Thread -> Call] /\ c[t] \in Call /\ m_active_owner # t
    BY DEF CallsOK
  <1>2. CASE Leave(t, q, c)
    <2>1. Idle \in Call /\ Idle.pc = "idle"
      BY DEF Idle, Call, Priority, Speculative, Tip
    <2>2. /\ call' = [c EXCEPT ![t] = Idle]
          /\ m_active_owner' = m_active_owner /\ held' = held
      BY <1>2 DEF Leave
    <2>3. call' \in [Thread -> Call] /\ \A u \in Thread \ {t} : call'[u] = c[u]
      BY <1>1, <2>1, <2>2
    <2>4. \A u \in Thread : call'[u].pc = "holding" <=> m_active_owner' = u
      BY <1>1, <2>1, <2>2, <2>3 DEF CallsOK
    <2>5. m_active => call'[m_active_owner] = c[m_active_owner]
      BY <1>1, <2>3 DEF Inv, m_active
    <2>6. OwnedByMining(call)' /\ call'[m_active_owner'].latch = "raised"
             => held' >= MinLease
      BY <2>2, <2>5 DEF CallsOK, OwnedByMining, m_active
    <2> QED BY <2>2, <2>3, <2>4, <2>6 DEF Inv, CallsOK
  <1>3. CASE ~Cancelled(c[t]) /\ ~m_active /\ Take(t, q, c)
    <2> DEFINE k == [c[t] EXCEPT !.pc = "holding", !.waited = 0]
    <2>1. k \in Call /\ k.pc = "holding" /\ k.latch = c[t].latch
      BY <1>1, Zenon DEF Call
    <2>2. call' = [c EXCEPT ![t] = k] /\ m_active_owner' = t /\ held' = 0
      BY <1>1, <1>3, Zenon DEF Take
    <2> HIDE DEF k
    <2>3. /\ call' \in [Thread -> Call] /\ call'[t] = k
          /\ \A u \in Thread \ {t} : call'[u] = c[u]
      BY <1>1, <2>1, <2>2
    <2>4. \A u \in Thread \ {t} : c[u].pc # "holding"
      BY <1>3 DEF CallsOK, m_active
    <2>5. \A u \in Thread : call'[u].pc = "holding" <=> m_active_owner' = u
      BY <2>1, <2>2, <2>3, <2>4
    <2>6. call'[m_active_owner'].latch # "raised"
      BY <1>3, <2>1, <2>2, <2>3 DEF Cancelled
    <2> QED BY <2>2, <2>3, <2>5, <2>6 DEF Inv, CallsOK
  <1>4. CASE KeepWaiting(q, c)
    BY <1>4 DEF KeepWaiting, Inv, CallsOK, OwnedByMining, m_active
  <1> QED BY <1>2, <1>3, <1>4 DEF Pass

(* Enter rejects without a change, or queues a fresh call and passes. *)
LEMMA EnterInv ==
    ASSUME Inv, NEW t \in Thread, NEW p \in Priority,
           NEW latch \in {"null", "clear"}, NEW bytes, Enter(t, p, latch, bytes)
    PROVE  Inv'
  <1> DEFINE fresh  == [Idle EXCEPT !.pc = "waiting", !.priority = p, !.latch = latch]
             b      == [call EXCEPT ![t] = fresh]
             c      == MaybePreemptActiveOwner(p, b)
             reaped == m_waiters \ Reapable
             queue  == IF Full(reaped, p) THEN reaped \ Victim(reaped, p) ELSE reaped
             q      == queue \cup {t}
  <1>1. /\ call[t].pc = "idle"
        /\ \/ UNCHANGED <<m_active_owner, held, call>>
           \/ Pass(t, q, RecheckDeferredPreemption(q, c))
    BY DEF Enter
  <1>2. fresh \in Call /\ fresh.pc = "waiting"
    BY Zenon DEF Idle, Call
  <1> HIDE DEF fresh
  <1>3. call \in [Thread -> Call] /\ m_active_owner # t
    BY <1>1 DEF Inv, CallsOK
  <1>4. /\ b \in [Thread -> Call] /\ b[t].pc = "waiting"
        /\ \A u \in Thread \ {t} : b[u] = call[u]
    BY <1>2, <1>3
  <1> HIDE DEF b
  <1>5. CallsOK(b)
    <2>1. \A u \in Thread : b[u].pc = "holding" <=> m_active_owner = u
      BY <1>3, <1>4 DEF Inv, CallsOK
    <2>2. m_active => b[m_active_owner] = call[m_active_owner]
      BY <1>3, <1>4 DEF Inv, m_active
    <2>3. OwnedByMining(b) /\ b[m_active_owner].latch = "raised" => held >= MinLease
      BY <2>2 DEF Inv, CallsOK, OwnedByMining
    <2> QED BY <1>4, <2>1, <2>3 DEF CallsOK
  <1>6. CallsOK(c) /\ c[t].pc = "waiting"
    BY <1>4, <1>5, MaybePreemptOK
  <1> HIDE DEF c, q
  <1> DEFINE d == RecheckDeferredPreemption(q, c)
  <1>7. CallsOK(d) /\ d[t].pc = "waiting"
    BY <1>6, RecheckOK
  <1> HIDE DEF d
  <1>8. CASE UNCHANGED <<m_active_owner, held, call>>
    BY <1>8 DEF Inv, CallsOK, OwnedByMining, m_active
  <1>9. CASE Pass(t, q, d)
    BY <1>7, <1>9, PassInv
  <1> QED BY <1>1, <1>8, <1>9 DEF d

(* Poll is one more pass. *)
LEMMA PollInv ==
    ASSUME Inv, NEW t \in Thread, Poll(t)
    PROVE  Inv'
  <1> DEFINE d == RecheckDeferredPreemption(m_waiters, call)
  <1>1. call[t].pc = "waiting" /\ Pass(t, m_waiters, d)
    BY DEF Poll
  <1>2. CallsOK(d) /\ d[t].pc = call[t].pc
    BY RecheckOK DEF Inv
  <1> HIDE DEF d
  <1> QED BY <1>1, <1>2, PassInv

(* Only the owner releases, so the device is free afterwards. *)
LEMMA ReleaseInv ==
    ASSUME Inv, NEW t \in Thread, Release(t)
    PROVE  Inv'
  <1>1. /\ call' = [call EXCEPT ![t] = Idle] /\ m_active_owner' = NoThread
        /\ held' = 0 /\ m_active_owner = t
    BY DEF Release, Inv, CallsOK
  <1>2. Idle \in Call /\ Idle.pc = "idle"
    BY DEF Idle, Call, Priority, Speculative, Tip
  <1>3. call' \in [Thread -> Call] /\ \A u \in Thread : call'[u].pc # "holding"
    BY <1>1, <1>2 DEF Inv, CallsOK
  <1> QED BY <1>1, <1>3 DEF Inv, CallsOK, OwnedByMining, m_active

(* A cancellation by the caller leaves the latch alone. *)
LEMMA CancelInv ==
    ASSUME Inv, NEW t \in Thread, Cancel(t)
    PROVE  Inv'
  <1> DEFINE k == [call[t] EXCEPT !.cancelled = TRUE]
  <1>1. call \in [Thread -> Call]
    BY DEF Inv, CallsOK
  <1>2. /\ k \in Call /\ k.pc = call[t].pc /\ k.latch = call[t].latch
        /\ k.priority = call[t].priority
    BY <1>1, Zenon DEF Call
  <1>3. call' = [call EXCEPT ![t] = k] /\ UNCHANGED <<m_active_owner, held>>
    BY <1>1 DEF Cancel
  <1> HIDE DEF k
  <1>4. /\ call' \in [Thread -> Call]
        /\ \A u \in Thread : /\ call'[u].pc = call[u].pc
                             /\ call'[u].latch = call[u].latch
                             /\ call'[u].priority = call[u].priority
    BY <1>1, <1>2, <1>3
  <1> QED BY <1>3, <1>4 DEF Inv, CallsOK, OwnedByMining, m_active

(* Time passes: a quantum that is over stays over. *)
LEMMA TickInv ==
    ASSUME Inv, Tick
    PROVE  Inv'
  <1>1. call \in [Thread -> Call] /\ held \in Nat
    BY DEF Inv, CallsOK
  <1>2. held' \in Nat /\ held' >= held /\ m_active_owner' = m_active_owner
    BY <1>1 DEF Tick
  <1>3. ASSUME NEW u \in Thread
        PROVE  /\ call'[u] \in Call /\ call'[u].pc = call[u].pc
               /\ call'[u].latch = call[u].latch
               /\ call'[u].priority = call[u].priority
    BY <1>1 DEF Tick, Call
  <1>4. call' \in [Thread -> Call]
    BY <1>3 DEF Tick
  <1> QED BY <1>1, <1>2, <1>3, <1>4 DEF Inv, CallsOK, OwnedByMining, m_active

(* Every step preserves the invariant. *)
LEMMA NextInv == Inv /\ [Next]_vars => Inv'
  <1> SUFFICES ASSUME Inv, [Next]_vars PROVE Inv'
    OBVIOUS
  <1>1. ASSUME NEW bytes \in Capacities, ConfigureWorkspaceCapacity(bytes) PROVE Inv'
    BY <1>1 DEF ConfigureWorkspaceCapacity, Inv, CallsOK, OwnedByMining, m_active
  <1>2. CASE UNCHANGED vars
    BY <1>2 DEF vars, Inv, CallsOK, OwnedByMining, m_active
  <1> QED BY <1>1, <1>2, EnterInv, PollInv, ReleaseInv, CancelInv, TickInv DEF Next

(* The invariant holds in every reachable state of the scheduler. *)
THEOREM InvariantHolds == Spec => []Inv
  <1>1. Init => Inv
    BY DEF Init, Inv, CallsOK, OwnedByMining, m_active, Idle, Call, Priority,
           Speculative, Tip
  <1> QED BY <1>1, NextInv, PTL DEF Spec

(* Mutual exclusion: whatever displacements, deadlines, cancellations and  *)
(* preemptions happen, a thread holds the device iff it is m_active_owner, *)
(* so two never do and Release's identity assertion never fires.           *)
THEOREM DeviceHasOneOwner == Spec => []HolderIsOwner
  <1>1. Inv => HolderIsOwner
    BY DEF Inv, CallsOK, HolderIsOwner
  <1> QED BY <1>1, InvariantHolds, PTL

(* A CandidateMining owner's latch is raised only once it has held the     *)
(* device for CandidateMiningMinLeaseQuantum, on both preemption paths.    *)
THEOREM MiningQuantumKept == Spec => []MiningKeepsMinLease
  <1>1. Inv => MiningKeepsMinLease
    BY DEF Inv, CallsOK, MiningKeepsMinLease
  <1> QED BY <1>1, InvariantHolds, PTL

-----------------------------------------------------------------------------
(* The queue.                                                              *)

(* Who is queued waits, and a thread outside Acquire shows no latch. *)
QueueOK ==
    /\ m_waiters \subseteq Thread
    /\ \A t \in m_waiters : call[t].pc = "waiting"
    /\ \A t \in Thread : call[t].pc = "idle" => call[t].latch = "null"

(* older is a strict linear order of the queue. *)
OrderOK ==
    /\ older \subseteq m_waiters \X m_waiters
    /\ \A t \in m_waiters : <<t, t>> \notin older
    /\ \A t, u \in m_waiters : t # u => (<<t, u>> \in older <=> <<u, t>> \notin older)
    /\ \A t, u, v \in m_waiters :
          <<t, u>> \in older /\ <<u, v>> \in older => <<t, v>> \in older

(* Removing threads, or adding one at the end, keeps the order linear. *)
LEMMA QueueOrder ==
    ASSUME OrderOK, NEW q, NEW t, q \subseteq m_waiters \cup {t}, Queue(q)
    PROVE  OrderOK'
  <1>1. m_waiters' = q /\ older' \subseteq q \X q
    BY DEF Queue
  <1>2. ASSUME NEW a \in q, NEW b \in q
        PROVE  <<a, b>> \in older' <=> a # b /\ (<<a, b>> \in older \/ b \notin m_waiters)
    BY DEF Queue, Before
  <1>3. \A a \in q : a \notin m_waiters => a = t
    OBVIOUS
  <1>4. \A a, b : <<a, b>> \in older => a \in m_waiters /\ b \in m_waiters
    BY DEF OrderOK
  <1>5. \A a \in q : <<a, a>> \notin older'
    BY <1>2
  <1>6. ASSUME NEW a \in q, NEW b \in q, a # b
        PROVE  <<a, b>> \in older' <=> <<b, a>> \notin older'
    <2>1. CASE a \in m_waiters /\ b \in m_waiters
      BY <1>2, <1>6, <2>1 DEF OrderOK
    <2>2. CASE a \notin m_waiters
      BY <1>2, <1>3, <1>4, <1>6, <2>2
    <2>3. CASE b \notin m_waiters
      BY <1>2, <1>3, <1>4, <1>6, <2>3
    <2> QED BY <2>1, <2>2, <2>3
  <1>7. ASSUME NEW a \in q, NEW b \in q, NEW d \in q,
               <<a, b>> \in older', <<b, d>> \in older'
        PROVE  <<a, d>> \in older'
    <2>1. a # d
      BY <1>5, <1>6, <1>7
    <2>2. CASE d \notin m_waiters
      BY <1>2, <2>1, <2>2
    <2>3. CASE d \in m_waiters
      <3>1. <<b, d>> \in older /\ b \in m_waiters
        BY <1>2, <1>4, <1>7, <2>3
      <3>2. <<a, b>> \in older /\ a \in m_waiters
        BY <1>2, <1>4, <1>7, <3>1
      <3>3. <<a, d>> \in older
        BY <2>3, <3>1, <3>2 DEF OrderOK
      <3> QED BY <1>2, <2>1, <3>3
    <2> QED BY <2>2, <2>3
  <1> QED BY <1>1, <1>5, <1>6, <1>7 DEF OrderOK

-----------------------------------------------------------------------------
(* What a step does to the calls and to the queue.                         *)

(* d has the calls of b but for the owner's latch. *)
SameButLatch(b, d) ==
    /\ d \in [Thread -> Call]
    /\ \A u \in Thread : /\ d[u].pc = b[u].pc /\ d[u].priority = b[u].priority
                         /\ d[u].waited = b[u].waited
                         /\ d[u].cancelled = b[u].cancelled
                         /\ u # m_active_owner => d[u].latch = b[u].latch

(* RaiseLatch touches the owner's latch only, and it is then not clear. *)
LEMMA RaiseLatchOnly ==
    ASSUME NEW c \in [Thread -> Call], m_active_owner \in Thread
    PROVE  /\ SameButLatch(c, RaiseLatch(c))
           /\ RaiseLatch(c)[m_active_owner].latch # "clear"
  <1> DEFINE r == [c[m_active_owner] EXCEPT !.latch = "raised"]
  <1>1. /\ r \in Call /\ r.pc = c[m_active_owner].pc /\ r.latch = "raised"
        /\ r.priority = c[m_active_owner].priority
        /\ r.waited = c[m_active_owner].waited
        /\ r.cancelled = c[m_active_owner].cancelled
    BY DEF Call
  <1>2. [c EXCEPT ![m_active_owner].latch = "raised"]
            = [c EXCEPT ![m_active_owner] = r]
    OBVIOUS
  <1> HIDE DEF r
  <1> QED BY <1>1, <1>2 DEF RaiseLatch, SameButLatch

(* Who is behind a preemption: the request, or a waiter above mining. *)
LEMMA MaybePreemptOnly ==
    ASSUME Inv, NEW c \in [Thread -> Call], NEW p
    PROVE  LET d == MaybePreemptActiveOwner(p, c)
           IN  /\ SameButLatch(c, d)
               /\ d # c => m_active /\ p > c[m_active_owner].priority
  <1>1. CASE /\ m_active /\ p > c[m_active_owner].priority
             /\ MaybePreemptActiveOwner(p, c) = RaiseLatch(c)
    <2>1. m_active_owner \in Thread
      BY <1>1 DEF Inv, m_active
    <2> QED BY <1>1, <2>1, RaiseLatchOnly
  <1>2. CASE MaybePreemptActiveOwner(p, c) = c
    BY <1>2 DEF SameButLatch
  <1> QED BY <1>1, <1>2 DEF MaybePreemptActiveOwner

(* The re-check raises the latch whenever a miner past its quantum stands  *)
(* in the way of a waiter above it, and only then.                         *)
LEMMA RecheckOnly ==
    ASSUME Inv, NEW c \in [Thread -> Call], NEW q
    PROVE  LET d == RecheckDeferredPreemption(q, c)
               due == /\ OwnedByMining(c) /\ held >= MinLease
                      /\ HasHigherPriorityWaiter(q, c, Mining)
           IN  /\ SameButLatch(c, d)
               /\ d # c => due
               /\ due => d[m_active_owner].latch # "clear"
  <1> DEFINE due == /\ OwnedByMining(c) /\ held >= MinLease
                    /\ HasHigherPriorityWaiter(q, c, Mining)
             d == RecheckDeferredPreemption(q, c)
  <1>1. d = IF due THEN RaiseLatch(c) ELSE c
    BY DEF RecheckDeferredPreemption
  <1>2. due => m_active_owner \in Thread
    BY DEF Inv, OwnedByMining, m_active
  <1> HIDE DEF due, d
  <1>3. SameButLatch(c, d) /\ (d # c => due) /\ (due => d[m_active_owner].latch # "clear")
    <2>1. CASE due
      BY <1>1, <1>2, <2>1, RaiseLatchOnly
    <2>2. CASE ~due
      BY <1>1, <2>2 DEF SameButLatch
    <2> QED BY <2>1, <2>2
  <1> QED BY <1>3 DEF due, d

(* A pass of the wait loop changes the caller's own call only, and takes   *)
(* nobody else out of the queue.                                           *)
LEMMA PassOnly ==
    ASSUME NEW t \in Thread, NEW q, NEW c \in [Thread -> Call],
           c[t].pc = "waiting", Pass(t, q, c)
    PROVE  /\ \A u \in Thread \ {t} : call'[u] = c[u]
           /\ \/ call'[t] = Idle /\ Queue(q \ {t})
              \/ /\ call'[t].pc = "holding" /\ call'[t].latch = c[t].latch
                 /\ IsFirst(q, c, t) /\ ~m_active
                 /\ Queue(q \ {t})
              \/ call'[t] = c[t] /\ Queue(q)
           /\ call'[t] = Idle =>
                Cancelled(c[t]) \/ t \notin q \/ c[t].waited >= MaxQueueWait
  <1>1. Idle.pc = "idle"
    BY DEF Idle
  <1>2. CASE /\ Leave(t, q, c)
             /\ Cancelled(c[t]) \/ t \notin q \/ c[t].waited >= MaxQueueWait
    BY <1>2 DEF Leave
  <1>3. CASE Take(t, q, c) /\ ~m_active /\ IsFirst(q, c, t)
    <2> DEFINE k == [c[t] EXCEPT !.pc = "holding", !.waited = 0]
    <2>1. k \in Call /\ k.pc = "holding" /\ k.latch = c[t].latch
      BY Zenon DEF Call
    <2>2. call' = [c EXCEPT ![t] = k] /\ Queue(q \ {t})
      BY <1>3, Zenon DEF Take
    <2> HIDE DEF k
    <2>3. call'[t] = k /\ \A u \in Thread \ {t} : call'[u] = c[u]
      BY <2>2
    <2> QED BY <1>1, <1>3, <2>1, <2>2, <2>3
  <1>4. CASE KeepWaiting(q, c)
    BY <1>1, <1>4 DEF KeepWaiting
  <1> QED BY <1>2, <1>3, <1>4 DEF Pass

(* Enter queues the caller, takes out of the queue only who may be taken,  *)
(* and preempts only for a call of higher priority that then waits.        *)
LEMMA EnterOnly ==
    ASSUME Inv, QueueOK, NEW t \in Thread, NEW p \in Priority,
           NEW latch \in {"null", "clear"}, NEW bytes, Enter(t, p, latch, bytes)
    PROVE  /\ t \notin m_waiters /\ call[t].latch = "null"
           /\ call'[t].pc = "idle" => call'[t].latch = "null"
           /\ call'[t].latch # "raised"
           /\ t \in m_waiters' => call'[t].pc = "waiting"
           /\ \A u \in Thread \ {t} :
                 /\ call'[u].pc = call[u].pc /\ call'[u].priority = call[u].priority
                 /\ call'[u].latch # call[u].latch =>
                       /\ u = m_active_owner
                       /\ \/ /\ call'[t].pc = "waiting"
                             /\ call'[t].priority > call[u].priority
                          \/ \E v \in m_waiters : call[v].priority > call[u].priority
           /\ \E q : q \subseteq m_waiters \cup {t} /\ Queue(q)
           /\ \A v \in m_waiters \ m_waiters' :
                 \/ call[v].waited >= MaxQueueWait
                 \/ call[v].priority \notin {Mining, Reseal}
  <1> DEFINE fresh  == [Idle EXCEPT !.pc = "waiting", !.priority = p, !.latch = latch]
             b      == [call EXCEPT ![t] = fresh]
             c      == MaybePreemptActiveOwner(p, b)
             reaped == m_waiters \ Reapable
             queue  == IF Full(reaped, p) THEN reaped \ Victim(reaped, p) ELSE reaped
             q      == queue \cup {t}
             d      == RecheckDeferredPreemption(q, c)
  <1>1. /\ call[t].pc = "idle"
        /\ \/ Queue(queue) /\ UNCHANGED <<m_active_owner, held, call>>
           \/ Pass(t, q, d)
    BY DEF Enter
  <1>2. /\ queue \subseteq m_waiters
        /\ \A v \in m_waiters \ queue : \/ call[v].waited >= MaxQueueWait
                                        \/ call[v].priority \notin {Mining, Reseal}
    BY DEF Reapable, Victim
  <1> HIDE DEF queue
  <1>3. /\ fresh \in Call /\ fresh.pc = "waiting" /\ fresh.priority = p
        /\ fresh.waited = 0 /\ fresh.latch = latch /\ fresh.cancelled = FALSE
    BY Zenon DEF Idle, Call
  <1> HIDE DEF fresh
  <1>4. /\ call \in [Thread -> Call] /\ m_active_owner # t /\ t \notin m_waiters
        /\ call[t].latch = "null" /\ m_waiters \subseteq Thread
    BY <1>1 DEF Inv, CallsOK, QueueOK
  <1>5. /\ b \in [Thread -> Call] /\ b[t] = fresh
        /\ \A u \in Thread \ {t} : b[u] = call[u]
    BY <1>3, <1>4
  <1> HIDE DEF b
  <1>6. /\ SameButLatch(b, c)
        /\ c # b => m_active /\ p > b[m_active_owner].priority
    BY <1>5, MaybePreemptOnly
  <1>7. c \in [Thread -> Call]
    BY <1>6 DEF SameButLatch
  <1> HIDE DEF c
  <1>8. /\ SameButLatch(c, d)
        /\ d # c => OwnedByMining(c) /\ HasHigherPriorityWaiter(q, c, Mining)
    BY <1>7, RecheckOnly
  <1> HIDE DEF d
  <1>9. /\ d \in [Thread -> Call] /\ d[t].pc = "waiting" /\ d[t].priority = p
        /\ d[t].waited = 0 /\ d[t].latch = latch /\ d[t].cancelled = FALSE
        /\ \A u \in Thread \ {t} :
              d[u].pc = call[u].pc /\ d[u].priority = call[u].priority
    BY <1>3, <1>4, <1>5, <1>6, <1>8 DEF SameButLatch
  <1>10. ASSUME NEW u \in Thread \ {t}, d[u].latch # call[u].latch
         PROVE  /\ u = m_active_owner
                /\ \/ p > call[u].priority
                   \/ \E v \in m_waiters : call[v].priority > call[u].priority
    <2>1. u = m_active_owner
      BY <1>5, <1>6, <1>8, <1>10 DEF SameButLatch
    <2>2. CASE c # b
      BY <1>5, <1>6, <2>1, <2>2
    <2>3. CASE d # c
      <3>1. c[u].priority = Mining
        BY <1>8, <2>1, <2>3 DEF OwnedByMining
      <3>2. PICK v \in q : c[v].priority > Mining
        BY <1>8, <2>3 DEF HasHigherPriorityWaiter
      <3>3. \A w \in Thread : c[w].priority = b[w].priority
        BY <1>6 DEF SameButLatch
      <3>4. call[u].priority = Mining
        BY <1>5, <3>1, <3>3
      <3>5. CASE v = t
        BY <1>3, <1>5, <2>1, <3>2, <3>3, <3>4, <3>5
      <3>6. CASE v # t
        <4>1. v \in m_waiters /\ v \in Thread \ {t}
          BY <1>2, <1>4, <3>6
        <4>2. call[v].priority = c[v].priority
          BY <1>5, <3>3, <4>1
        <4> QED BY <2>1, <3>2, <3>4, <4>1, <4>2
      <3> QED BY <3>5, <3>6
    <2>4. CASE c = b /\ d = c
      BY <1>5, <1>10, <2>4
    <2> QED BY <2>1, <2>2, <2>3, <2>4
  <1>11. CASE Queue(queue) /\ UNCHANGED <<m_active_owner, held, call>>
    <2>1. m_waiters' = queue
      BY <1>11 DEF Queue
    <2> QED BY <1>1, <1>2, <1>4, <1>11, <2>1
  <1>12. CASE Pass(t, q, d)
    <2>1. /\ \A u \in Thread \ {t} : call'[u] = d[u]
          /\ \/ call'[t] = Idle /\ Queue(q \ {t})
             \/ /\ call'[t].pc = "holding" /\ call'[t].latch = d[t].latch
                /\ IsFirst(q, d, t) /\ ~m_active
                /\ Queue(q \ {t})
             \/ call'[t] = d[t] /\ Queue(q)
          /\ call'[t] = Idle =>
               Cancelled(d[t]) \/ t \notin q \/ d[t].waited >= MaxQueueWait
      BY <1>9, <1>12, PassOnly, Zenon
    <2>2. call'[t] # Idle
      BY <1>9, <2>1 DEF Cancelled
    <2>3. \/ /\ call'[t].pc = "holding" /\ call'[t].latch = latch /\ ~m_active
             /\ m_waiters' = q \ {t} /\ Queue(q \ {t})
          \/ call'[t] = d[t] /\ m_waiters' = q /\ Queue(q)
      BY <1>9, <2>1, <2>2 DEF Queue
    <2>4. /\ call'[t].pc \in {"waiting", "holding"} /\ call'[t].latch # "raised"
          /\ t \in m_waiters' => call'[t].pc = "waiting"
      BY <1>9, <2>3
    <2>5. \A v \in m_waiters \ m_waiters' :
            \/ call[v].waited >= MaxQueueWait
            \/ call[v].priority \notin {Mining, Reseal}
      BY <1>2, <1>4, <2>3
    <2>6. \E s : s \subseteq m_waiters \cup {t} /\ Queue(s)
      BY <1>2, <2>3
    <2>7. ASSUME NEW u \in Thread \ {t}, call'[u].latch # call[u].latch
          PROVE  /\ u = m_active_owner
                 /\ \/ /\ call'[t].pc = "waiting"
                       /\ call'[t].priority > call[u].priority
                    \/ \E v \in m_waiters : call[v].priority > call[u].priority
      <3>1. /\ u = m_active_owner
            /\ \/ p > call[u].priority
               \/ \E v \in m_waiters : call[v].priority > call[u].priority
        BY <1>10, <2>1, <2>7
      <3>2. m_active
        BY <3>1 DEF m_active
      <3>3. call'[t] = d[t]
        BY <2>3, <3>2
      <3> QED BY <1>9, <3>1, <3>3
    <2> QED BY <1>4, <1>9, <2>1, <2>4, <2>5, <2>6, <2>7
  <1> QED BY <1>1, <1>11, <1>12

(* Poll lets the caller leave, take the free device or wait on, and        *)
(* preempts only a miner in the way of a waiter above it.                  *)
LEMMA PollOnly ==
    ASSUME Inv, QueueOK, NEW t \in Thread, Poll(t)
    PROVE  /\ call[t].pc = "waiting"
           /\ call'[t].latch \in {call[t].latch, "null"}
           /\ call'[t].pc = "idle" => call'[t].latch = "null"
           /\ t \in m_waiters' => call'[t].pc = "waiting"
           /\ t \in m_waiters \ m_waiters' => call'[t].pc # "waiting"
           /\ \A u \in Thread \ {t} :
                 /\ call'[u].pc = call[u].pc /\ call'[u].priority = call[u].priority
                 /\ call'[u].latch # call[u].latch =>
                       /\ u = m_active_owner
                       /\ \E v \in m_waiters : call[v].priority > call[u].priority
           /\ \E q : q \in {m_waiters, m_waiters \ {t}} /\ Queue(q)
           /\ call'[t].pc = "holding" =>
                 \E d \in [Thread -> Call] :
                    /\ \A u \in Thread : d[u].priority = call[u].priority
                    /\ IsFirst(m_waiters, d, t)
           /\ /\ t \in m_waiters /\ call[t].priority > Mining
              /\ OwnedByMining(call) /\ held >= MinLease
              => call'[m_active_owner].latch # "clear"
  <1> DEFINE d == RecheckDeferredPreemption(m_waiters, call)
  <1>1. call[t].pc = "waiting" /\ Pass(t, m_waiters, d)
    BY DEF Poll
  <1>2. call \in [Thread -> Call] /\ m_active_owner # t /\ m_waiters \subseteq Thread
    BY <1>1 DEF Inv, CallsOK, QueueOK
  <1>3. /\ SameButLatch(call, d)
        /\ d # call => OwnedByMining(call) /\ HasHigherPriorityWaiter(m_waiters, call, Mining)
        /\ /\ OwnedByMining(call) /\ held >= MinLease
           /\ HasHigherPriorityWaiter(m_waiters, call, Mining)
           => d[m_active_owner].latch # "clear"
    BY <1>2, RecheckOnly
  <1> HIDE DEF d
  <1>4. /\ d \in [Thread -> Call] /\ d[t].latch = call[t].latch
        /\ \A u \in Thread : d[u].pc = call[u].pc /\ d[u].priority = call[u].priority
        /\ \A u \in Thread : u # m_active_owner => d[u].latch = call[u].latch
    BY <1>2, <1>3 DEF SameButLatch
  <1>5. /\ \A u \in Thread \ {t} : call'[u] = d[u]
        /\ \/ call'[t] = Idle /\ Queue(m_waiters \ {t})
           \/ /\ call'[t].pc = "holding" /\ call'[t].latch = d[t].latch
              /\ IsFirst(m_waiters, d, t) /\ ~m_active
              /\ Queue(m_waiters \ {t})
           \/ call'[t] = d[t] /\ Queue(m_waiters)
    BY <1>1, <1>4, PassOnly, Zenon
  <1>6. Idle.pc = "idle" /\ Idle.latch = "null"
    BY DEF Idle
  <1>7. \/ /\ call'[t].pc = "idle" /\ call'[t].latch = "null"
           /\ m_waiters' = m_waiters \ {t} /\ Queue(m_waiters \ {t})
        \/ /\ call'[t].pc = "holding" /\ call'[t].latch = call[t].latch
           /\ IsFirst(m_waiters, d, t)
           /\ m_waiters' = m_waiters \ {t} /\ Queue(m_waiters \ {t})
        \/ /\ call'[t].pc = "waiting" /\ call'[t].latch = call[t].latch
           /\ m_waiters' = m_waiters /\ Queue(m_waiters)
    BY <1>1, <1>4, <1>5, <1>6 DEF Queue
  <1>8. ASSUME NEW u \in Thread \ {t}, call'[u].latch # call[u].latch
        PROVE  /\ u = m_active_owner
               /\ \E v \in m_waiters : call[v].priority > call[u].priority
    <2>1. u = m_active_owner
      BY <1>4, <1>5, <1>8
    <2>2. d # call
      BY <1>5, <1>8
    <2>3. call[u].priority = Mining
      BY <1>3, <2>1, <2>2 DEF OwnedByMining
    <2>4. \E v \in m_waiters : call[v].priority > Mining
      BY <1>3, <2>2 DEF HasHigherPriorityWaiter
    <2> QED BY <2>1, <2>3, <2>4
  <1>9. ASSUME t \in m_waiters, call[t].priority > Mining,
               OwnedByMining(call), held >= MinLease
        PROVE  call'[m_active_owner].latch # "clear"
    <2>1. HasHigherPriorityWaiter(m_waiters, call, Mining)
      BY <1>9 DEF HasHigherPriorityWaiter
    <2>2. m_active_owner \in Thread \ {t}
      BY <1>2, <1>9 DEF Inv, OwnedByMining, m_active
    <2> QED BY <1>3, <1>5, <1>9, <2>1, <2>2
  <1>10. /\ call'[t].latch \in {call[t].latch, "null"}
         /\ call'[t].pc = "idle" => call'[t].latch = "null"
         /\ t \in m_waiters' => call'[t].pc = "waiting"
         /\ t \in m_waiters \ m_waiters' => call'[t].pc # "waiting"
    BY <1>7
  <1>11. \E q : q \in {m_waiters, m_waiters \ {t}} /\ Queue(q)
    BY <1>7
  <1>12. call'[t].pc = "holding" => IsFirst(m_waiters, d, t)
    BY <1>7
  <1>13. \A u \in Thread \ {t} :
           call'[u].pc = call[u].pc /\ call'[u].priority = call[u].priority
    BY <1>4, <1>5
  <1> QED BY <1>1, <1>4, <1>8, <1>9, <1>10, <1>11, <1>12, <1>13

(* The other steps leave the queue and whoever waits alone. *)
LEMMA OtherOnly ==
    ASSUME Inv, QueueOK,
           \/ \E t \in Thread : Release(t) \/ Cancel(t)
           \/ \E bytes \in Capacities : ConfigureWorkspaceCapacity(bytes)
           \/ Tick \/ UNCHANGED vars
    PROVE  /\ UNCHANGED <<m_waiters, older>>
           /\ \A u \in Thread : /\ call'[u].latch \in {call[u].latch, "null"}
                                /\ call'[u].pc \in {call[u].pc, "idle"}
                                /\ call[u].pc = "waiting" => call'[u].pc = "waiting"
                                /\ call'[u].pc = "idle" => call'[u].latch = "null"
  <1>1. call \in [Thread -> Call]
    BY DEF Inv, CallsOK
  <1>2. UNCHANGED <<m_waiters, older>>
    BY DEF Release, Cancel, ConfigureWorkspaceCapacity, Tick, vars
  <1>3. \A u \in Thread : call[u].pc = "idle" => call[u].latch = "null"
    BY DEF QueueOK
  <1>4. ASSUME NEW t \in Thread, Release(t), NEW u \in Thread
        PROVE  \/ call'[u] = call[u]
               \/ call[u].pc = "holding" /\ call'[u].pc = "idle" /\ call'[u].latch = "null"
    BY <1>1, <1>4 DEF Release, Idle
  <1>5. ASSUME NEW t \in Thread, Cancel(t), NEW u \in Thread
        PROVE  call'[u].pc = call[u].pc /\ call'[u].latch = call[u].latch
    <2> DEFINE k == [call[t] EXCEPT !.cancelled = TRUE]
    <2>1. k.pc = call[t].pc /\ k.latch = call[t].latch
      BY <1>1 DEF Call
    <2>2. call' = [call EXCEPT ![t] = k]
      BY <1>1, <1>5 DEF Cancel
    <2> HIDE DEF k
    <2> QED BY <1>1, <2>1, <2>2
  <1>6. ASSUME Tick, NEW u \in Thread
        PROVE  call'[u].pc = call[u].pc /\ call'[u].latch = call[u].latch
    BY <1>1, <1>6 DEF Tick, Call
  <1>7. CASE UNCHANGED call
    BY <1>2, <1>3, <1>7
  <1>8. CASE \E t \in Thread : Release(t)
    BY <1>2, <1>3, <1>4, <1>8
  <1>9. CASE \E t \in Thread : Cancel(t)
    BY <1>2, <1>3, <1>5, <1>9
  <1>10. CASE Tick
    BY <1>2, <1>3, <1>6, <1>10
  <1> QED BY <1>7, <1>8, <1>9, <1>10 DEF ConfigureWorkspaceCapacity, vars

(* Every step keeps the queue and its order. *)
LEMMA NextQueue == Inv /\ QueueOK /\ OrderOK /\ [Next]_vars => QueueOK' /\ OrderOK'
  <1> SUFFICES ASSUME Inv, QueueOK, OrderOK, [Next]_vars PROVE QueueOK' /\ OrderOK'
    OBVIOUS
  <1>1. ASSUME NEW t \in Thread, NEW p \in Priority, NEW latch \in {"null", "clear"},
               NEW bytes, Enter(t, p, latch, bytes)
        PROVE  QueueOK' /\ OrderOK'
    <2>1. PICK q : q \subseteq m_waiters \cup {t} /\ Queue(q)
      BY <1>1, EnterOnly
    <2>2. m_waiters' = q
      BY <2>1 DEF Queue
    <2>3. \A u \in Thread : call'[u].pc = "idle" => call'[u].latch = "null"
      <3>1. ASSUME NEW u \in Thread \ {t}, call'[u].pc = "idle"
            PROVE  call'[u].latch = "null"
        <4>1. call[u].pc = "idle" /\ call[u].latch = "null"
          BY <1>1, <3>1, EnterOnly DEF QueueOK
        <4>2. u # m_active_owner
          BY <4>1 DEF Inv, CallsOK
        <4> QED BY <1>1, <4>1, <4>2, EnterOnly
      <3> QED BY <1>1, <3>1, EnterOnly
    <2>4. \A u \in m_waiters' : call'[u].pc = "waiting"
      BY <1>1, <2>1, <2>2, EnterOnly DEF QueueOK
    <2> QED BY <2>1, <2>2, <2>3, <2>4, QueueOrder, Zenon DEF QueueOK
  <1>2. ASSUME NEW t \in Thread, Poll(t)
        PROVE  QueueOK' /\ OrderOK'
    <2>1. PICK q : q \in {m_waiters, m_waiters \ {t}} /\ Queue(q)
      BY <1>2, PollOnly
    <2>2. m_waiters' = q
      BY <2>1 DEF Queue
    <2>3. \A u \in Thread : call'[u].pc = "idle" => call'[u].latch = "null"
      <3>1. ASSUME NEW u \in Thread \ {t}, call'[u].pc = "idle"
            PROVE  call'[u].latch = "null"
        <4>1. call[u].pc = "idle" /\ call[u].latch = "null"
          BY <1>2, <3>1, PollOnly DEF QueueOK
        <4>2. u # m_active_owner
          BY <4>1 DEF Inv, CallsOK
        <4> QED BY <1>2, <4>1, <4>2, PollOnly
      <3> QED BY <1>2, <3>1, PollOnly
    <2>4. \A u \in m_waiters' : call'[u].pc = "waiting"
      BY <1>2, <2>1, <2>2, PollOnly DEF QueueOK
    <2> QED BY <2>1, <2>2, <2>3, <2>4, QueueOrder, Zenon DEF QueueOK
  <1>3. ASSUME \/ \E t \in Thread : Release(t) \/ Cancel(t)
               \/ \E bytes \in Capacities : ConfigureWorkspaceCapacity(bytes)
               \/ Tick \/ UNCHANGED vars
        PROVE  QueueOK' /\ OrderOK'
    BY <1>3, OtherOnly DEF QueueOK, OrderOK
  <1> QED BY <1>1, <1>2, <1>3 DEF Next

(* The queue holds waiting threads only, in a linear order of arrival. *)
THEOREM QueueHolds == Spec => [](QueueOK /\ OrderOK)
  <1>1. Init => QueueOK /\ OrderOK
    BY DEF Init, QueueOK, OrderOK, Idle
  <1> QED BY <1>1, NextQueue, InvariantHolds, PTL DEF Spec

(* On arrival of a request and at every re-check, only the owner's latch   *)
(* is raised, and only for a waiter of strictly higher priority.           *)
THEOREM PreemptionsJustified == Spec => PreemptedByHigherPriority
  <1> DEFINE Justified ==
        \A t \in Thread :
          call[t].latch = "clear" /\ call'[t].latch = "raised" =>
              /\ m_active_owner = t
              /\ \E u \in Thread : /\ "waiting" \in {call[u].pc, call'[u].pc}
                                   /\ \/ call[u].priority > call[t].priority
                                      \/ call'[u].priority > call[t].priority
  <1>1. Inv /\ QueueOK /\ [Next]_vars => [Justified]_vars
    <2> SUFFICES ASSUME Inv, QueueOK, Next, NEW t \in Thread,
                        call[t].latch = "clear", call'[t].latch = "raised"
                 PROVE  /\ m_active_owner = t
                        /\ \E u \in Thread :
                              /\ "waiting" \in {call[u].pc, call'[u].pc}
                              /\ \/ call[u].priority > call[t].priority
                                 \/ call'[u].priority > call[t].priority
      OBVIOUS
    <2>1. \A v \in m_waiters : v \in Thread /\ call[v].pc = "waiting"
      BY DEF QueueOK
    <2>2. CASE \E s \in Thread, p \in Priority, latch \in {"null", "clear"},
                  bytes \in Requests : Enter(s, p, latch, bytes)
      BY <2>1, <2>2, EnterOnly
    <2>3. CASE \E s \in Thread : Poll(s)
      BY <2>1, <2>3, PollOnly
    <2>4. CASE \/ \E s \in Thread : Release(s) \/ Cancel(s)
               \/ \E bytes \in Capacities : ConfigureWorkspaceCapacity(bytes)
               \/ Tick
      BY <2>4, OtherOnly
    <2> QED BY <2>2, <2>3, <2>4 DEF Next
  <1> QED BY <1>1, InvariantHolds, QueueHolds, PTL DEF Spec, PreemptedByHigherPriority

(* Neither reaping nor displacement by a flood of other requests takes a   *)
(* mining or reseal waiter out of the queue before its deadline.           *)
THEOREM ReservedLanesKept == Spec => ReservedLanesNotStolen
  <1> DEFINE Kept ==
        \A t \in m_waiters :
          /\ call[t].priority \in {Mining, Reseal}
          /\ t \notin m_waiters'
          => call'[t].pc # "waiting" \/ call[t].waited >= MaxQueueWait
  <1>1. Inv /\ QueueOK /\ [Next]_vars => [Kept]_vars
    <2> SUFFICES ASSUME Inv, QueueOK, Next, NEW t \in m_waiters,
                        call[t].priority \in {Mining, Reseal}, t \notin m_waiters'
                 PROVE  call'[t].pc # "waiting" \/ call[t].waited >= MaxQueueWait
      OBVIOUS
    <2>1. ASSUME NEW s \in Thread, NEW p \in Priority, NEW latch \in {"null", "clear"},
                 NEW bytes, Enter(s, p, latch, bytes)
          PROVE  call[t].waited >= MaxQueueWait
      BY <2>1, EnterOnly
    <2>2. ASSUME NEW s \in Thread, Poll(s) PROVE call'[t].pc # "waiting"
      <3>1. m_waiters' \in {m_waiters, m_waiters \ {s}}
        BY <2>2, PollOnly DEF Queue
      <3>2. t = s
        BY <3>1
      <3> QED BY <2>2, <3>2, PollOnly
    <2>3. CASE \/ \E s \in Thread : Release(s) \/ Cancel(s)
               \/ \E bytes \in Capacities : ConfigureWorkspaceCapacity(bytes)
               \/ Tick
      BY <2>3, OtherOnly
    <2> QED BY <2>1, <2>2, <2>3 DEF Next
  <1> QED BY <1>1, InvariantHolds, QueueHolds, PTL DEF Spec, ReservedLanesNotStolen

(* A waiter never takes the device while an older one of its lane is       *)
(* queued, whether or not the anti-starvation rule applies to it.          *)
THEOREM GrantsInOrder == Spec => FifoWithinLane
  <1> DEFINE Ordered ==
        \A t, u \in m_waiters :
          Before(t, u) /\ call[t].priority = call[u].priority =>
              ~(call[u].pc = "waiting" /\ call'[u].pc = "holding")
  <1>1. Inv /\ QueueOK /\ OrderOK /\ [Next]_vars => [Ordered]_vars
    <2> SUFFICES ASSUME Inv, QueueOK, OrderOK, Next, NEW t \in m_waiters,
                        NEW u \in m_waiters, Before(t, u),
                        call[t].priority = call[u].priority,
                        call[u].pc = "waiting", call'[u].pc = "holding"
                 PROVE  FALSE
      OBVIOUS
    <2>1. t \in Thread /\ u \in Thread /\ t # u
      BY DEF QueueOK, OrderOK, Before
    <2>2. ASSUME NEW s \in Thread, NEW p \in Priority, NEW latch \in {"null", "clear"},
                 NEW bytes, Enter(s, p, latch, bytes)
          PROVE  FALSE
      BY <2>1, <2>2, EnterOnly
    <2>3. ASSUME NEW s \in Thread, Poll(s) PROVE FALSE
      <3>1. s = u
        BY <2>1, <2>3, PollOnly
      <3>2. PICK d \in [Thread -> Call] :
              /\ \A v \in Thread : d[v].priority = call[v].priority
              /\ IsFirst(m_waiters, d, u)
        BY <2>3, <3>1, PollOnly
      <3>3. t \in m_waiters \ {u} /\ d[t].priority = d[u].priority
        BY <2>1, <3>2
      <3>4. CASE MiningStarved(d, u)
        BY <3>2, <3>3, <3>4 DEF IsFirst, MiningStarved
      <3>5. CASE ~MiningStarved(d, u)
        BY <3>2, <3>3, <3>5 DEF IsFirst
      <3> QED BY <3>4, <3>5
    <2>4. CASE \/ \E s \in Thread : Release(s) \/ Cancel(s)
               \/ \E bytes \in Capacities : ConfigureWorkspaceCapacity(bytes)
               \/ Tick
      BY <2>1, <2>4, OtherOnly
    <2> QED BY <2>2, <2>3, <2>4 DEF Next
  <1> QED BY <1>1, InvariantHolds, QueueHolds, PTL DEF Spec, FifoWithinLane

(* A waiter above mining that gives up behind a miner past its quantum     *)
(* leaves a latch that is raised, or that the miner never passed.          *)
THEOREM DeferredPreemptionKept == Spec => TimeoutImpliesPreempted
  <1> DEFINE Asked ==
        \A t \in m_waiters :
          /\ t \notin m_waiters' /\ call'[t].pc = "idle"
          /\ ~Cancelled(call[t]) /\ call[t].priority > Mining
          /\ OwnedByMining(call) /\ held >= MinLease
          => call'[m_active_owner].latch # "clear"
  <1>1. Inv /\ QueueOK /\ [Next]_vars => [Asked]_vars
    <2> SUFFICES ASSUME Inv, QueueOK, Next, NEW t \in m_waiters,
                        t \notin m_waiters', call'[t].pc = "idle",
                        call[t].priority > Mining,
                        OwnedByMining(call), held >= MinLease
                 PROVE  call'[m_active_owner].latch # "clear"
      OBVIOUS
    <2>1. t \in Thread /\ call[t].pc = "waiting"
      BY DEF QueueOK
    <2>2. ASSUME NEW s \in Thread, NEW p \in Priority, NEW latch \in {"null", "clear"},
                 NEW bytes, Enter(s, p, latch, bytes)
          PROVE  FALSE
      BY <2>1, <2>2, EnterOnly
    <2>3. ASSUME NEW s \in Thread, Poll(s)
          PROVE  call'[m_active_owner].latch # "clear"
      <3>1. s = t
        BY <2>1, <2>3, PollOnly
      <3> QED BY <2>3, <3>1, PollOnly
    <2>4. CASE \/ \E s \in Thread : Release(s) \/ Cancel(s)
               \/ \E bytes \in Capacities : ConfigureWorkspaceCapacity(bytes)
               \/ Tick
      BY <2>4, OtherOnly
    <2> QED BY <2>2, <2>3, <2>4 DEF Next
  <1> QED BY <1>1, InvariantHolds, QueueHolds, PTL DEF Spec, TimeoutImpliesPreempted
=============================================================================
