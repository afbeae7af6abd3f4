----------------------- MODULE RCAcceleratorScheduler -----------------------
(***************************************************************************)
(* matmul::v4::rc::RCAcceleratorScheduler, the process-wide owner of the   *)
(* single ExactReplay device.  Threads call Acquire, wait in a bounded     *)
(* four-lane queue, hold the lease while they replay, and release it.      *)
(*                                                                         *)
(* Acquire is two kinds of action: Enter is its first critical section     *)
(* (reap, displace, reject or enqueue, preempt, and the first pass of the  *)
(* wait loop) and Poll is every later pass, after a wait on m_cv.  The     *)
(* unlock around the degraded-mode log line falls where the first pass     *)
(* could only have decided to wait, and is not a step of its own.          *)
(*                                                                         *)
(* m_waiters holds the threads that wait, and older the pairs of them      *)
(* whose Waiters' sequence numbers are in that order.  Times are ages: how *)
(* long a call has waited and how long the lease has been held.            *)
(***************************************************************************)
EXTENDS Naturals, FiniteSets

CONSTANTS
    Thread,             \* the threads that use the device
    NoThread,           \* nobody owns the device
    MaxWaitersPerLane,  \* MAX_WAITERS_PER_LANE
    MaxQueueWait,       \* DEFAULT_MAX_QUEUE_WAIT, what every caller passes
    MinLease,           \* CandidateMiningMinLeaseQuantum
    AntiStarve,         \* CandidateMiningAntiStarveQuantum
    Requests,           \* workspace_request_bytes of the calls
    Capacities          \* capacities the provider may report, 0 if unknown

Speculative == 0
Mining      == 1
Reseal      == 2
Tip         == 3
Priority    == Speculative..Tip

ASSUME SchedulerAssumption ==
    /\ NoThread \notin Thread
    /\ MaxWaitersPerLane \in [Priority -> Nat]
    /\ MaxQueueWait \in Nat \ {0} /\ {MinLease, AntiStarve} \subseteq Nat
    /\ Requests \subseteq Nat /\ Capacities \subseteq Nat /\ 0 \in Capacities

VARIABLES
    m_waiters,          \* the threads in the queue
    older,              \* the order of their sequence numbers
    m_active_owner,     \* m_active and m_active_owner_thread
    held,               \* now - m_active_started, counted up to MinLease
    call,               \* the local state of each thread's Acquire call
    m_workspace_capacity_bytes

vars == <<m_waiters, older, m_active_owner, held, call, m_workspace_capacity_bytes>>

(* latch is the preempt latch the call passed ("null" for a protected body *)
(* replay); cancelled is any cancellation by the caller itself.            *)
Call == [pc        : {"idle", "waiting", "holding"},
         priority  : Priority,
         waited    : Nat,
         latch     : {"null", "clear", "raised"},
         cancelled : BOOLEAN]

Idle == [pc |-> "idle", priority |-> Speculative, waited |-> 0,
         latch |-> "null", cancelled |-> FALSE]

(* The queue, the owner and the calls keep their types. *)
TypeOK ==
    /\ m_waiters \subseteq Thread
    /\ older \subseteq m_waiters \X m_waiters
    /\ m_active_owner \in Thread \cup {NoThread}
    /\ held \in Nat
    /\ call \in [Thread -> Call]
    /\ m_workspace_capacity_bytes \in Capacities

Init ==
    /\ m_waiters = {}
    /\ older = {}
    /\ m_active_owner = NoThread
    /\ held = 0
    /\ call = [t \in Thread |-> Idle]
    /\ m_workspace_capacity_bytes = 0

-----------------------------------------------------------------------------
(* Below, q is the queue and c the calls of all threads, both possibly in    *)
(* the middle of a critical section.                                       *)

m_active == m_active_owner # NoThread

(* Did t queue before u?  A thread that is only about to queue is last. *)
Before(t, u) == <<t, u>> \in older \/ u \notin m_waiters

(* The queue becomes q, which holds at most one new thread. *)
Queue(q) ==
    /\ m_waiters' = q
    /\ older' = {x \in q \X q : x[1] # x[2] /\ Before(x[1], x[2])}

InLane(q, p) == {t \in q : call[t].priority = p}

MiningStarved(c, t) ==
    /\ c[t].priority = Mining
    /\ AntiStarve > 0
    /\ c[t].waited >= AntiStarve

(* Mutant of IsFirst: arrival order within a lane is ignored. *)
IsFirstUnordered(q, c, t) ==
    /\ c[t].priority = Reseal \/ \A u \in q \ {t} : ~MiningStarved(c, u)
    /\ \A u \in q \ {t} : c[u].priority <= c[t].priority

(* IsFirst: may waiter t take the free device? *)
IsFirst(q, c, t) ==
    LET others == q \ {t}
    IN  IF MiningStarved(c, t)
        THEN \A u \in others :
                /\ c[u].priority # Reseal
                /\ ~(c[u].priority = Mining /\ Before(u, t))
        ELSE /\ c[t].priority = Reseal \/ \A u \in others : ~MiningStarved(c, u)
             /\ \A u \in others :
                   /\ c[u].priority <= c[t].priority
                   /\ ~(c[u].priority = c[t].priority /\ Before(u, t))

HasHigherPriorityWaiter(q, c, p) == \E t \in q : c[t].priority > p

(* The calls once the active owner's preempt latch, if any, is raised. *)
RaiseLatch(c) ==
    IF c[m_active_owner].latch = "clear"
    THEN [c EXCEPT ![m_active_owner].latch = "raised"]
    ELSE c

OwnedByMining(c) == m_active /\ c[m_active_owner].priority = Mining

(* Mutant of MaybePreemptActiveOwner: no minimum lease for mining. *)
PreemptWithoutQuantum(p, c) ==
    IF m_active /\ p > c[m_active_owner].priority THEN RaiseLatch(c) ELSE c

(* Mutant of MaybePreemptActiveOwner: equals preempt each other. *)
PreemptEquals(p, c) ==
    IF /\ m_active
       /\ p >= c[m_active_owner].priority
       /\ ~(OwnedByMining(c) /\ held < MinLease)
    THEN RaiseLatch(c) ELSE c

(* MaybePreemptActiveOwner: a requester of priority p asks for the device. *)
MaybePreemptActiveOwner(p, c) ==
    IF /\ m_active
       /\ p > c[m_active_owner].priority
       /\ ~(OwnedByMining(c) /\ MinLease > 0 /\ held < MinLease)
    THEN RaiseLatch(c)
    ELSE c

(* Mutant of RecheckDeferredPreemption: a deferred preemption is forgotten. *)
NoRecheck(q, c) == c

(* The re-check at the head of the wait loop. *)
RecheckDeferredPreemption(q, c) ==
    IF OwnedByMining(c) /\ HasHigherPriorityWaiter(q, c, Mining) /\ held >= MinLease
    THEN RaiseLatch(c)
    ELSE c

Cancelled(k) == k.cancelled \/ k.latch = "raised"

(* Acquire returns without a lease. *)
Leave(t, q, c) ==
    /\ Queue(q \ {t})
    /\ call' = [c EXCEPT ![t] = Idle]
    /\ UNCHANGED <<m_active_owner, held>>

(* Acquire grants t the lease. *)
Take(t, q, c) ==
    /\ Queue(q \ {t})
    /\ m_active_owner' = t
    /\ held' = 0
    /\ call' = [c EXCEPT ![t].pc = "holding", ![t].waited = 0]

(* The waiter sleeps on the condition variable. *)
KeepWaiting(q, c) ==
    /\ Queue(q)
    /\ call' = c
    /\ UNCHANGED <<m_active_owner, held>>

(* Mutant of Pass: the device is taken without a look at m_active. *)
PassBarging(t, q, c) ==
    IF t \in q /\ IsFirst(q, c, t) THEN Take(t, q, c) ELSE KeepWaiting(q, c)

(* Mutant of Pass: a waiter has no deadline. *)
PassWithoutDeadline(t, q, c) ==
    IF Cancelled(c[t]) \/ t \notin q THEN Leave(t, q, c)
    ELSE IF ~m_active /\ IsFirst(q, c, t) THEN Take(t, q, c)
    ELSE KeepWaiting(q, c)

(* One pass of the wait loop of thread t, after the re-check: give up when *)
(* cancelled, or reaped or displaced by another call; take the free device *)
(* when first; give up at the deadline; otherwise wait.                    *)
Pass(t, q, c) ==
    LET gone == Cancelled(c[t]) \/ t \notin q
        turn == ~m_active /\ IsFirst(q, c, t)
        late == c[t].waited >= MaxQueueWait
    IN  \/ /\ gone \/ (~turn /\ late)
           /\ Leave(t, q, c)
        \/ /\ ~gone /\ turn
           /\ Take(t, q, c)
        \/ /\ ~gone /\ ~turn /\ ~late
           /\ KeepWaiting(q, c)

Reapable == {t \in m_waiters : call[t].waited >= MaxQueueWait}

(* Mutant of Victim: mining waiters can be displaced by a tip flood. *)
VictimMining(q, p) ==
    LET eligible == {t \in q : call[t].priority # Reseal /\ call[t].priority <= p}
    IN  {t \in eligible :
            /\ \A u \in eligible \ {t} : Before(t, u)
            /\ call[t].priority < p \/ p = Tip}

(* The waiter a full lane of priority p gives up: the oldest one that is   *)
(* neither reseal nor mining and does not outrank p, if displacing it is   *)
(* allowed.  The result is a set with at most one thread.                  *)
Victim(q, p) ==
    LET prio(t)  == call[t].priority
        eligible == {t \in q :
                        /\ prio(t) \notin {Reseal, Mining}
                        /\ prio(t) <= p \/ (p = Mining /\ prio(t) = Tip)}
    IN  {t \in eligible :
            /\ \A u \in eligible \ {t} : Before(t, u)
            /\ prio(t) < p \/ p = Tip \/ (p = Mining /\ prio(t) = Tip)}

(* Is the lane of priority p at its limit?  The limits of the lanes add up *)
(* to MAX_TOTAL_WAITERS, so this decides the code's test of the total too. *)
Full(q, p) == Cardinality(InLane(q, p)) >= MaxWaitersPerLane[p]

ExceedsCapacity(bytes) ==
    /\ bytes # 0
    /\ m_workspace_capacity_bytes # 0
    /\ bytes > m_workspace_capacity_bytes

(* Acquire up to its first wait. *)
Enter(t, p, latch, bytes) ==
    LET reaped == m_waiters \ Reapable
        queue  == IF Full(reaped, p) THEN reaped \ Victim(reaped, p) ELSE reaped
        c      == MaybePreemptActiveOwner(p,
                      [call EXCEPT ![t] = [Idle EXCEPT !.pc = "waiting",
                                              !.priority = p, !.latch = latch]])
        q      == queue \cup {t}
    IN  /\ call[t].pc = "idle"
        /\ \/ /\ Full(queue, p) \/ ExceedsCapacity(bytes)
              /\ Queue(queue)
              /\ UNCHANGED <<m_active_owner, held, call>>
           \/ /\ ~Full(queue, p) /\ ~ExceedsCapacity(bytes)
              /\ Pass(t, q, RecheckDeferredPreemption(q, c))
        /\ UNCHANGED m_workspace_capacity_bytes

(* A later pass of the wait loop. *)
Poll(t) ==
    /\ call[t].pc = "waiting"
    /\ Pass(t, m_waiters, RecheckDeferredPreemption(m_waiters, call))
    /\ UNCHANGED m_workspace_capacity_bytes

(* Release by the thread the lease was granted to. *)
Release(t) ==
    /\ call[t].pc = "holding"
    /\ m_active_owner' = NoThread
    /\ held' = 0
    /\ call' = [call EXCEPT ![t] = Idle]
    /\ UNCHANGED <<m_waiters, older, m_workspace_capacity_bytes>>

(* The caller cancels its own call. *)
Cancel(t) ==
    /\ call[t].pc # "idle"
    /\ call[t].latch # "null"
    /\ call' = [call EXCEPT ![t].cancelled = TRUE]
    /\ UNCHANGED <<m_waiters, older, m_active_owner, held, m_workspace_capacity_bytes>>

(* The provider's probe publishes the usable workspace. *)
ConfigureWorkspaceCapacity(bytes) ==
    /\ m_workspace_capacity_bytes' = bytes
    /\ UNCHANGED <<m_waiters, older, m_active_owner, held, call>>

(* Waiting times beyond both limits are alike. *)
WaitCap == IF AntiStarve > MaxQueueWait THEN AntiStarve ELSE MaxQueueWait

Tick ==
    /\ held' = IF m_active /\ held < MinLease THEN held + 1 ELSE held
    /\ call' = [t \in Thread |->
           IF call[t].pc = "waiting" /\ call[t].waited < WaitCap
           THEN [call[t] EXCEPT !.waited = @ + 1] ELSE call[t]]
    /\ UNCHANGED <<m_waiters, older, m_active_owner, m_workspace_capacity_bytes>>

Next ==
    \/ \E t \in Thread :
          \/ \E p \in Priority, latch \in {"null", "clear"}, bytes \in Requests :
                Enter(t, p, latch, bytes)
          \/ Poll(t)
          \/ Release(t)
          \/ Cancel(t)
    \/ \E bytes \in Capacities : ConfigureWorkspaceCapacity(bytes)
    \/ Tick

Spec == Init /\ [][Next]_vars

(* Waiters poll at least every 25 ms and the clock runs.  Nothing is       *)
(* assumed of the owner: it may replay for ever.                           *)
FairSpec ==
    /\ Spec
    /\ WF_vars(Tick)
    /\ \A t \in Thread : WF_vars(Poll(t))

-----------------------------------------------------------------------------
(* Properties.                                                             *)

(* The lease is exclusive and its record is exact: a thread believes it    *)
(* holds the device iff the scheduler says so, hence no Release ever meets *)
(* the "lease identity mismatch" assertion.                                *)
HolderIsOwner ==
    \A t \in Thread : call[t].pc = "holding" <=> m_active_owner = t

(* An active CandidateMining lease is not preempted before its minimum     *)
(* quantum, neither on arrival of a request nor by a waiter's re-check.    *)
MiningKeepsMinLease ==
    OwnedByMining(call) /\ call[m_active_owner].latch = "raised" => held >= MinLease

(* Only a waiter of strictly higher priority preempts the owner, and only  *)
(* the owner is preempted.                                                 *)
PreemptedByHigherPriority ==
    [][\A t \in Thread :
          call[t].latch = "clear" /\ call'[t].latch = "raised" =>
              /\ m_active_owner = t
              /\ \E u \in Thread : /\ "waiting" \in {call[u].pc, call'[u].pc}
                                   /\ \/ call[u].priority > call[t].priority
                                      \/ call'[u].priority > call[t].priority]_vars

(* The reserved lanes are not stolen: a mining or reseal waiter leaves the *)
(* queue by its own step or because its deadline has passed, never because *)
(* of another request.                                                     *)
ReservedLanesNotStolen ==
    [][\A t \in m_waiters :
          /\ call[t].priority \in {Mining, Reseal}
          /\ t \notin m_waiters'
          => call'[t].pc # "waiting" \/ call[t].waited >= MaxQueueWait]_vars

(* Within a lane the device is granted in order of arrival. *)
FifoWithinLane ==
    [][\A t, u \in m_waiters :
          Before(t, u) /\ call[t].priority = call[u].priority =>
              ~(call[u].pc = "waiting" /\ call'[u].pc = "holding")]_vars

(* A validation or reseal that times out behind a mining lease has had the *)
(* miner asked to yield: the deferred preemption was not forgotten.  This   *)
(* is of a waiter that gives up in its own pass, not of one that another   *)
(* thread's Acquire reaps first.                                           *)
TimeoutImpliesPreempted ==
    [][\A t \in m_waiters :
          /\ t \notin m_waiters' /\ call'[t].pc = "idle"
          /\ ~Cancelled(call[t]) /\ call[t].priority > Mining
          /\ OwnedByMining(call) /\ held >= MinLease
          => call'[m_active_owner].latch # "clear"]_vars

(* No call of Acquire waits for ever, even if the owner never releases and *)
(* waiters block each other: every waiter gets the device or gives up.     *)
AcquireReturns ==
    \A t \in Thread : []<>(call[t].pc # "waiting")

(* A starved mining waiter takes the next free turn, unless a winner       *)
(* reseal, which still outranks it, does: when one is queued and the       *)
(* device is free, some such waiter is first.                              *)
StarvedMiningTakesFreeTurn ==
    ~m_active /\ (\E t \in m_waiters : MiningStarved(call, t)) =>
        \E t \in m_waiters :
            /\ MiningStarved(call, t) \/ call[t].priority = Reseal
            /\ IsFirst(m_waiters, call, t)
=============================================================================
