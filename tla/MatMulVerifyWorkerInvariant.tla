-------------------- MODULE MatMulVerifyWorkerInvariant --------------------
(***************************************************************************)
(* The inductive invariant of MatMulVerifyWorker, the proof that every     *)
(* step preserves it, for every number of threads, hashes and requests,    *)
(* and what a step may do to a job.                                        *)
(***************************************************************************)
EXTENDS MatMulVerifyWorker, TLAPS

(* A thread at one of these steps holds the job it took from the queue. *)
Busy == {"start", "acquire", "trusted", "replay", "park", "complete"}

Types ==
    /\ req \in [Request -> Answers]
    /\ job \in [Request -> Job]
    /\ m_queue \subseteq Request
    /\ m_pending \in [Hash -> Request \cup {None}]
    /\ m_awaiting_quorum \subseteq Hash
    /\ m_next_sequence \in Nat
    /\ orphaned \subseteq Request
    /\ worker \in [Worker -> Local]
    /\ memo \in [Hash -> {"none", "valid", "invalid"}]

(* A job is registered under its own hash. *)
PendingOK ==
    \A h \in Hash : m_pending[h] # None =>
        /\ job[m_pending[h]].hash = h
        /\ m_pending[h] < m_next_sequence

(* What waits in the queue is registered, and no thread runs it. *)
QueueOK ==
    \A p \in m_queue : /\ job[p].hash \in Hash
                       /\ m_pending[job[p].hash] = p
                       /\ ~job[p].running

(* So is what is parked, and it is not queued as well. *)
ParkedOK ==
    \A h \in m_awaiting_quorum : /\ m_pending[h] # None
                                 /\ ~job[m_pending[h]].running
                                 /\ m_pending[h] \notin m_queue

(* A busy thread runs the registered job of its hash, *)
HeldOK ==
    \A w \in Worker : worker[w].pc \in Busy =>
        /\ worker[w].pending \in Request
        /\ worker[w].hash \in Hash
        /\ m_pending[worker[w].hash] = worker[w].pending
        /\ job[worker[w].pending].running

(* alone. *)
HeldOnce ==
    \A v, w \in Worker :
        /\ worker[v].pc \in Busy /\ worker[w].pc \in Busy
        /\ worker[v].hash = worker[w].hash
        => v = w

(* A registered job is somewhere. *)
Placed ==
    \A h \in Hash : m_pending[h] # None =>
        \/ m_pending[h] \in m_queue
        \/ h \in m_awaiting_quorum
        \/ \E w \in Worker : worker[w].pc \in Busy /\ worker[w].hash = h

(* Neither an expired job nor one that Stop took is registered. *)
Unregistered(p) == p < m_next_sequence /\ \A h \in Hash : m_pending[h] # p

GoneOK ==
    /\ \A p \in orphaned : Unregistered(p)
    /\ \A w \in Worker : \A p \in worker[w].expired : Unregistered(p)

(* The locals of a thread. *)
LocalOK ==
    \A w \in Worker :
        LET l == worker[w]
        IN  /\ l.pc \notin Busy \cup {"recheck"} => l.pending = None
            /\ l.failure # "none" => l.pc = "complete"
            /\ l.pc = "complete" /\ l.failure = "none" /\ l.ok => l.hash \in Valid
            /\ l.failure = "cancelled" /\ l.protect_body_replay => l.shutting_down

(* Attestations and memos are sound, and no wake-up is lost. *)
QuorumOK ==
    /\ quorum \subseteq Valid /\ notifying \subseteq quorum
    /\ \A h \in Hash : memo[h] = "valid" => h \in Valid
    /\ NoLostQuorum

(* A request hangs on one job only. *)
OwnersOK ==
    \A p \in Request :
        /\ job[p].hash = None => job[p] = NoJob
        /\ job[p].hash # None => p < m_next_sequence
        /\ \A r \in job[p].followers :
              /\ r < m_next_sequence
              /\ job[r].hash = None
              /\ \A q \in Request : r \in job[q].followers => q = p

Inv ==
    /\ Types /\ PendingOK /\ QueueOK /\ ParkedOK /\ HeldOK /\ HeldOnce
    /\ Placed /\ GoneOK /\ LocalOK /\ QuorumOK /\ OwnersOK

USE WorkerAssumption DEF Request

-----------------------------------------------------------------------------
(* Lemmas about the records of the model.                                  *)

(* A thread at pc with no job. *)
LEMMA AtFacts ==
    ASSUME NEW pc \in Step
    PROVE  /\ At(pc) \in Local
           /\ At(pc).pc = pc /\ At(pc).pending = None /\ At(pc).hash = None
           /\ At(pc).failure = "none" /\ At(pc).expired = {}
  BY Zenon DEF At, Local

(* A destroyed job. *)
LEMMA NoJobFacts ==
    /\ NoJob \in Job
    /\ NoJob.hash = None /\ NoJob.running = FALSE /\ NoJob.followers = {}
  BY Zenon DEF NoJob, Job, Priority, Background

(* Raising a latch changes nothing else of a job. *)
LEMMA CancelledFacts ==
    ASSUME NEW j \in Job
    PROVE  LET k == [j EXCEPT !.cancelled = TRUE]
           IN  /\ k \in Job /\ k.hash = j.hash /\ k.running = j.running
               /\ k.followers = j.followers /\ k.block = j.block
               /\ k.rc_pending_lease = j.rc_pending_lease
  BY Zenon DEF Job

(* The steps of a busy thread. *)
LEMMA BusySteps ==
    /\ Busy \subseteq Step
    /\ {"none", "loop", "expire", "take", "recheck", "exit"} \cap Busy = {}
    /\ {"none", "loop", "expire", "take", "recheck", "exit"} \subseteq Step
    /\ \A pc \in Busy : pc # "recheck"
  BY Zenon DEF Busy, Step

-----------------------------------------------------------------------------
(* Lemmas about steps that change little.  Each proves the conjuncts of    *)
(* the invariant that such a step cannot disturb.                          *)

(* Where the jobs are. *)
Places == PendingOK /\ QueueOK /\ ParkedOK /\ HeldOK /\ HeldOnce /\ Placed /\ GoneOK

(* No job moves: the pool and the jobs' hashes stay, and every thread is   *)
(* as busy as it was, with the same job.                                   *)
LEMMA PlacesSame ==
    ASSUME Inv, Types',
           UNCHANGED <<m_pending, m_queue, m_awaiting_quorum, orphaned>>,
           m_next_sequence <= m_next_sequence',
           \A p \in Request : /\ job'[p].hash = job[p].hash
                              /\ job'[p].running = job[p].running,
           \A v \in Worker :
              /\ worker'[v].pc \in Busy <=> worker[v].pc \in Busy
              /\ worker'[v].pc \in Busy => /\ worker'[v].pending = worker[v].pending
                                           /\ worker'[v].hash = worker[v].hash
              /\ worker'[v].expired \subseteq worker[v].expired
    PROVE  Places'
  <1>0. /\ m_next_sequence \in Nat /\ m_next_sequence' \in Nat
        /\ m_pending \in [Hash -> Request \cup {None}]
        /\ m_queue \subseteq Request /\ m_awaiting_quorum \subseteq Hash
        /\ orphaned \subseteq Request
        /\ \A v \in Worker : worker[v].expired \subseteq Request
    BY Zenon DEF Inv, Types, Local
  <1>1. PendingOK'
    BY <1>0 DEF Inv, PendingOK
  <1>2. QueueOK'
    BY <1>0, Zenon DEF Inv, QueueOK
  <1>3. ParkedOK'
    BY <1>0 DEF Inv, ParkedOK
  <1>4. HeldOK'
    BY <1>0, Zenon DEF Inv, HeldOK
  <1>5. HeldOnce'
    BY Zenon DEF Inv, HeldOnce
  <1>6. Placed'
    BY <1>0 DEF Inv, Placed
  <1>7. GoneOK'
    BY <1>0 DEF Inv, GoneOK, Unregistered
  <1> QED BY <1>1, <1>2, <1>3, <1>4, <1>5, <1>6, <1>7, Zenon DEF Places

(* Jobs are unregistered and leave the place they were in; the others stay *)
(* where they are.                                                         *)
LEMMA PlacesShrink ==
    ASSUME Inv, Types', UNCHANGED m_next_sequence,
           \A k \in Hash : m_pending'[k] \in {m_pending[k], None},
           \A q \in Request :
              \/ /\ job'[q].hash = job[q].hash
                 /\ job'[q].running = job[q].running
              \/ \A k \in Hash : m_pending'[k] # q,
           \A q \in m_queue' : q \in m_queue /\ m_pending'[job[q].hash] = q,
           \A k \in m_awaiting_quorum' : /\ k \in m_awaiting_quorum
                                        /\ m_pending'[k] = m_pending[k],
           \A v \in Worker : worker'[v].pc \in Busy =>
              /\ worker[v].pc \in Busy
              /\ worker'[v].pending = worker[v].pending
              /\ worker'[v].hash = worker[v].hash
              /\ m_pending'[worker[v].hash] = worker[v].pending,
           \A k \in Hash : m_pending'[k] # None =>
              /\ m_pending[k] \in m_queue => m_pending[k] \in m_queue'
              /\ k \in m_awaiting_quorum => k \in m_awaiting_quorum'
              /\ \A v \in Worker : worker[v].pc \in Busy /\ worker[v].hash = k =>
                    worker'[v].pc \in Busy,
           \A q \in orphaned' : q \in orphaned \/ Unregistered(q)',
           \A v \in Worker : \A q \in worker'[v].expired :
              q \in worker[v].expired \/ Unregistered(q)'
    PROVE  Places'
  <1>0. /\ m_next_sequence \in Nat
        /\ m_pending \in [Hash -> Request \cup {None}]
        /\ m_pending' \in [Hash -> Request \cup {None}]
        /\ m_queue \subseteq Request /\ m_awaiting_quorum \subseteq Hash
        /\ orphaned \subseteq Request
        /\ \A v \in Worker : worker[v].expired \subseteq Request
    BY Zenon DEF Inv, Types, Local
  <1>1. PendingOK'
    BY <1>0 DEF Inv, PendingOK
  <1>2. QueueOK'
    <2> SUFFICES ASSUME NEW q \in m_queue'
                 PROVE  /\ job'[q].hash \in Hash /\ m_pending'[job'[q].hash] = q
                        /\ ~job'[q].running
      BY Zenon DEF QueueOK
    <2>1. q \in m_queue /\ q \in Request /\ m_pending'[job[q].hash] = q
      BY <1>0, Zenon
    <2>2. job[q].hash \in Hash /\ ~job[q].running
      BY <2>1, Zenon DEF Inv, QueueOK
    <2> QED BY <2>1, <2>2, ZenonT(30)
  <1>3. ParkedOK'
    <2> SUFFICES ASSUME NEW k \in m_awaiting_quorum'
                 PROVE  /\ m_pending'[k] # None /\ ~job'[m_pending'[k]].running
                        /\ m_pending'[k] \notin m_queue'
      BY Zenon DEF ParkedOK
    <2>1. k \in m_awaiting_quorum /\ k \in Hash /\ m_pending'[k] = m_pending[k]
      BY <1>0, Zenon
    <2>2. /\ m_pending[k] # None /\ ~job[m_pending[k]].running
          /\ m_pending[k] \notin m_queue
      BY <2>1, Zenon DEF Inv, ParkedOK
    <2> QED BY <2>1, <2>2, <1>0
  <1>4. HeldOK'
    <2> SUFFICES ASSUME NEW v \in Worker, worker'[v].pc \in Busy
                 PROVE  /\ worker'[v].pending \in Request /\ worker'[v].hash \in Hash
                        /\ m_pending'[worker'[v].hash] = worker'[v].pending
                        /\ job'[worker'[v].pending].running
      BY Zenon DEF HeldOK
    <2>1. /\ worker[v].pending \in Request /\ worker[v].hash \in Hash
          /\ job[worker[v].pending].running
      BY Zenon DEF Inv, HeldOK
    <2> QED BY <2>1
  <1>5. HeldOnce'
    BY Zenon DEF Inv, HeldOnce
  <1>6. Placed'
    <2> SUFFICES ASSUME NEW k \in Hash, m_pending'[k] # None
                 PROVE  \/ m_pending'[k] \in m_queue'
                        \/ k \in m_awaiting_quorum'
                        \/ \E v \in Worker : worker'[v].pc \in Busy
                                             /\ worker'[v].hash = k
      BY Zenon DEF Placed
    <2>1. m_pending'[k] = m_pending[k]
      BY Zenon
    <2> QED BY <2>1 DEF Inv, Placed
  <1>7. GoneOK'
    <2>1. \A q \in Request : Unregistered(q) => Unregistered(q)'
      BY <1>0 DEF Unregistered
    <2>2. \A q \in orphaned : Unregistered(q)
      BY Zenon DEF Inv, GoneOK
    <2>3. \A v \in Worker : \A q \in worker[v].expired : Unregistered(q)
      BY Zenon DEF Inv, GoneOK
    <2> QED BY <1>0, <2>1, <2>2, <2>3, Zenon DEF GoneOK
  <1> QED BY <1>1, <1>2, <1>3, <1>4, <1>5, <1>6, <1>7, Zenon DEF Places

(* No request changes its job: jobs keep their hash and followers, or go. *)
LEMMA OwnersShrink ==
    ASSUME Inv, Types', m_next_sequence <= m_next_sequence',
           \A p \in Request :
              \/ job'[p] = NoJob
              \/ job'[p] = job[p]
              \/ /\ job'[p].hash = job[p].hash /\ job[p].hash # None
                 /\ job'[p].followers = job[p].followers
    PROVE  OwnersOK'
  <1>0. m_next_sequence \in Nat /\ m_next_sequence' \in Nat
    BY Zenon DEF Inv, Types
  <1>1. \A p \in Request : job[p].followers \subseteq Request
    BY Zenon DEF Inv, Types, Job
  <1>2. \A p \in Request : /\ job'[p].followers \subseteq job[p].followers
                           /\ job[p].hash = None => job'[p] = NoJob
                           /\ job'[p].hash # None => job[p].hash # None
                           /\ job'[p].hash = None => job'[p] = NoJob
    BY NoJobFacts, Zenon DEF Inv, OwnersOK
  <1> QED BY <1>0, <1>1, <1>2, NoJobFacts DEF Inv, OwnersOK

(* The locals of one thread change. *)
LEMMA LocalStep ==
    ASSUME Inv, NEW w \in Worker, NEW l \in Local,
           worker' = [worker EXCEPT ![w] = l],
           l.pc \notin Busy \cup {"recheck"} => l.pending = None,
           l.failure # "none" => l.pc = "complete",
           l.pc = "complete" /\ l.failure = "none" /\ l.ok => l.hash \in Valid,
           l.failure = "cancelled" /\ l.protect_body_replay => l.shutting_down
    PROVE  LocalOK'
  BY Zenon DEF Inv, Types, LocalOK

(* Attestations and memos stay, nothing is parked and no thread gives up   *)
(* its recheck.                                                            *)
LEMMA QuorumSame ==
    ASSUME Inv, UNCHANGED <<quorum, notifying, missed, memo>>,
           m_awaiting_quorum' \subseteq m_awaiting_quorum,
           \A v \in Worker : worker[v].pc = "recheck" =>
              /\ worker'[v].pc = "recheck" /\ worker'[v].hash = worker[v].hash
    PROVE  QuorumOK'
  BY Zenon DEF Inv, QuorumOK, NoLostQuorum, Rechecking

(* A busy thread's job: its hash is the thread's. *)
LEMMA HeldJob ==
    ASSUME Inv, NEW w \in Worker, worker[w].pc \in Busy
    PROVE  LET p == worker[w].pending
           IN  /\ p \in Request /\ job[p] \in Job /\ job[p].running
               /\ worker[w].hash \in Hash /\ job[p].hash = worker[w].hash
               /\ job[p].hash # None /\ p # None
               /\ m_pending[worker[w].hash] = p
               /\ worker[w].hash \notin m_awaiting_quorum /\ p \notin m_queue
  <1>1. /\ worker[w].pending \in Request /\ worker[w].hash \in Hash
        /\ m_pending[worker[w].hash] = worker[w].pending
        /\ job[worker[w].pending].running
    BY Zenon DEF Inv, HeldOK
  <1>2. worker[w].pending # None /\ job[worker[w].pending] \in Job
    BY <1>1, Zenon DEF Inv, Types
  <1>3. job[worker[w].pending].hash = worker[w].hash
    BY <1>1, <1>2, Zenon DEF Inv, PendingOK
  <1> QED BY <1>1, <1>2, <1>3, Zenon DEF Inv, ParkedOK, QueueOK

-----------------------------------------------------------------------------
(* The actions preserve the invariant.                                     *)

(* A latch is raised. *)
LEMMA LatchStep ==
    ASSUME Inv, NEW p \in Request, job[p].hash # None,
           job' = [job EXCEPT ![p].cancelled = TRUE],
           UNCHANGED <<req, m_next_sequence, pool, stopping, worker, config,
                       attestation, memo>>
    PROVE  Inv'
  <1> DEFINE k == [job[p] EXCEPT !.cancelled = TRUE]
  <1>1. /\ job[p] \in Job /\ job \in [Request -> Job]
        /\ worker \in [Worker -> Local] /\ m_next_sequence \in Nat
    BY Zenon DEF Inv, Types
  <1>2. /\ k \in Job /\ k.hash = job[p].hash /\ k.running = job[p].running
        /\ k.followers = job[p].followers
    BY <1>1, CancelledFacts, Zenon
  <1>3. job' = [job EXCEPT ![p] = k]
    BY <1>1, Zenon
  <1> HIDE DEF k
  <1>4. /\ job' \in [Request -> Job]
        /\ \A q \in Request : /\ job'[q].hash = job[q].hash
                               /\ job'[q].running = job[q].running
                               /\ job'[q].followers = job[q].followers
                               /\ q # p => job'[q] = job[q]
    BY <1>1, <1>2, <1>3, Zenon
  <1>5. Types'
    BY <1>4, Zenon DEF Inv, Types, pool, stopping
  <1>6. Places'
    BY <1>1, <1>4, <1>5, PlacesSame DEF pool, stopping
  <1>7. OwnersOK'
    BY <1>1, <1>4, <1>5, OwnersShrink
  <1>8. LocalOK' /\ QuorumOK'
    BY Zenon DEF Inv, LocalOK, QuorumOK, NoLostQuorum, Rechecking, pool, attestation
  <1> QED BY <1>5, <1>6, <1>7, <1>8, Zenon DEF Inv, Places

(* The lifecycle raises the latch of a body's job. *)
LEMMA LifecycleCancelsInv ==
    ASSUME Inv, NEW p \in Request, LifecycleCancels(p)
    PROVE  Inv'
  <1>1. job[p].hash # None
    BY DEF LifecycleCancels, Registered, Inv, PendingOK
  <1> QED BY <1>1, LatchStep, Zenon DEF LifecycleCancels

(* The scheduler raises the latch of a running replay. *)
LEMMA SchedulerPreemptsInv ==
    ASSUME Inv, NEW w \in Worker, SchedulerPreempts(w)
    PROVE  Inv'
  <1>1. worker[w].pc \in Busy
    BY Zenon DEF SchedulerPreempts, Busy
  <1>2. worker[w].pending \in Request /\ job[worker[w].pending].hash # None
    BY <1>1, HeldJob, Zenon
  <1> QED BY <1>2, LatchStep, Zenon DEF SchedulerPreempts

(* A thread moves on without touching the pool or the jobs. *)
LEMMA ThreadStep ==
    ASSUME Inv, NEW w \in Worker, NEW l \in Local,
           worker' = [worker EXCEPT ![w] = l],
           UNCHANGED <<callers, pool, stopping, attestation>>,
           worker[w].pc # "recheck", l.pc # "recheck",
           l.pc \in Busy <=> worker[w].pc \in Busy,
           l.pending = worker[w].pending, l.hash = worker[w].hash,
           l.expired = worker[w].expired,
           l.failure # "none" => l.pc = "complete",
           l.pc = "complete" /\ l.failure = "none" /\ l.ok => l.hash \in Valid,
           l.failure = "cancelled" /\ l.protect_body_replay => l.shutting_down,
           memo' \in [Hash -> {"none", "valid", "invalid"}],
           \A h \in Hash : memo'[h] = "valid" => h \in Valid
    PROVE  Inv'
  <1>1. /\ worker \in [Worker -> Local] /\ m_next_sequence \in Nat
        /\ UNCHANGED <<req, job, m_next_sequence, m_queue, m_pending,
                       m_awaiting_quorum, orphaned, quorum, notifying, missed>>
    BY Zenon DEF Inv, Types, callers, pool, stopping, attestation
  <1>2. /\ worker' \in [Worker -> Local] /\ worker'[w] = l
        /\ \A v \in Worker \ {w} : worker'[v] = worker[v]
    BY <1>1, Zenon
  <1>3. Types'
    BY <1>1, <1>2, Zenon DEF Inv, Types
  <1>4. Places'
    BY <1>1, <1>2, <1>3, PlacesSame
  <1>5. OwnersOK'
    BY <1>1, Zenon DEF Inv, OwnersOK
  <1>6. l.pc \notin Busy \cup {"recheck"} => l.pending = None
    BY Zenon DEF Inv, LocalOK
  <1>7. LocalOK'
    BY <1>6, LocalStep, Zenon
  <1>8. NoLostQuorum'
    BY <1>1, <1>2 DEF Inv, QuorumOK, NoLostQuorum, Rechecking
  <1>9. QuorumOK'
    BY <1>1, <1>8, Zenon DEF Inv, QuorumOK
  <1> QED BY <1>3, <1>4, <1>5, <1>7, <1>9, Zenon DEF Inv, Places

(* A busy thread hands its job back or answers it: the job is destroyed    *)
(* and its hash is free.                                                   *)
LEMMA HandBack ==
    ASSUME Inv, NEW w \in Worker, worker[w].pc \in Busy,
           NEW answer \in Answers,
           m_pending' = [m_pending EXCEPT ![worker[w].hash] = None],
           m_awaiting_quorum' \in {m_awaiting_quorum,
                                   m_awaiting_quorum \ {worker[w].hash}},
           req' = Answer({worker[w].pending}, answer),
           job' = Destroy({worker[w].pending}),
           worker' = [worker EXCEPT ![w] = At("loop")],
           UNCHANGED <<m_queue, m_next_sequence, stopping, attestation, memo>>
    PROVE  Inv'
  <1> DEFINE p == worker[w].pending
             h == worker[w].hash
  <1>1. /\ p \in Request /\ job[p].running /\ h \in Hash /\ job[p].hash = h
        /\ h # None /\ p # None /\ m_pending[h] = p
        /\ h \notin m_awaiting_quorum /\ p \notin m_queue
    BY HeldJob, Zenon
  <1>2. /\ worker \in [Worker -> Local] /\ m_next_sequence \in Nat
        /\ m_pending \in [Hash -> Request \cup {None}] /\ m_queue \subseteq Request
        /\ m_awaiting_quorum \subseteq Hash /\ orphaned \subseteq Request
        /\ job \in [Request -> Job] /\ req \in [Request -> Answers]
    BY Zenon DEF Inv, Types
  <1>3. UNCHANGED <<m_awaiting_quorum, m_queue, m_next_sequence, orphaned, quorum,
                    notifying, missed, memo>>
    BY <1>1, Zenon DEF stopping, attestation
  <1>4. /\ worker' \in [Worker -> Local] /\ worker'[w] = At("loop")
        /\ At("loop").pc \notin Busy /\ At("loop").pc # "recheck"
        /\ At("loop").expired = {}
        /\ \A v \in Worker : v # w => worker'[v] = worker[v]
    BY <1>2, AtFacts, ZenonT(30) DEF Busy, Step
  <1>5. /\ job' \in [Request -> Job] /\ job'[p] = NoJob
        /\ \A q \in Request : q # p => job'[q] = job[q]
    BY <1>1, <1>2, NoJobFacts, Zenon DEF Destroy
  <1>6. /\ m_pending' \in [Hash -> Request \cup {None}] /\ m_pending'[h] = None
        /\ \A k \in Hash : k # h => m_pending'[k] = m_pending[k]
    BY <1>1, <1>2, Zenon
  <1>7. req' \in [Request -> Answers]
    BY <1>2, Zenon DEF Answer
  <1>8. \A k \in Hash : k # h => m_pending[k] # p
    BY <1>1, Zenon DEF Inv, PendingOK
  <1>9. \A v \in Worker : v # w /\ worker[v].pc \in Busy => worker[v].hash # h
    BY Zenon DEF Inv, HeldOnce
  <1>10. Types'
    BY <1>2, <1>3, <1>4, <1>5, <1>6, <1>7, ZenonT(30) DEF Inv, Types
  <1> HIDE DEF p, h
  <1>11. \A v \in Worker : worker'[v].pc \in Busy =>
            /\ v # w /\ worker[v].pc \in Busy /\ worker'[v] = worker[v]
            /\ worker[v].hash \in Hash /\ worker[v].hash # h
            /\ m_pending'[worker[v].hash] = worker[v].pending
    BY <1>4, <1>6, <1>9, ZenonT(30) DEF Inv, HeldOK
  <1>12. \A q \in m_queue' : q \in m_queue /\ m_pending'[job[q].hash] = q
    <2> SUFFICES ASSUME NEW q \in m_queue PROVE m_pending'[job[q].hash] = q
      BY <1>3, Zenon
    <2>1. job[q].hash \in Hash /\ m_pending[job[q].hash] = q
      BY Zenon DEF Inv, QueueOK
    <2> QED BY <2>1, <1>1, <1>6, ZenonT(30)
  <1>13. \A k \in m_awaiting_quorum' : /\ k \in m_awaiting_quorum
                                      /\ m_pending'[k] = m_pending[k]
    BY <1>1, <1>2, <1>3, <1>6, Zenon
  <1>14. \A k \in Hash : m_pending'[k] # None =>
            \A v \in Worker : worker[v].pc \in Busy /\ worker[v].hash = k =>
               worker'[v].pc \in Busy
    BY <1>4, <1>6, Zenon DEF h
  <1>15. \A q \in Request : \/ /\ job'[q].hash = job[q].hash
                               /\ job'[q].running = job[q].running
                            \/ \A k \in Hash : m_pending'[k] # q
    <2> SUFFICES ASSUME NEW k \in Hash PROVE m_pending'[k] # p
      BY <1>5, Zenon
    <2> QED BY <1>1, <1>6, <1>8, Zenon
  <1>16. \A k \in Hash : m_pending'[k] \in {m_pending[k], None}
    BY <1>6, Zenon
  <1>17. Places'
    <2>1. \A v \in Worker : worker'[v].expired \subseteq worker[v].expired
      BY <1>4, Zenon
    <2> QED BY <1>3, <1>10, <1>11, <1>12, <1>13, <1>14, <1>15, <1>16, <2>1,
               PlacesShrink, ZenonT(30)
  <1>18. OwnersOK'
    <2>1. m_next_sequence <= m_next_sequence'
      BY <1>2, <1>3
    <2>2. \A q \in Request : job'[q] = NoJob \/ job'[q] = job[q]
      BY <1>5, Zenon
    <2> QED BY <1>10, <2>1, <2>2, OwnersShrink, SMTT(30)
  <1>19. LocalOK'
    BY <1>2, <1>4, AtFacts, LocalStep, Zenon DEF Step
  <1>20. QuorumOK'
    BY <1>3, <1>4, QuorumSame, Zenon DEF Busy
  <1> QED BY <1>10, <1>17, <1>18, <1>19, <1>20, Zenon DEF Inv, Places

-----------------------------------------------------------------------------
(* The steps of a thread that do not move its job. *)

(* FinishRetryable ends every step that gives up. *)
LEMMA FinishRetryableInv ==
    ASSUME Inv, NEW w \in Worker, worker[w].pc \in Busy, FinishRetryable(w),
           UNCHANGED <<stopping, attestation, memo>>
    PROVE  Inv'
  <1> "retryable" \in Answers
    BY Zenon DEF Answers
  <1> QED BY HandBack, Zenon DEF FinishRetryable

(* The verdict, and the removal of the job. *)
LEMMA CompleteInv ==
    ASSUME Inv, NEW w \in Worker, Complete(w)
    PROVE  Inv'
  <1>1. worker[w].pc \in Busy
    BY Zenon DEF Complete, Busy
  <1>2. PICK answer \in Answers : req' = Answer({worker[w].pending}, answer)
    <2>1. {"retryable", "accepted", "rejected"} \subseteq Answers
      BY Zenon DEF Answers
    <2> QED BY <2>1, Zenon DEF Complete
  <1>3. /\ m_pending' = [m_pending EXCEPT ![worker[w].hash] = None]
        /\ m_awaiting_quorum' = m_awaiting_quorum
        /\ job' = Destroy({worker[w].pending})
        /\ worker' = [worker EXCEPT ![w] = At("loop")]
        /\ UNCHANGED <<m_queue, m_next_sequence, stopping, attestation, memo>>
    BY Zenon DEF Complete
  <1> QED BY <1>1, <1>2, <1>3, HandBack, Zenon

(* The latch, the stop flag and body_joined are read. *)
LEMMA StartInv ==
    ASSUME Inv, NEW w \in Worker, Start(w)
    PROVE  Inv'
  <1> DEFINE p == worker[w].pending
             pc == IF TrustedExactReplay(worker[w].hash) THEN "trusted" ELSE "acquire"
             t == worker[w].tip_extending /\ TrustedExactReplay(worker[w].hash)
             s == Stopped
             b == ProtectsBodyReplay(p)
             l == [worker[w] EXCEPT !.pc = pc, !.tip_extending = t,
                                    !.shutting_down = s, !.protect_body_replay = b]
  <1>0. pc \in Step /\ pc \in {"trusted", "acquire"} /\ t \in BOOLEAN
    BY Zenon DEF Step
  <1> HIDE DEF pc, t
  <1>1. worker[w].pc \in Busy /\ worker[w].pc = "start"
    BY Zenon DEF Start, Busy
  <1>2. CASE FinishRetryable(w)
    BY <1>1, <1>2, FinishRetryableInv, Zenon DEF Start
  <1>3. CASE /\ worker' = [worker EXCEPT ![w] = l]
             /\ UNCHANGED <<callers, pool>>
    <2>1. /\ worker[w] \in Local /\ job[p] \in Job
          /\ memo \in [Hash -> {"none", "valid", "invalid"}]
      BY <1>1, HeldJob, Zenon DEF Inv, Types
    <2>2. s \in BOOLEAN /\ b \in BOOLEAN
      BY <2>1, Zenon DEF Stopped, ProtectsBodyReplay, Job
    <2> HIDE DEF s, b
    <2>3. worker[w].failure = "none"
      BY <1>1, Zenon DEF Inv, LocalOK
    <2>4. /\ l \in Local /\ l.pc \in {"trusted", "acquire"}
          /\ l.pending = worker[w].pending /\ l.hash = worker[w].hash
          /\ l.expired = worker[w].expired /\ l.failure = "none"
      BY <1>0, <2>1, <2>2, <2>3, Zenon DEF Local
    <2>5. l.pc \in Busy /\ l.pc # "recheck" /\ l.pc # "complete"
      BY <2>4, Zenon DEF Busy
    <2>6. UNCHANGED <<stopping, config, attestation, memo>>
      BY Zenon DEF Start
    <2>7. memo' = memo /\ QuorumOK
      BY <2>6, Zenon DEF Inv
    <2> HIDE DEF l
    <2> QED BY <1>1, <1>3, <2>1, <2>4, <2>5, <2>6, <2>7, ThreadStep, Zenon
               DEF QuorumOK
  <1>4. worker \in [Worker -> Local]
    BY Zenon DEF Inv, Types
  <1> QED BY <1>2, <1>3, <1>4, Zenon DEF Start, pc, t

(* A thread's next step. *)
LEMMA GotoFacts ==
    ASSUME NEW l \in Local, NEW pc \in Step
    PROVE  LET k == [l EXCEPT !.pc = pc]
           IN  /\ k \in Local /\ k.pc = pc /\ k.pending = l.pending
               /\ k.hash = l.hash /\ k.expired = l.expired
               /\ k.failure = l.failure
               /\ k.protect_body_replay = l.protect_body_replay
               /\ k.shutting_down = l.shutting_down
  BY Zenon DEF Local

(* A thread only moves on. *)
LEMMA GotoInv ==
    ASSUME Inv, NEW w \in Worker, NEW pc \in Step, Goto(w, pc),
           UNCHANGED <<callers, pool, stopping, attestation, memo>>,
           worker[w].pc \notin {"recheck", "complete"},
           pc \notin {"recheck", "complete"},
           pc \in Busy <=> worker[w].pc \in Busy
    PROVE  Inv'
  <1> DEFINE l == [worker[w] EXCEPT !.pc = pc]
  <1>1. /\ worker \in [Worker -> Local] /\ worker[w] \in Local
        /\ memo \in [Hash -> {"none", "valid", "invalid"}]
    BY Zenon DEF Inv, Types
  <1>2. worker[w].failure = "none"
    BY Zenon DEF Inv, LocalOK
  <1>3. worker' = [worker EXCEPT ![w] = l]
    BY <1>1, Zenon DEF Goto
  <1>4. /\ l \in Local /\ l.pc = pc /\ l.pending = worker[w].pending
        /\ l.hash = worker[w].hash /\ l.expired = worker[w].expired
        /\ l.failure = "none"
    BY <1>1, <1>2, GotoFacts
  <1>5. QuorumOK
    BY Zenon DEF Inv
  <1> HIDE DEF l
  <1> QED BY <1>1, <1>3, <1>4, <1>5, ThreadStep, Zenon DEF QuorumOK

(* The device is granted or not. *)
LEMMA AcquireInv ==
    ASSUME Inv, NEW w \in Worker, NEW granted \in BOOLEAN, Acquire(w, granted)
    PROVE  Inv'
  <1>1. /\ worker[w].pc \in Busy /\ worker[w].pc = "acquire"
        /\ "replay" \in Busy /\ "replay" \in Step
    BY Zenon DEF Acquire, Busy, Step
  <1>2. UNCHANGED <<stopping, attestation, memo>>
    BY Zenon DEF Acquire
  <1>3. CASE granted
    BY <1>1, <1>2, <1>3, GotoInv, Zenon DEF Acquire
  <1>4. CASE ~granted
    BY <1>1, <1>2, <1>4, FinishRetryableInv, Zenon DEF Acquire
  <1> QED BY <1>3, <1>4, Zenon

(* The replay writes its verdict, and the memo when it may. *)
LEMMA ReplayInv ==
    ASSUME Inv, NEW w \in Worker, NEW carrier_missing \in BOOLEAN,
           Replay(w, carrier_missing)
    PROVE  Inv'
  <1> DEFINE p == worker[w].pending
             h == worker[w].hash
  <1>1. /\ worker[w].pc \in Busy /\ worker[w].pc = "replay"
        /\ "complete" \in Busy /\ "complete" \in Step
    BY Zenon DEF Replay, Busy, Step
  <1>2. /\ h \in Hash /\ job[p].hash = h
    BY <1>1, HeldJob, Zenon
  <1>3. /\ worker \in [Worker -> Local] /\ worker[w] \in Local
        /\ memo \in [Hash -> {"none", "valid", "invalid"}] /\ QuorumOK
    BY Zenon DEF Inv, Types
  <1> DEFINE suppress(out) == \/ out.failure # "none"
                              \/ /\ job[p].cancelled
                                 /\ \/ ~ProtectsBodyReplay(p)
                                    \/ worker[w].shutting_down
  <1>p. PICK out \in Outcomes(w) :
          /\ worker' = [worker EXCEPT ![w].pc = "complete", ![w].ok = out.ok,
                                      ![w].failure = out.failure]
          /\ memo' = IF suppress(out) \/ (carrier_missing /\ ~out.ok)
                     THEN memo
                     ELSE [memo EXCEPT ![job[p].hash] =
                             IF out.ok THEN "valid" ELSE "invalid"]
    BY Zenon DEF Replay
  <1>4. /\ worker' = [worker EXCEPT ![w].pc = "complete", ![w].ok = out.ok,
                                    ![w].failure = out.failure]
        /\ \/ memo' = memo
           \/ /\ out.failure = "none"
              /\ memo' = [memo EXCEPT ![job[p].hash] =
                            IF out.ok THEN "valid" ELSE "invalid"]
    BY <1>p, Zenon
  <1>5. /\ out.ok \in BOOLEAN /\ out.failure \in {"none", "device", "cancelled"}
        /\ out.failure = "none" /\ out.ok => h \in Valid
        /\ out.failure = "cancelled" => LatchExposed(w)
    <2> DEFINE good == h \in Valid
    <2>1. \/ out = [ok |-> good, failure |-> "none"]
          \/ out = [ok |-> FALSE, failure |-> "device"]
          \/ out = [ok |-> FALSE, failure |-> "none"]
          \/ LatchExposed(w) /\ out = [ok |-> FALSE, failure |-> "cancelled"]
      BY <1>2, Zenon DEF Outcomes
    <2>2. good \in BOOLEAN
      OBVIOUS
    <2>3. CASE out = [ok |-> good, failure |-> "none"]
      <3>1. good <=> h \in Valid
        BY Zenon
      <3> HIDE DEF good
      <3>2. out.ok = good /\ out.failure = "none"
        BY <2>3, Zenon
      <3> QED BY <2>2, <3>1, <3>2, Zenon
    <2>4. CASE out = [ok |-> FALSE, failure |-> "device"]
      BY <2>4, Zenon
    <2>5. CASE LatchExposed(w) /\ out = [ok |-> FALSE, failure |-> "cancelled"]
      BY <2>5, Zenon
    <2>6. CASE out = [ok |-> FALSE, failure |-> "none"]
      BY <2>6, Zenon
    <2> QED BY <2>1, <2>3, <2>4, <2>5, <2>6, Zenon
  <1> DEFINE ok == out.ok
             failure == out.failure
             l == [worker[w] EXCEPT !.pc = "complete", !.ok = ok,
                                    !.failure = failure]
  <1> HIDE DEF p, h, ok, failure
  <1>6. worker' = [worker EXCEPT ![w] = l]
    BY <1>3, <1>4, Zenon DEF ok, failure
  <1>7. /\ l \in Local /\ l.pc = "complete" /\ l.pending = worker[w].pending
        /\ l.hash = worker[w].hash /\ l.expired = worker[w].expired
        /\ l.ok = ok /\ l.failure = failure
        /\ l.protect_body_replay = worker[w].protect_body_replay
        /\ l.shutting_down = worker[w].shutting_down
    BY <1>1, <1>3, <1>5, Zenon DEF Local, ok, failure
  <1> HIDE DEF l
  <1>8. l.failure = "cancelled" /\ l.protect_body_replay => l.shutting_down
    BY <1>5, <1>7, Zenon DEF LatchExposed, failure
  <1>9. l.failure = "none" /\ l.ok => l.hash \in Valid
    BY <1>5, <1>7, Zenon DEF ok, failure, h
  <1>10. /\ memo' \in [Hash -> {"none", "valid", "invalid"}]
         /\ \A k \in Hash : memo'[k] = "valid" => k \in Valid
    <2>1. CASE memo' = memo
      BY <2>1, <1>3, Zenon DEF QuorumOK
    <2>2. CASE /\ out.failure = "none"
               /\ memo' = [memo EXCEPT ![h] = IF out.ok THEN "valid" ELSE "invalid"]
      BY <2>2, <1>2, <1>3, <1>5, Zenon DEF QuorumOK
    <2> QED BY <2>1, <2>2, <1>2, <1>4, Zenon
  <1>11. UNCHANGED <<callers, pool, stopping, attestation>>
    BY Zenon DEF Replay
  <1> QED BY <1>1, <1>6, <1>7, <1>8, <1>9, <1>10, <1>11, ThreadStep, Zenon

(* A mirror skips, accepts a quorum, or goes to park. *)
LEMMA TrustedInv ==
    ASSUME Inv, NEW w \in Worker, NEW above \in BOOLEAN, Trusted(w, above)
    PROVE  Inv'
  <1> DEFINE h == worker[w].hash
             l == [worker[w] EXCEPT !.pc = "complete", !.tip_extending = FALSE,
                                    !.ok = TRUE]
             m == [worker[w] EXCEPT !.pc = "park", !.tip_extending = FALSE]
  <1>1. /\ worker[w].pc \in Busy /\ worker[w].pc = "trusted"
        /\ {"complete", "park"} \subseteq Busy /\ {"complete", "park"} \subseteq Step
    BY Zenon DEF Trusted, Busy, Step
  <1>2. UNCHANGED <<stopping, attestation>>
    BY Zenon DEF Trusted
  <1>3. CASE FinishRetryable(w) /\ UNCHANGED memo
    BY <1>1, <1>2, <1>3, FinishRetryableInv, Zenon
  <1>4. CASE /\ worker' = [worker EXCEPT ![w].pc = "park", ![w].tip_extending = FALSE]
             /\ UNCHANGED memo /\ UNCHANGED <<callers, pool>>
    <2>1. /\ worker \in [Worker -> Local] /\ worker[w] \in Local
          /\ memo \in [Hash -> {"none", "valid", "invalid"}] /\ QuorumOK
      BY Zenon DEF Inv, Types
    <2>2. worker' = [worker EXCEPT ![w] = m]
      BY <1>4, <2>1, Zenon
    <2>3. worker[w].failure = "none"
      BY <1>1, Zenon DEF Inv, LocalOK
    <2>4. /\ m \in Local /\ m.pc = "park" /\ m.pending = worker[w].pending
          /\ m.hash = worker[w].hash /\ m.expired = worker[w].expired
          /\ m.failure = "none"
      BY <1>1, <2>1, <2>3, Zenon DEF Local
    <2> HIDE DEF m
    <2>5. /\ memo' \in [Hash -> {"none", "valid", "invalid"}]
          /\ \A k \in Hash : memo'[k] = "valid" => k \in Valid
      BY <1>4, <2>1, Zenon DEF QuorumOK
    <2>6. m.pc \in Busy /\ m.pc # "recheck" /\ m.pc # "complete"
      BY <1>1, <2>4, Zenon
    <2> QED BY <1>1, <1>2, <1>4, <2>2, <2>4, <2>5, <2>6, ThreadStep, Zenon
  <1>5. CASE /\ h \in quorum /\ memo' = [memo EXCEPT ![h] = "valid"]
             /\ worker' = [worker EXCEPT ![w].pc = "complete",
                                         ![w].tip_extending = FALSE, ![w].ok = TRUE]
             /\ UNCHANGED <<callers, pool>>
    <2>1. /\ worker \in [Worker -> Local] /\ worker[w] \in Local
          /\ memo \in [Hash -> {"none", "valid", "invalid"}] /\ QuorumOK
      BY Zenon DEF Inv, Types
    <2>2. h \in Hash /\ h \in Valid
      BY <1>1, <1>5, <2>1, HeldJob, Zenon DEF QuorumOK
    <2>3. worker' = [worker EXCEPT ![w] = l]
      BY <1>5, <2>1, Zenon
    <2>4. worker[w].failure = "none"
      BY <1>1, Zenon DEF Inv, LocalOK
    <2>5. /\ l \in Local /\ l.pc = "complete" /\ l.pending = worker[w].pending
          /\ l.hash = worker[w].hash /\ l.expired = worker[w].expired
          /\ l.ok = TRUE /\ l.failure = "none"
      BY <1>1, <2>1, <2>4, Zenon DEF Local
    <2> HIDE DEF l
    <2>6. /\ memo' \in [Hash -> {"none", "valid", "invalid"}]
          /\ \A k \in Hash : memo'[k] = "valid" => k \in Valid
      BY <1>5, <2>1, <2>2, Zenon DEF QuorumOK
    <2>7. /\ l.hash \in Valid
          /\ l.pc \in Busy /\ l.pc # "recheck"
      BY <1>1, <2>2, <2>5, Zenon
    <2> HIDE DEF h
    <2> QED BY <1>1, <1>2, <1>5, <2>3, <2>5, <2>6, <2>7, ThreadStep, Zenon
  <1> HIDE DEF l, m
  <1>6. \/ FinishRetryable(w) /\ UNCHANGED memo
        \/ /\ IF h \in quorum
              THEN /\ memo' = [memo EXCEPT ![h] = "valid"]
                   /\ worker' = [worker EXCEPT ![w].pc = "complete",
                                         ![w].tip_extending = FALSE, ![w].ok = TRUE]
              ELSE /\ worker' = [worker EXCEPT ![w].pc = "park",
                                               ![w].tip_extending = FALSE]
                   /\ UNCHANGED memo
           /\ UNCHANGED <<callers, pool>>
    BY Zenon DEF Trusted
  <1> QED BY <1>3, <1>4, <1>5, <1>6, Zenon

(* The quorum is complete: its wake-up is owed, or a thread is about to    *)
(* look, or the job waits for the message of another peer.                 *)
LEMMA QuorumCompleteInv ==
    ASSUME Inv, NEW h \in Hash, MmAttest(h) \/ SubmitMatMulAttestations(h)
    PROVE  Inv'
  <1>1. UNCHANGED <<req, job, m_next_sequence, m_queue, m_pending,
                    m_awaiting_quorum, orphaned, worker, memo>>
    BY Zenon DEF MmAttest, SubmitMatMulAttestations, callers, pool, stopping
  <1>2. Types'
    BY <1>1, Zenon DEF Inv, Types
  <1>3. Places' /\ OwnersOK' /\ LocalOK'
    BY <1>1, ZenonT(30) DEF Inv, Places, PendingOK, QueueOK, ParkedOK, HeldOK, HeldOnce, Placed,
                GoneOK, Unregistered, OwnersOK, LocalOK
  <1>4. /\ h \in Valid /\ quorum' = quorum \cup {h} /\ notifying \subseteq notifying'
        /\ notifying' \subseteq notifying \cup {h} /\ missed \subseteq missed'
        /\ h \in m_awaiting_quorum => h \in notifying' \cup missed' \/ Rechecking(h)
    BY Zenon DEF MmAttest, SubmitMatMulAttestations, Attestable
  <1>5. QuorumOK'
    BY <1>1, <1>4, Zenon DEF Inv, QuorumOK, NoLostQuorum, Rechecking
  <1> QED BY <1>2, <1>3, <1>5, Zenon DEF Inv, Places

-----------------------------------------------------------------------------
(* The steps that move a job. *)

(* The parked job of h goes back to the queue. *)
LEMMA PlacesNotify ==
    ASSUME Inv, Types', NEW h \in m_awaiting_quorum,
           m_awaiting_quorum' = m_awaiting_quorum \ {h},
           m_queue' = m_queue \cup {m_pending[h]},
           UNCHANGED <<m_pending, job, m_next_sequence, orphaned>>,
           \A v \in Worker :
              /\ worker'[v].pc \in Busy <=> worker[v].pc \in Busy
              /\ worker'[v].pc \in Busy => /\ worker'[v].pending = worker[v].pending
                                           /\ worker'[v].hash = worker[v].hash
              /\ worker'[v].expired \subseteq worker[v].expired
    PROVE  Places'
  <1>0. /\ m_next_sequence \in Nat
        /\ m_pending \in [Hash -> Request \cup {None}]
        /\ m_queue \subseteq Request /\ m_awaiting_quorum \subseteq Hash
    BY Zenon DEF Inv, Types
  <1> DEFINE p == m_pending[h]
  <1>1. /\ h \in Hash /\ p \in Request /\ p # None /\ job[p].hash = h
        /\ ~job[p].running
    BY <1>0 DEF Inv, ParkedOK, PendingOK
  <1>2. PendingOK' /\ HeldOK'
    BY Zenon DEF Inv, PendingOK, HeldOK
  <1>3. QueueOK'
    BY <1>1, Zenon DEF Inv, QueueOK
  <1>4. ParkedOK'
    <2> SUFFICES ASSUME NEW k \in m_awaiting_quorum, k # h
                 PROVE  /\ m_pending[k] # None /\ ~job[m_pending[k]].running
                        /\ m_pending[k] \notin m_queue /\ m_pending[k] # p
      BY Zenon DEF ParkedOK
    <2>1. k \in Hash /\ m_pending[k] # None
      BY <1>0, Zenon DEF Inv, ParkedOK
    <2>2. job[m_pending[k]].hash = k
      BY <2>1, Zenon DEF Inv, PendingOK
    <2> QED BY <1>1, <2>1, <2>2, Zenon DEF Inv, ParkedOK
  <1>5. HeldOnce'
    BY Zenon DEF Inv, HeldOnce
  <1>6. Placed'
    BY Zenon DEF Inv, Placed
  <1>7. GoneOK'
    BY Zenon DEF Inv, GoneOK, Unregistered
  <1> QED BY <1>2, <1>3, <1>4, <1>5, <1>6, <1>7, Zenon DEF Places

(* NotifyQuorumReady moves no job, or the parked one of h. *)
LEMMA NotifyPlaces ==
    ASSUME Inv, NEW h, NotifyQuorumReady(h), worker' \in [Worker -> Local],
           UNCHANGED <<req, m_pending, job, m_next_sequence, orphaned, memo>>,
           \A v \in Worker :
              /\ worker'[v].pc \in Busy <=> worker[v].pc \in Busy
              /\ worker'[v].pc \in Busy => /\ worker'[v].pending = worker[v].pending
                                           /\ worker'[v].hash = worker[v].hash
              /\ worker'[v].expired \subseteq worker[v].expired
    PROVE  /\ Types' /\ Places' /\ OwnersOK'
           /\ m_awaiting_quorum' \subseteq m_awaiting_quorum
           /\ h \notin m_awaiting_quorum'
  <1>0. /\ m_next_sequence \in Nat
        /\ m_pending \in [Hash -> Request \cup {None}]
        /\ m_queue \subseteq Request /\ m_awaiting_quorum \subseteq Hash
    BY Zenon DEF Inv, Types
  <1>1. OwnersOK'
    BY Zenon DEF Inv, OwnersOK
  <1>2. CASE h \in m_awaiting_quorum
    <2>1. /\ m_awaiting_quorum' = m_awaiting_quorum \ {h}
          /\ m_queue' = m_queue \cup {m_pending[h]}
      BY <1>2, Zenon DEF NotifyQuorumReady
    <2>2. m_pending[h] \in Request
      BY <1>0, <1>2, Zenon DEF Inv, ParkedOK
    <2>3. Types'
      BY <2>1, <2>2, Zenon DEF Inv, Types
    <2>4. Places'
      BY <1>2, <2>1, <2>3, PlacesNotify, Zenon
    <2> QED BY <1>1, <2>1, <2>3, <2>4, Zenon
  <1>3. CASE h \notin m_awaiting_quorum
    <2>1. UNCHANGED <<m_awaiting_quorum, m_queue>>
      BY <1>3, Zenon DEF NotifyQuorumReady
    <2>2. Types'
      BY <2>1, Zenon DEF Inv, Types
    <2>3. Places'
      BY <1>0, <2>1, <2>2, PlacesSame
    <2> QED BY <1>1, <1>3, <2>1, <2>2, <2>3, Zenon
  <1> QED BY <1>2, <1>3, Zenon

(* The message thread passes a quorum on. *)
LEMMA WakeParkedInv ==
    ASSUME Inv, NEW h \in Hash, WakeParked(h)
    PROVE  Inv'
  <1>1. /\ NotifyQuorumReady(h) /\ notifying' = notifying \ {h}
        /\ UNCHANGED <<req, job, m_next_sequence, m_pending, orphaned, worker,
                       quorum, missed, memo>>
    BY Zenon DEF WakeParked, callers, stopping
  <1>2. worker \in [Worker -> Local]
    BY Zenon DEF Inv, Types
  <1>3. /\ Types' /\ Places' /\ OwnersOK'
        /\ m_awaiting_quorum' \subseteq m_awaiting_quorum
        /\ h \notin m_awaiting_quorum'
    BY <1>1, <1>2, NotifyPlaces, Zenon
  <1>4. LocalOK'
    BY <1>1, Zenon DEF Inv, LocalOK
  <1>5. QuorumOK'
    BY <1>1, <1>3, Zenon DEF Inv, QuorumOK, NoLostQuorum, Rechecking
  <1> QED BY <1>3, <1>4, <1>5, Zenon DEF Inv, Places

(* The thread that parked the job looks at the quorum again. *)
LEMMA RecheckInv ==
    ASSUME Inv, NEW w \in Worker, Recheck(w)
    PROVE  Inv'
  <1> DEFINE h == worker[w].hash
  <1>1. /\ worker[w].pc = "recheck"
        /\ worker' = [worker EXCEPT ![w] = At("loop")]
        /\ UNCHANGED <<req, job, m_next_sequence, m_pending, orphaned,
                       quorum, notifying, missed, memo>>
    BY Zenon DEF Recheck, callers, stopping, attestation
  <1>2. worker \in [Worker -> Local] /\ m_next_sequence \in Nat
    BY Zenon DEF Inv, Types
  <1>3. /\ worker' \in [Worker -> Local] /\ worker'[w] = At("loop")
        /\ At("loop").pc \notin Busy /\ worker[w].pc \notin Busy
        /\ At("loop").expired = {}
        /\ \A v \in Worker : v # w => worker'[v] = worker[v]
    BY <1>1, <1>2, AtFacts, ZenonT(30) DEF Busy, Step
  <1>4. LocalOK'
    BY <1>1, <1>2, AtFacts, LocalStep, Zenon DEF Step
  <1>5. \A v \in Worker :
          /\ worker'[v].pc \in Busy <=> worker[v].pc \in Busy
          /\ worker'[v].pc \in Busy => worker'[v] = worker[v]
          /\ worker'[v].expired \subseteq worker[v].expired
    BY <1>3, Zenon
  <1>6. CASE h \in quorum
    <2>1. NotifyQuorumReady(h)
      BY <1>6, Zenon DEF Recheck
    <2>2. /\ Types' /\ Places' /\ OwnersOK'
          /\ m_awaiting_quorum' \subseteq m_awaiting_quorum
          /\ h \notin m_awaiting_quorum'
      BY <1>1, <1>3, <1>5, <2>1, NotifyPlaces, Zenon
    <2>3. NoLostQuorum'
      BY <1>1, <1>3, <2>2 DEF Inv, QuorumOK, NoLostQuorum, Rechecking
    <2> QED BY <1>1, <1>4, <2>2, <2>3, Zenon DEF Inv, Places, QuorumOK
  <1>7. CASE h \notin quorum
    <2>1. UNCHANGED <<m_awaiting_quorum, m_queue>>
      BY <1>7, Zenon DEF Recheck
    <2>2. Types'
      BY <1>1, <1>3, <2>1, Zenon DEF Inv, Types
    <2>3. Places'
      BY <1>1, <1>2, <1>5, <2>1, <2>2, PlacesSame
    <2>4. NoLostQuorum'
      BY <1>1, <1>3, <1>7, <2>1 DEF Inv, QuorumOK, NoLostQuorum, Rechecking
    <2>5. OwnersOK'
      BY <1>1, Zenon DEF Inv, OwnersOK
    <2> QED BY <1>1, <1>4, <2>2, <2>3, <2>4, <2>5, Zenon DEF Inv, Places, QuorumOK
  <1> QED BY <1>6, <1>7, Zenon

(* A job's run flag and lease change. *)
LEMMA JobFacts ==
    ASSUME NEW j \in Job
    PROVE  /\ LET k == [j EXCEPT !.running = TRUE]
              IN  /\ k \in Job /\ k.hash = j.hash /\ k.running
                  /\ k.followers = j.followers
           /\ LET k == [j EXCEPT !.rc_pending_lease = None, !.running = FALSE]
              IN  /\ k \in Job /\ k.hash = j.hash /\ ~k.running
                  /\ k.followers = j.followers
  BY Zenon DEF Job

(* A thread takes job p of the queue, which becomes k; the thread's locals *)
(* become l.                                                               *)
LEMMA TakeJobInv ==
    ASSUME Inv, NEW w \in Worker, worker[w].pc = "take",
           NEW p \in m_queue, NEW k \in Job, NEW l \in Local,
           m_queue' = m_queue \ {p},
           job' = [job EXCEPT ![p] = k],
           worker' = [worker EXCEPT ![w] = l],
           k.hash = job[p].hash, k.running, k.followers = job[p].followers,
           l.pc = "start", l.pending = p, l.hash = job[p].hash,
           l.failure = "none", l.expired = worker[w].expired,
           UNCHANGED <<req, m_next_sequence, m_pending, m_awaiting_quorum,
                       stopping, attestation, memo>>
    PROVE  Inv'
  <1> DEFINE h == job[p].hash
  <1>1. /\ worker \in [Worker -> Local] /\ worker[w] \in Local
        /\ m_next_sequence \in Nat /\ job \in [Request -> Job]
        /\ m_queue \subseteq Request /\ m_awaiting_quorum \subseteq Hash
        /\ m_pending \in [Hash -> Request \cup {None}]
        /\ orphaned \subseteq Request
    BY Zenon DEF Inv, Types
  <1>2. /\ p \in Request /\ job[p] \in Job /\ h \in Hash /\ m_pending[h] = p
        /\ ~job[p].running /\ h # None /\ p # None
    BY <1>1, Zenon DEF Inv, QueueOK
  <1>3. "start" \in Busy /\ worker[w].pc \notin Busy
    BY Zenon DEF Busy
  <1>4. k.hash = h /\ job[p].hash = h
    BY Zenon
  <1>5. UNCHANGED <<req, m_next_sequence, m_pending, m_awaiting_quorum, orphaned,
                    quorum, notifying, missed, memo>>
    BY Zenon DEF stopping, attestation
  <1>7. l.pc \in Busy /\ l.hash = h
    BY <1>3, Zenon
  <1> HIDE DEF h
  <1>8. /\ job' \in [Request -> Job] /\ job'[p] = k
        /\ \A q \in Request : q # p => job'[q] = job[q]
    BY <1>1, <1>2, Zenon
  <1>9. /\ worker' \in [Worker -> Local] /\ worker'[w] = l
        /\ \A v \in Worker : v # w => worker'[v] = worker[v]
    BY <1>1, Zenon
  <1>10. Types'
    BY <1>5, <1>8, <1>9, Zenon DEF Inv, Types
  <1>11. /\ \A q \in Request : job'[q].hash = job[q].hash
         /\ \A q \in Request : job'[q].followers = job[q].followers
    <2> SUFFICES ASSUME NEW q \in Request
                 PROVE  /\ job'[q].hash = job[q].hash
                        /\ job'[q].followers = job[q].followers
      BY Zenon
    <2> QED BY <1>4, <1>8, Zenon
  <1>12. \A v \in Worker : worker[v].pc \in Busy =>
            v # w /\ worker[v].pending # p /\ worker[v].hash # h
    <2> SUFFICES ASSUME NEW v \in Worker, worker[v].pc \in Busy
                 PROVE  v # w /\ worker[v].pending # p /\ worker[v].hash # h
      BY Zenon
    <2>1. /\ m_pending[worker[v].hash] = worker[v].pending
          /\ job[worker[v].pending].running
      BY Zenon DEF Inv, HeldOK
    <2> QED BY <2>1, <1>2, <1>3, Zenon
  <1>13. PendingOK'
    BY <1>1, <1>5, <1>11 DEF Inv, PendingOK
  <1>14. QueueOK'
    <2> SUFFICES ASSUME NEW q \in m_queue, q # p
                 PROVE  /\ job'[q].hash \in Hash /\ m_pending'[job'[q].hash] = q
                        /\ ~job'[q].running
      BY Zenon DEF QueueOK
    <2> QED BY <1>1, <1>5, <1>8 DEF Inv, QueueOK
  <1>15. ParkedOK'
    <2> SUFFICES ASSUME NEW j \in m_awaiting_quorum
                 PROVE  /\ m_pending[j] # None /\ ~job'[m_pending[j]].running
                        /\ m_pending[j] \notin m_queue
      BY <1>5, Zenon DEF ParkedOK
    <2>1. /\ m_pending[j] # None /\ ~job[m_pending[j]].running
          /\ m_pending[j] \notin m_queue
      BY Zenon DEF Inv, ParkedOK
    <2> QED BY <1>1, <1>8, <2>1, Zenon
  <1>16. HeldOK'
    <2> SUFFICES ASSUME NEW v \in Worker, worker'[v].pc \in Busy
                 PROVE  /\ worker'[v].pending \in Request /\ worker'[v].hash \in Hash
                        /\ m_pending[worker'[v].hash] = worker'[v].pending
                        /\ job'[worker'[v].pending].running
      BY <1>5, Zenon DEF HeldOK
    <2>1. CASE v = w
      BY <2>1, <1>2, <1>4, <1>7, <1>8, <1>9, ZenonT(30)
    <2>2. CASE v # w
      BY <2>2, <1>8, <1>9, <1>12, ZenonT(30) DEF Inv, HeldOK
    <2> QED BY <2>1, <2>2, Zenon
  <1>17. HeldOnce'
    <2> SUFFICES ASSUME NEW u \in Worker, NEW v \in Worker,
                        worker'[u].pc \in Busy, worker'[v].pc \in Busy,
                        worker'[u].hash = worker'[v].hash
                 PROVE  u = v
      BY Zenon DEF HeldOnce
    <2>1. CASE u = w \/ v = w
      BY <2>1, <1>7, <1>9, <1>12, Zenon
    <2>2. CASE u # w /\ v # w
      BY <2>2, <1>9, Zenon DEF Inv, HeldOnce
    <2> QED BY <2>1, <2>2, Zenon
  <1>18. Placed'
    <2> SUFFICES ASSUME NEW j \in Hash, m_pending[j] # None
                 PROVE  \/ m_pending[j] \in m_queue'
                        \/ j \in m_awaiting_quorum
                        \/ \E v \in Worker : worker'[v].pc \in Busy
                                             /\ worker'[v].hash = j
      BY <1>5, Zenon DEF Placed
    <2>1. CASE m_pending[j] = p
      <3>1. j = h
        BY <2>1, <1>2, <1>4, Zenon DEF Inv, PendingOK
      <3>2. worker'[w].pc \in Busy /\ worker'[w].hash = j
        BY <3>1, <1>3, <1>7, <1>9, Zenon
      <3> QED BY <3>2, Zenon
    <2>2. CASE m_pending[j] # p
      <3>1. CASE \E v \in Worker : worker[v].pc \in Busy /\ worker[v].hash = j
        BY <3>1, <1>9, <1>12, Zenon
      <3> QED BY <2>2, <3>1, Zenon DEF Inv, Placed
    <2> QED BY <2>1, <2>2, Zenon
  <1>19. GoneOK'
    <2>1. \A v \in Worker : worker'[v].expired = worker[v].expired
      BY <1>7, <1>9, Zenon
    <2> QED BY <2>1, <1>5, ZenonT(30) DEF Inv, GoneOK, Unregistered
  <1>20. OwnersOK'
    <2>1. \A q \in Request :
            \/ job'[q] = job[q]
            \/ /\ job'[q].hash = job[q].hash /\ job[q].hash # None
               /\ job'[q].followers = job[q].followers
      BY <1>2, <1>4, <1>8, <1>11, ZenonT(30)
    <2> QED BY <1>1, <1>5, <1>10, <2>1, OwnersShrink
  <1>21. LocalOK'
    <2>1. l.pc # "complete" /\ l.pc \in Busy
      BY <1>3, Zenon
    <2> QED BY <2>1, LocalStep, Zenon
  <1>22. QuorumOK'
    <2>1. \A v \in Worker : worker[v].pc = "recheck" => worker'[v] = worker[v]
      BY <1>9, Zenon
    <2> QED BY <2>1, <1>5, QuorumSame, Zenon
  <1> QED BY <1>10, <1>13, <1>14, <1>15, <1>16, <1>17, <1>18, <1>19, <1>20, <1>21,
             <1>22, Zenon DEF Inv

(* The thread's and the job's records. *)
LEMMA TakeRecords ==
    ASSUME Inv, NEW w \in Worker, worker[w].pc = "take", NEW p \in m_queue, NEW tip,
           job' = [job EXCEPT ![p].running = TRUE],
           worker' = [worker EXCEPT
                        ![w].pc = "start", ![w].pending = p, ![w].hash = job[p].hash,
                        ![w].tip_extending = TipExtending(job[p].hash, tip)]
    PROVE  \E k \in Job, l \in Local :
              /\ job' = [job EXCEPT ![p] = k]
              /\ worker' = [worker EXCEPT ![w] = l]
              /\ k.hash = job[p].hash /\ k.running /\ k.followers = job[p].followers
              /\ l.pc = "start" /\ l.pending = p /\ l.hash = job[p].hash
              /\ l.failure = "none" /\ l.expired = worker[w].expired
  <1> DEFINE h == job[p].hash
             t == TipExtending(h, tip)
             k == [job[p] EXCEPT !.running = TRUE]
             l == [worker[w] EXCEPT !.pc = "start", !.pending = p, !.hash = h,
                                    !.tip_extending = t]
  <1>1. /\ worker \in [Worker -> Local] /\ worker[w] \in Local
        /\ job \in [Request -> Job] /\ m_queue \subseteq Request
    BY Zenon DEF Inv, Types
  <1>2. p \in Request /\ job[p] \in Job /\ h \in Hash
    BY <1>1, Zenon DEF Inv, QueueOK
  <1>3. worker[w].failure = "none" /\ "start" \in Step /\ t \in BOOLEAN
    BY Zenon DEF Inv, LocalOK, Step, TipExtending
  <1>4. /\ k \in Job /\ k.hash = job[p].hash /\ k.running
        /\ k.followers = job[p].followers
    BY <1>2, JobFacts, Zenon
  <1>5. job' = [job EXCEPT ![p] = k] /\ worker' = [worker EXCEPT ![w] = l]
    BY <1>1, <1>2, Zenon
  <1> HIDE DEF t, k
  <1>6. /\ l \in Local /\ l.pc = "start" /\ l.pending = p /\ l.hash = job[p].hash
        /\ l.failure = "none" /\ l.expired = worker[w].expired
    BY <1>1, <1>2, <1>3, Zenon DEF Local
  <1> HIDE DEF h, l
  <1> QED BY <1>4, <1>5, <1>6, Zenon

(* The second region of the loop. *)
LEMMA TakeInv ==
    ASSUME Inv, NEW w \in Worker, NEW tip, Take(w, tip)
    PROVE  Inv'
  <1>1. /\ worker[w].pc = "take"
        /\ UNCHANGED <<req, m_next_sequence, m_pending, m_awaiting_quorum,
                       m_awaiting_quorum_bytes, stopping, attestation, memo>>
    BY Zenon DEF Take
  <1>2. CASE Stopped \/ m_queue = {}
    <2>1. PICK pc \in {"exit", "loop"} : Goto(w, pc) /\ UNCHANGED <<job, m_queue>>
      BY <1>2, Zenon DEF Take
    <2>2. /\ pc \in Step /\ pc \notin Busy /\ worker[w].pc \notin Busy
          /\ pc \notin {"recheck", "complete"}
          /\ worker[w].pc \notin {"recheck", "complete"}
      BY <1>1, <2>1, Zenon DEF Step, Busy
    <2>3. UNCHANGED <<callers, pool, stopping, attestation, memo>>
      BY <1>1, <2>1, Zenon DEF callers, pool
    <2> QED BY <2>1, <2>2, <2>3, GotoInv, Zenon
  <1>3. CASE ~(Stopped \/ m_queue = {})
    <2>1. PICK p \in m_queue :
            /\ m_queue' = m_queue \ {p}
            /\ job' = [job EXCEPT ![p].running = TRUE]
            /\ worker' = [worker EXCEPT
                 ![w].pc = "start", ![w].pending = p, ![w].hash = job[p].hash,
                 ![w].tip_extending = TipExtending(job[p].hash, tip)]
      BY <1>3, Zenon DEF Take
    <2>2. PICK k \in Job, l \in Local :
            /\ job' = [job EXCEPT ![p] = k]
            /\ worker' = [worker EXCEPT ![w] = l]
            /\ k.hash = job[p].hash /\ k.running /\ k.followers = job[p].followers
            /\ l.pc = "start" /\ l.pending = p /\ l.hash = job[p].hash
            /\ l.failure = "none" /\ l.expired = worker[w].expired
      BY <1>1, <2>1, TakeRecords, Zenon
    <2> QED BY <1>1, <2>1, <2>2, TakeJobInv, ZenonT(30)
  <1> QED BY <1>2, <1>3, Zenon

(* The thread parks its job, which becomes k, and goes on to the recheck   *)
(* with the locals l.                                                      *)
LEMMA ParkJobInv ==
    ASSUME Inv, NEW w \in Worker, worker[w].pc = "park",
           NEW k \in Job, NEW l \in Local,
           m_awaiting_quorum' = m_awaiting_quorum \cup {worker[w].hash},
           job' = [job EXCEPT ![worker[w].pending] = k],
           worker' = [worker EXCEPT ![w] = l],
           k.hash = job[worker[w].pending].hash, ~k.running,
           k.followers = job[worker[w].pending].followers,
           l.pc = "recheck", l.hash = worker[w].hash,
           l.failure = "none", l.expired = worker[w].expired,
           UNCHANGED <<req, m_next_sequence, m_queue, m_pending,
                       stopping, attestation, memo>>
    PROVE  Inv'
  <1> DEFINE p == worker[w].pending
             h == worker[w].hash
  <1>1. /\ worker \in [Worker -> Local]
        /\ m_next_sequence \in Nat /\ job \in [Request -> Job]
        /\ m_queue \subseteq Request /\ m_awaiting_quorum \subseteq Hash
        /\ m_pending \in [Hash -> Request \cup {None}]
    BY Zenon DEF Inv, Types
  <1>2. worker[w].pc \in Busy /\ l.pc \notin Busy
    BY Zenon DEF Busy
  <1>3. /\ p \in Request /\ h \in Hash /\ job[p].hash = h /\ h # None /\ p # None
        /\ m_pending[h] = p /\ p \notin m_queue
    BY <1>2, HeldJob, Zenon
  <1>4. UNCHANGED <<req, m_next_sequence, m_queue, m_pending, orphaned,
                    quorum, notifying, missed, memo>>
    BY Zenon DEF stopping, attestation
  <1>5. k.hash = h /\ k.followers = job[p].followers /\ l.hash = h
    BY <1>3, Zenon
  <1>6. /\ job' \in [Request -> Job] /\ job'[p] = k
        /\ \A q \in Request : q # p => job'[q] = job[q]
    BY <1>1, <1>3, Zenon
  <1>7. /\ worker' \in [Worker -> Local] /\ worker'[w] = l
        /\ \A v \in Worker : v # w => worker'[v] = worker[v]
    BY <1>1, Zenon
  <1>8. m_awaiting_quorum' = m_awaiting_quorum \cup {h}
    BY Zenon
  <1>9. \A v \in Worker : v # w /\ worker[v].pc \in Busy =>
           worker[v].pending # p /\ worker[v].hash # h
    <2> SUFFICES ASSUME NEW v \in Worker, v # w, worker[v].pc \in Busy
                 PROVE  worker[v].pending # p /\ worker[v].hash # h
      BY Zenon
    <2>1. worker[v].hash # h
      BY <1>2, Zenon DEF Inv, HeldOnce
    <2>2. job[worker[v].pending].hash = worker[v].hash
      BY HeldJob, Zenon
    <2> QED BY <2>1, <2>2, <1>3, Zenon
  <1> HIDE DEF p, h
  <1>10. Types'
    BY <1>1, <1>3, <1>4, <1>6, <1>7, <1>8, Zenon DEF Inv, Types
  <1>11. \A q \in Request : /\ job'[q].hash = job[q].hash
                            /\ job'[q].followers = job[q].followers
                            /\ job'[q].running => job[q].running
    <2> SUFFICES ASSUME NEW q \in Request
                 PROVE  /\ job'[q].hash = job[q].hash
                        /\ job'[q].followers = job[q].followers
                        /\ job'[q].running => job[q].running
      BY Zenon
    <2> QED BY <1>3, <1>5, <1>6, Zenon
  <1>12. PendingOK'
    BY <1>1, <1>4, <1>11 DEF Inv, PendingOK
  <1>13. QueueOK'
    BY <1>1, <1>4, <1>11 DEF Inv, QueueOK
  <1>14. ParkedOK'
    <2> SUFFICES ASSUME NEW j \in m_awaiting_quorum'
                 PROVE  /\ m_pending[j] # None /\ ~job'[m_pending[j]].running
                        /\ m_pending[j] \notin m_queue
      BY <1>4, Zenon DEF ParkedOK
    <2>1. CASE j = h
      BY <2>1, <1>3, <1>6
    <2>2. CASE j \in m_awaiting_quorum
      <3>1. /\ m_pending[j] # None /\ ~job[m_pending[j]].running
            /\ m_pending[j] \notin m_queue
        BY <2>2, Zenon DEF Inv, ParkedOK
      <3> QED BY <2>2, <3>1, <1>1, <1>11, ZenonT(30)
    <2> QED BY <2>1, <2>2, <1>8, Zenon
  <1>15. \A v \in Worker : worker'[v].pc \in Busy =>
           v # w /\ worker'[v] = worker[v] /\ worker[v].pc \in Busy
    BY <1>2, <1>7, Zenon
  <1>16. HeldOK'
    <2> SUFFICES ASSUME NEW v \in Worker, worker'[v].pc \in Busy
                 PROVE  /\ worker[v].pending \in Request /\ worker[v].hash \in Hash
                        /\ m_pending[worker[v].hash] = worker[v].pending
                        /\ job'[worker[v].pending].running
      BY <1>4, <1>15, Zenon DEF HeldOK
    <2>1. v # w /\ worker[v].pc \in Busy
      BY <1>15, Zenon
    <2>2. worker[v].pending # p
      BY <2>1, <1>9, Zenon
    <2>3. /\ worker[v].pending \in Request /\ worker[v].hash \in Hash
          /\ m_pending[worker[v].hash] = worker[v].pending
          /\ job[worker[v].pending].running
      BY <2>1, Zenon DEF Inv, HeldOK
    <2> QED BY <2>2, <2>3, <1>6, Zenon
  <1>17. HeldOnce'
    BY <1>15, ZenonT(30) DEF Inv, HeldOnce
  <1>18. Placed'
    <2> SUFFICES ASSUME NEW j \in Hash, m_pending[j] # None
                 PROVE  \/ m_pending[j] \in m_queue
                        \/ j \in m_awaiting_quorum'
                        \/ \E v \in Worker : worker'[v].pc \in Busy
                                             /\ worker'[v].hash = j
      BY <1>4, Zenon DEF Placed
    <2>1. CASE j = h
      BY <2>1, <1>8, Zenon
    <2>2. CASE j # h
      <3>1. CASE \E v \in Worker : worker[v].pc \in Busy /\ worker[v].hash = j
        <4>1. PICK v \in Worker : worker[v].pc \in Busy /\ worker[v].hash = j
          BY <3>1, Zenon
        <4>2. v # w
          BY <2>2, <4>1, Zenon DEF h
        <4> QED BY <4>1, <4>2, <1>7, Zenon
      <3> QED BY <3>1, <1>8, Zenon DEF Inv, Placed
    <2> QED BY <2>1, <2>2, Zenon
  <1>19. GoneOK'
    <2>1. \A v \in Worker : worker'[v].expired = worker[v].expired
      BY <1>7, Zenon
    <2> QED BY <2>1, <1>4, ZenonT(30) DEF Inv, GoneOK, Unregistered
  <1>20. OwnersOK'
    <2>1. \A q \in Request :
            \/ job'[q] = job[q]
            \/ /\ job'[q].hash = job[q].hash /\ job[q].hash # None
               /\ job'[q].followers = job[q].followers
      BY <1>3, <1>6, <1>11, Zenon
    <2> QED BY <1>1, <1>4, <1>10, <2>1, OwnersShrink
  <1>21. LocalOK'
    BY LocalStep, Zenon
  <1>22. QuorumOK'
    <2>1. NoLostQuorum'
      <3> SUFFICES ASSUME NEW j \in m_awaiting_quorum', j \in quorum, j \notin missed
                   PROVE  \/ j \in notifying
                          \/ \E v \in Worker : /\ worker'[v].pc = "recheck"
                                               /\ worker'[v].hash = j
        BY <1>4, Zenon DEF NoLostQuorum, Rechecking
      <3>1. CASE j = h
        <4>1. worker'[w].pc = "recheck" /\ worker'[w].hash = j
          BY <3>1, <1>5, <1>7, Zenon
        <4> QED BY <4>1, Zenon
      <3>2. CASE j \in m_awaiting_quorum
        <4>1. CASE \E v \in Worker : worker[v].pc = "recheck" /\ worker[v].hash = j
          BY <4>1, <1>7, Zenon
        <4> QED BY <4>1, <3>2, Zenon DEF Inv, QuorumOK, NoLostQuorum, Rechecking
      <3> QED BY <3>1, <3>2, <1>8, Zenon
    <2> QED BY <2>1, <1>4, Zenon DEF Inv, QuorumOK
  <1> QED BY <1>10, <1>12, <1>13, <1>14, <1>16, <1>17, <1>18, <1>19, <1>20, <1>21,
             <1>22, Zenon DEF Inv

(* Parking, or giving up when the parked set is full. *)
LEMMA ParkInv ==
    ASSUME Inv, NEW w \in Worker, Park(w)
    PROVE  Inv'
  <1> DEFINE p == worker[w].pending
             k == [job[p] EXCEPT !.rc_pending_lease = None, !.running = FALSE]
             l == [worker[w] EXCEPT !.pc = "recheck"]
  <1>1. /\ worker[w].pc = "park" /\ worker[w].pc \in Busy /\ "recheck" \in Step
        /\ UNCHANGED <<stopping, attestation, memo>>
    BY Zenon DEF Park, Busy, Step
  <1>2. CASE FinishRetryable(w)
    BY <1>1, <1>2, FinishRetryableInv, Zenon
  <1>3. CASE /\ job' = [job EXCEPT ![p].rc_pending_lease = None, ![p].running = FALSE]
             /\ m_awaiting_quorum' = m_awaiting_quorum \cup {worker[w].hash}
             /\ Goto(w, "recheck")
             /\ UNCHANGED <<req, m_next_sequence, m_queue, m_pending>>
    <2>1. /\ worker \in [Worker -> Local] /\ worker[w] \in Local
          /\ job \in [Request -> Job] /\ p \in Request /\ job[p] \in Job
      BY <1>1, HeldJob, Zenon DEF Inv, Types
    <2>2. worker[w].failure = "none"
      BY <1>1, Zenon DEF Inv, LocalOK
    <2>3. /\ k \in Job /\ k.hash = job[p].hash /\ ~k.running
          /\ k.followers = job[p].followers
      BY <2>1, JobFacts, Zenon
    <2>4. /\ l \in Local /\ l.pc = "recheck" /\ l.hash = worker[w].hash
          /\ l.failure = "none" /\ l.expired = worker[w].expired
      BY <1>1, <2>1, <2>2, GotoFacts
    <2>5. job' = [job EXCEPT ![p] = k]
      BY <1>3, <2>1, Zenon
    <2>6. worker' = [worker EXCEPT ![w] = l]
      BY <1>3, <2>1, Zenon DEF Goto
    <2> HIDE DEF k, l
    <2> QED BY <1>1, <1>3, <2>3, <2>4, <2>5, <2>6, ParkJobInv, Zenon
  <1> HIDE DEF k, l
  <1> QED BY <1>2, <1>3, Zenon DEF Park
-----------------------------------------------------------------------------
(* The steps that take jobs out. *)

(* TakeExpiredAwaitingQuorum: the jobs in ps leave the parked set. *)
LEMMA TakeExpiredInv ==
    ASSUME Inv, NEW w \in Worker, worker[w].pc = "loop", NEW late,
           TakeExpired(w, late), UNCHANGED <<callers, stopping, attestation, memo>>
    PROVE  Inv'
  <1> DEFINE hs == Expired(late)
             ps == {m_pending[h] : h \in hs}
             l == [worker[w] EXCEPT !.pc = "expire", !.expired = ps]
  <1>1. /\ worker \in [Worker -> Local] /\ worker[w] \in Local
        /\ m_next_sequence \in Nat /\ m_queue \subseteq Request
        /\ m_awaiting_quorum \subseteq Hash
        /\ m_pending \in [Hash -> Request \cup {None}]
    BY Zenon DEF Inv, Types
  <1>2. hs \subseteq m_awaiting_quorum
    BY Zenon DEF Expired
  <1>3. /\ m_pending' = [h \in Hash |-> IF h \in hs THEN None ELSE m_pending[h]]
        /\ m_awaiting_quorum' = m_awaiting_quorum \ hs
        /\ worker' = [worker EXCEPT ![w].pc = "expire", ![w].expired = ps]
        /\ UNCHANGED <<req, job, m_next_sequence, m_queue, orphaned, quorum,
                       notifying, missed, memo>>
    BY Zenon DEF TakeExpired, callers, stopping, attestation
  <1> HIDE DEF hs
  <1>4. /\ \A h \in hs : m_pending[h] \in Request /\ m_pending[h] \notin m_queue
        /\ ps \subseteq Request
    BY <1>1, <1>2, Zenon DEF Inv, ParkedOK
  <1>5. \A q \in ps : Unregistered(q)'
    <2> SUFFICES ASSUME NEW q \in ps PROVE Unregistered(q)'
      BY Zenon
    <2>0. PICK h \in hs : q = m_pending[h]
      BY Zenon
    <2>1. h \in Hash /\ m_pending[h] # None
      BY <1>1, <1>2, <1>4, Zenon
    <2>2. job[q].hash = h /\ q < m_next_sequence
      BY <2>0, <2>1, Zenon DEF Inv, PendingOK
    <2> SUFFICES ASSUME NEW k \in Hash PROVE m_pending'[k] # q
      BY <1>3, <2>2, Zenon DEF Unregistered
    <2>3. CASE k \in hs
      BY <2>0, <2>1, <2>2, <2>3, <1>3, Zenon
    <2>4. CASE k \notin hs
      <3>1. m_pending'[k] = m_pending[k]
        BY <2>4, <1>3, Zenon
      <3>2. m_pending[k] # None => job[m_pending[k]].hash = k
        BY Zenon DEF Inv, PendingOK
      <3> QED BY <2>0, <2>1, <2>2, <2>4, <3>1, <3>2, Zenon
    <2> QED BY <2>3, <2>4, Zenon
  <1> HIDE DEF ps
  <1>6. worker' = [worker EXCEPT ![w] = l]
    BY <1>1, <1>3, Zenon
  <1>7. /\ l \in Local /\ l.pc = "expire" /\ l.expired = ps
        /\ l.pending = worker[w].pending /\ l.failure = worker[w].failure
    BY <1>1, <1>4, Zenon DEF Local, Step
  <1> HIDE DEF l
  <1>8. l.pc \notin Busy /\ worker[w].pc \notin Busy
    BY <1>7, Zenon DEF Busy
  <1>9. /\ worker' \in [Worker -> Local] /\ worker'[w] = l
        /\ \A v \in Worker : v # w => worker'[v] = worker[v]
    BY <1>1, <1>6, <1>7, Zenon
  <1>10. /\ m_pending' \in [Hash -> Request \cup {None}]
         /\ \A k \in Hash : m_pending'[k] \in {m_pending[k], None}
         /\ \A k \in Hash : k \notin hs => m_pending'[k] = m_pending[k]
         /\ \A k \in Hash : k \in hs => m_pending'[k] = None
    BY <1>1, <1>3, Zenon
  <1>11. Types'
    BY <1>3, <1>9, <1>10, Zenon DEF Inv, Types
  <1>12. \A q \in m_queue' : q \in m_queue /\ m_pending'[job[q].hash] = q
    <2> SUFFICES ASSUME NEW q \in m_queue PROVE m_pending'[job[q].hash] = q
      BY <1>3, Zenon
    <2>1. job[q].hash \in Hash /\ m_pending[job[q].hash] = q
      BY Zenon DEF Inv, QueueOK
    <2> QED BY <2>1, <1>4, <1>10
  <1>13. \A k \in m_awaiting_quorum' : /\ k \in m_awaiting_quorum
                                      /\ m_pending'[k] = m_pending[k]
    BY <1>1, <1>3, <1>10, Zenon
  <1>14. \A v \in Worker :
           /\ worker'[v].pc \in Busy <=> worker[v].pc \in Busy
           /\ worker[v].pc \in Busy =>
                /\ worker'[v] = worker[v]
                /\ m_pending'[worker[v].hash] = worker[v].pending
    <2> SUFFICES ASSUME NEW v \in Worker
                 PROVE  /\ worker'[v].pc \in Busy <=> worker[v].pc \in Busy
                        /\ worker[v].pc \in Busy =>
                             /\ worker'[v] = worker[v]
                             /\ m_pending'[worker[v].hash] = worker[v].pending
      BY Zenon
    <2>1. worker[v].pc \in Busy => m_pending'[worker[v].hash] = worker[v].pending
      BY <1>2, <1>10, HeldJob, Zenon
    <2> QED BY <2>1, <1>8, <1>9, Zenon
  <1>15. \A v \in Worker : \A q \in worker'[v].expired :
            q \in worker[v].expired \/ Unregistered(q)'
    <2> SUFFICES ASSUME NEW v \in Worker, NEW q \in worker'[v].expired
                 PROVE  q \in worker[v].expired \/ Unregistered(q)'
      BY Zenon
    <2>1. CASE v = w
      BY <2>1, <1>5, <1>7, <1>9, Zenon
    <2>2. CASE v # w
      BY <2>2, <1>9, Zenon
    <2> QED BY <2>1, <2>2, Zenon
  <1>16. Places'
    <2>1. \A k \in Hash : m_pending'[k] # None => k \notin hs
      BY <1>10, Zenon
    <2> QED BY <2>1, <1>3, <1>10, <1>11, <1>12, <1>13, <1>14, <1>15,
               PlacesShrink, Zenon
  <1>17. OwnersOK'
    BY <1>3, Zenon DEF Inv, OwnersOK
  <1>18. LocalOK'
    <2>1. worker[w].pending = None /\ worker[w].failure = "none"
      BY <1>8, Zenon DEF Inv, LocalOK
    <2> QED BY <2>1, <1>6, <1>7, LocalStep, Zenon
  <1>19. QuorumOK'
    <2>1. \A v \in Worker : worker[v].pc = "recheck" => worker'[v] = worker[v]
      BY <1>9, Zenon
    <2> QED BY <2>1, <1>3, QuorumSame, Zenon
  <1> QED BY <1>11, <1>16, <1>17, <1>18, <1>19, Zenon DEF Inv, Places

(* The head of the loop. *)
LEMMA ScanInv ==
    ASSUME Inv, NEW w \in Worker, NEW late, Scan(w, late)
    PROVE  Inv'
  <1>1. /\ worker[w].pc = "loop"
        /\ UNCHANGED <<callers, stopping, attestation, memo>>
    BY Zenon DEF Scan
  <1>2. CASE TakeExpired(w, late)
    BY <1>1, <1>2, TakeExpiredInv, Zenon
  <1>3. CASE Goto(w, IF Stopped THEN "exit" ELSE "take") /\ UNCHANGED pool
    <2>1. PICK pc \in {"exit", "take"} : Goto(w, pc)
      BY <1>3, Zenon
    <2>2. /\ pc \in Step /\ pc \notin Busy /\ worker[w].pc \notin Busy
          /\ pc \notin {"recheck", "complete"}
          /\ worker[w].pc \notin {"recheck", "complete"}
      BY <1>1, <2>1, Zenon DEF Step, Busy
    <2> QED BY <1>1, <1>3, <2>1, <2>2, GotoInv, Zenon
  <1> QED BY <1>2, <1>3, Zenon DEF Scan

(* FinishRetryablePending for an expired job. *)
LEMMA FinishExpiredInv ==
    ASSUME Inv, NEW w \in Worker, FinishExpired(w)
    PROVE  Inv'
  <1> DEFINE e == worker[w].expired
  <1>1. /\ worker[w].pc = "expire"
        /\ UNCHANGED <<m_next_sequence, m_queue, m_pending, m_awaiting_quorum,
                       orphaned, quorum, notifying, missed, memo>>
    BY Zenon DEF FinishExpired, stopping, attestation
  <1>2. PICK p \in e :
          /\ req' = Answer({p}, "retryable")
          /\ job' = Destroy({p})
          /\ worker' = [worker EXCEPT
               ![w].expired = @ \ {p},
               ![w].pc = IF worker[w].expired # {p} THEN "expire"
                         ELSE IF Stopped THEN "exit" ELSE "loop"]
    BY Zenon DEF FinishExpired
  <1> DEFINE pc == IF worker[w].expired # {p} THEN "expire"
                   ELSE IF Stopped THEN "exit" ELSE "loop"
             l == [worker[w] EXCEPT !.expired = e \ {p}, !.pc = pc]
  <1>3. /\ worker \in [Worker -> Local] /\ worker[w] \in Local
        /\ m_next_sequence \in Nat /\ job \in [Request -> Job]
        /\ req \in [Request -> Answers] /\ m_queue \subseteq Request
        /\ m_pending \in [Hash -> Request \cup {None}]
    BY Zenon DEF Inv, Types
  <1>4. p \in Request /\ e \subseteq Request
    BY <1>2, <1>3, Zenon DEF Local
  <1>5. pc \in {"expire", "exit", "loop"} /\ {"expire", "exit", "loop"} \subseteq Step
    BY Zenon DEF Step
  <1> HIDE DEF pc
  <1>6. worker' = [worker EXCEPT ![w] = l]
    BY <1>2, <1>3, Zenon DEF pc
  <1>7. /\ l \in Local /\ l.pc = pc /\ l.expired \subseteq worker[w].expired
        /\ l.pending = worker[w].pending /\ l.failure = worker[w].failure
    BY <1>3, <1>4, <1>5, Zenon DEF Local
  <1> HIDE DEF l
  <1>8. l.pc \notin Busy /\ worker[w].pc \notin Busy /\ l.pc # "complete"
    BY <1>1, <1>5, <1>7, Zenon DEF Busy
  <1>9. /\ worker' \in [Worker -> Local] /\ worker'[w] = l
        /\ \A v \in Worker : v # w => worker'[v] = worker[v]
    BY <1>3, <1>6, <1>7, Zenon
  <1>10. /\ job' \in [Request -> Job] /\ job'[p] = NoJob
         /\ \A q \in Request : q # p => job'[q] = job[q]
    BY <1>2, <1>3, <1>4, NoJobFacts, Zenon DEF Destroy
  <1>11. req' \in [Request -> Answers]
    BY <1>2, <1>3, Zenon DEF Answer, Answers
  <1>12. Types'
    BY <1>1, <1>9, <1>10, <1>11, Zenon DEF Inv, Types
  <1>13. \A k \in Hash : m_pending[k] # p
    BY <1>2, Zenon DEF Inv, GoneOK, Unregistered
  <1>14. \A v \in Worker :
           /\ worker'[v].pc \in Busy <=> worker[v].pc \in Busy
           /\ worker[v].pc \in Busy => worker'[v] = worker[v]
           /\ worker'[v].expired \subseteq worker[v].expired
    BY <1>7, <1>8, <1>9, Zenon
  <1>15. Places'
    <2>1. \A q \in m_queue : m_pending[job[q].hash] = q
      BY Zenon DEF Inv, QueueOK
    <2>2. \A v \in Worker : worker[v].pc \in Busy =>
             m_pending[worker[v].hash] = worker[v].pending
      BY Zenon DEF Inv, HeldOK
    <2>3. \A q \in Request : \/ /\ job'[q].hash = job[q].hash
                                /\ job'[q].running = job[q].running
                             \/ \A k \in Hash : m_pending'[k] # q
      BY <1>1, <1>10, <1>13, Zenon
    <2> QED BY <1>1, <1>12, <1>14, <2>1, <2>2, <2>3, PlacesShrink, Zenon
  <1>16. OwnersOK'
    <2>1. \A q \in Request : job'[q] = NoJob \/ job'[q] = job[q]
      BY <1>10, Zenon
    <2> QED BY <1>1, <1>3, <1>12, <2>1, OwnersShrink
  <1>17. LocalOK'
    <2>1. worker[w].pending = None /\ worker[w].failure = "none"
      BY <1>1, <1>8, Zenon DEF Inv, LocalOK
    <2> QED BY <2>1, <1>6, <1>7, <1>8, LocalStep, Zenon
  <1>18. QuorumOK'
    <2>1. \A v \in Worker : worker[v].pc = "recheck" => worker'[v] = worker[v]
      BY <1>1, <1>9, Zenon
    <2> QED BY <2>1, <1>1, QuorumSame, Zenon
  <1> QED BY <1>12, <1>15, <1>16, <1>17, <1>18, Zenon DEF Inv, Places

(* After the joins Stop answers what it took. *)
LEMMA StopJoinedInv ==
    ASSUME Inv, StopJoined
    PROVE  Inv'
  <1>1. /\ orphaned' = {} /\ req' = Answer(orphaned, "retryable")
        /\ job' = Destroy(orphaned)
        /\ UNCHANGED <<m_next_sequence, m_queue, m_pending, m_awaiting_quorum,
                       worker, quorum, notifying, missed, memo>>
    BY Zenon DEF StopJoined, pool, attestation
  <1>2. /\ m_next_sequence \in Nat /\ job \in [Request -> Job]
        /\ req \in [Request -> Answers] /\ m_queue \subseteq Request
    BY Zenon DEF Inv, Types
  <1>3. /\ job' \in [Request -> Job]
        /\ \A q \in Request : q \in orphaned => job'[q] = NoJob
        /\ \A q \in Request : q \notin orphaned => job'[q] = job[q]
    BY <1>1, <1>2, NoJobFacts, Zenon DEF Destroy
  <1>4. req' \in [Request -> Answers]
    BY <1>1, <1>2, Zenon DEF Answer, Answers
  <1>5. Types'
    BY <1>1, <1>3, <1>4, Zenon DEF Inv, Types
  <1>6. Places'
    <2>1. \A q \in m_queue : m_pending[job[q].hash] = q
      BY Zenon DEF Inv, QueueOK
    <2>2. \A v \in Worker : worker[v].pc \in Busy =>
             m_pending[worker[v].hash] = worker[v].pending
      BY Zenon DEF Inv, HeldOK
    <2>3. \A q \in orphaned : \A k \in Hash : m_pending[k] # q
      BY Zenon DEF Inv, GoneOK, Unregistered
    <2>4. \A q \in Request : \/ /\ job'[q].hash = job[q].hash
                                /\ job'[q].running = job[q].running
                             \/ \A k \in Hash : m_pending'[k] # q
      BY <1>1, <1>3, <2>3, Zenon
    <2> QED BY <1>1, <1>5, <2>1, <2>2, <2>4, PlacesShrink, Zenon
  <1>7. OwnersOK'
    <2>1. \A q \in Request : job'[q] = NoJob \/ job'[q] = job[q]
      BY <1>3, Zenon
    <2> QED BY <1>1, <1>2, <1>5, <2>1, OwnersShrink
  <1>8. LocalOK' /\ QuorumOK'
    BY <1>1, Zenon DEF Inv, LocalOK, QuorumOK, NoLostQuorum, Rechecking
  <1> QED BY <1>5, <1>6, <1>7, <1>8, Zenon DEF Inv, Places

(* Stop takes out what is queued or parked. *)
LEMMA StopInv ==
    ASSUME Inv, Stop
    PROVE  Inv'
  <1> DEFINE taken == m_queue \cup {m_pending[h] : h \in m_awaiting_quorum}
  <1>1. /\ orphaned' = taken /\ m_queue' = {} /\ m_awaiting_quorum' = {}
        /\ job' = [p \in Request |->
                     IF p \in Registered THEN [job[p] EXCEPT !.cancelled = TRUE]
                     ELSE job[p]]
        /\ m_pending' = [h \in Hash |->
                           IF m_pending[h] \in taken THEN None ELSE m_pending[h]]
        /\ UNCHANGED <<req, m_next_sequence, worker, quorum, notifying, missed, memo>>
    BY Zenon DEF Stop, attestation
  <1>2. /\ m_next_sequence \in Nat /\ job \in [Request -> Job]
        /\ m_queue \subseteq Request /\ m_awaiting_quorum \subseteq Hash
        /\ m_pending \in [Hash -> Request \cup {None}]
    BY Zenon DEF Inv, Types
  <1>3. taken \subseteq Request
    BY <1>2, Zenon DEF Inv, ParkedOK
  <1>4. \A q \in taken : \E k \in Hash : m_pending[k] = q
    BY <1>2, Zenon DEF Inv, QueueOK
  <1>5. \A v \in Worker : worker[v].pc \in Busy => worker[v].pending \notin taken
    <2> SUFFICES ASSUME NEW v \in Worker, worker[v].pc \in Busy
                 PROVE  worker[v].pending \notin taken
      BY Zenon
    <2>1. /\ worker[v].pending \notin m_queue /\ job[worker[v].pending].running
      BY HeldJob, Zenon
    <2>2. \A h \in m_awaiting_quorum : ~job[m_pending[h]].running
      BY Zenon DEF Inv, ParkedOK
    <2> QED BY <2>1, <2>2, Zenon
  <1>6. /\ \A k \in Hash : m_pending[k] \in m_queue => m_pending[k] \in taken
        /\ \A k \in m_awaiting_quorum : m_pending[k] \in taken
    BY Zenon
  <1> HIDE DEF taken
  <1>7. /\ job' \in [Request -> Job]
        /\ \A q \in Request :
             \/ job'[q] = job[q]
             \/ /\ job'[q].hash = job[q].hash /\ job[q].hash # None
                /\ job'[q].running = job[q].running
                /\ job'[q].followers = job[q].followers
    <2>1. \A q \in Request : q \in Registered => job[q].hash # None
      BY DEF Registered, Inv, PendingOK
    <2>2. \A q \in Request :
            LET k == [job[q] EXCEPT !.cancelled = TRUE]
            IN  /\ k \in Job /\ k.hash = job[q].hash /\ k.running = job[q].running
                /\ k.followers = job[q].followers
      BY <1>2, CancelledFacts, Zenon
    <2> QED BY <1>1, <1>2, <2>1, <2>2, Zenon
  <1>8. /\ m_pending' \in [Hash -> Request \cup {None}]
        /\ \A k \in Hash : m_pending[k] \in taken => m_pending'[k] = None
        /\ \A k \in Hash : m_pending[k] \notin taken => m_pending'[k] = m_pending[k]
    BY <1>1, <1>2, Zenon
  <1>9. Types'
    BY <1>1, <1>3, <1>7, <1>8, Zenon DEF Inv, Types
  <1>10. \A q \in taken : Unregistered(q)'
    <2> SUFFICES ASSUME NEW q \in taken PROVE Unregistered(q)'
      BY Zenon
    <2>1. q \in Request /\ q # None
      BY <1>3, Zenon
    <2>2. q < m_next_sequence
      BY <1>4, <2>1, Zenon DEF Inv, PendingOK
    <2>3. \A k \in Hash : m_pending'[k] # q
      BY <1>8, <2>1, Zenon
    <2> QED BY <1>1, <2>2, <2>3, Zenon DEF Unregistered
  <1>11. Places'
    <2>1. \A v \in Worker : worker'[v].pc \in Busy =>
            /\ worker[v].pc \in Busy /\ worker'[v] = worker[v]
            /\ m_pending'[worker[v].hash] = worker[v].pending
      <3> SUFFICES ASSUME NEW v \in Worker, worker[v].pc \in Busy
                   PROVE  m_pending'[worker[v].hash] = worker[v].pending
        BY <1>1, Zenon
      <3>1. /\ worker[v].hash \in Hash
            /\ m_pending[worker[v].hash] = worker[v].pending
        BY HeldJob, Zenon
      <3> QED BY <3>1, <1>5, <1>8, Zenon
    <2>2. \A k \in Hash : m_pending'[k] # None =>
            m_pending[k] \notin m_queue /\ k \notin m_awaiting_quorum
      BY <1>6, <1>8, Zenon
    <2>3. \A k \in Hash : m_pending'[k] \in {m_pending[k], None}
      BY <1>8, Zenon
    <2>4. \A q \in Request : /\ job'[q].hash = job[q].hash
                             /\ job'[q].running = job[q].running
      BY <1>7, Zenon
    <2> QED BY <1>1, <1>9, <1>10, <2>1, <2>2, <2>3, <2>4, PlacesShrink, Zenon
  <1>12. OwnersOK'
    BY <1>1, <1>2, <1>7, <1>9, OwnersShrink
  <1>13. LocalOK'
    BY <1>1, Zenon DEF Inv, LocalOK
  <1>14. QuorumOK'
    BY <1>1, QuorumSame, Zenon
  <1> QED BY <1>9, <1>11, <1>12, <1>13, <1>14, Zenon DEF Inv, Places

(* Cancel and CancelIf destroy what does not run and raise the latch of    *)
(* what does.                                                              *)
LEMMA CancelIfInv ==
    ASSUME Inv, NEW hs, CancelIf(hs)
    PROVE  Inv'
  <1> DEFINE hit == {p \in Registered : job[p].hash \in hs /\ ~ProtectsBodyReplay(p)}
             gone == {p \in hit : ~job[p].running}
             unparked == {h \in m_awaiting_quorum : m_pending[h] \in gone}
  <1>1. /\ m_queue' = m_queue \ gone /\ m_awaiting_quorum' = m_awaiting_quorum \ unparked
        /\ job' = [p \in Request |->
                     IF p \in gone THEN NoJob
                     ELSE IF p \in hit THEN [job[p] EXCEPT !.cancelled = TRUE]
                     ELSE job[p]]
        /\ m_pending' = [h \in Hash |->
                           IF m_pending[h] \in gone THEN None ELSE m_pending[h]]
        /\ req' = Answer(gone, "dropped")
        /\ UNCHANGED <<m_next_sequence, orphaned, worker, quorum, notifying, missed, memo>>
    BY Zenon DEF CancelIf, attestation, stopping
  <1>2. /\ m_next_sequence \in Nat /\ job \in [Request -> Job]
        /\ m_queue \subseteq Request /\ m_awaiting_quorum \subseteq Hash
        /\ m_pending \in [Hash -> Request \cup {None}]
        /\ req \in [Request -> Answers]
    BY Zenon DEF Inv, Types
  <1>3. /\ gone \subseteq Request /\ hit \subseteq Request
        /\ \A q \in hit : job[q].hash # None
        /\ \A q \in gone : ~job[q].running
        /\ \A k \in m_awaiting_quorum : k \in unparked <=> m_pending[k] \in gone
    BY <1>2 DEF Registered, Inv, PendingOK
  <1> HIDE DEF hit, gone, unparked
  <1>4. /\ job' \in [Request -> Job]
        /\ \A q \in Request : q \in gone => job'[q] = NoJob
        /\ \A q \in Request : q \notin gone =>
             \/ job'[q] = job[q]
             \/ /\ job'[q].hash = job[q].hash /\ job[q].hash # None
                /\ job'[q].running = job[q].running
                /\ job'[q].followers = job[q].followers
    <2>1. \A q \in Request :
            LET k == [job[q] EXCEPT !.cancelled = TRUE]
            IN  /\ k \in Job /\ k.hash = job[q].hash /\ k.running = job[q].running
                /\ k.followers = job[q].followers
      BY <1>2, CancelledFacts, Zenon
    <2> QED BY <1>1, <1>2, <1>3, <2>1, NoJobFacts, Zenon
  <1>5. /\ m_pending' \in [Hash -> Request \cup {None}]
        /\ \A k \in Hash : m_pending[k] \in gone => m_pending'[k] = None
        /\ \A k \in Hash : m_pending[k] \notin gone => m_pending'[k] = m_pending[k]
    BY <1>1, <1>2, Zenon
  <1>6. req' \in [Request -> Answers]
    BY <1>1, <1>2, Zenon DEF Answer, Answers
  <1>7. Types'
    BY <1>1, <1>2, <1>4, <1>5, <1>6, Zenon DEF Inv, Types
  <1>8. Places'
    <2>1. \A v \in Worker : worker'[v].pc \in Busy =>
            /\ worker[v].pc \in Busy /\ worker'[v] = worker[v]
            /\ m_pending'[worker[v].hash] = worker[v].pending
      <3> SUFFICES ASSUME NEW v \in Worker, worker[v].pc \in Busy
                   PROVE  m_pending'[worker[v].hash] = worker[v].pending
        BY <1>1, Zenon
      <3>1. /\ worker[v].hash \in Hash /\ job[worker[v].pending].running
            /\ m_pending[worker[v].hash] = worker[v].pending
        BY HeldJob, Zenon
      <3> QED BY <3>1, <1>3, <1>5, Zenon
    <2>2. \A q \in m_queue' : q \in m_queue /\ m_pending'[job[q].hash] = q
      <3> SUFFICES ASSUME NEW q \in m_queue, q \notin gone
                   PROVE  m_pending'[job[q].hash] = q
        BY <1>1, Zenon
      <3>1. job[q].hash \in Hash /\ m_pending[job[q].hash] = q
        BY Zenon DEF Inv, QueueOK
      <3> QED BY <3>1, <1>5, Zenon
    <2>3. \A k \in m_awaiting_quorum' : /\ k \in m_awaiting_quorum
                                       /\ m_pending'[k] = m_pending[k]
      BY <1>1, <1>2, <1>3, <1>5, Zenon
    <2>4. \A k \in Hash : m_pending'[k] \in {m_pending[k], None}
      BY <1>5, Zenon
    <2>5. \A k \in Hash : m_pending'[k] # None => m_pending[k] \notin gone
      BY <1>5, Zenon
    <2>6. \A q \in Request : \/ /\ job'[q].hash = job[q].hash
                                /\ job'[q].running = job[q].running
                             \/ \A k \in Hash : m_pending'[k] # q
      <3> SUFFICES ASSUME NEW q \in Request, q \in gone, NEW k \in Hash
                   PROVE  m_pending'[k] # q
        BY <1>4, Zenon
      <3> QED BY <1>5, Zenon
    <2>7. \A k \in Hash : m_pending'[k] # None =>
            /\ m_pending[k] \in m_queue => m_pending[k] \in m_queue'
            /\ k \in m_awaiting_quorum => k \in m_awaiting_quorum'
      BY <1>1, <1>3, <2>5, Zenon
    <2> QED BY <1>1, <1>7, <2>1, <2>2, <2>3, <2>4, <2>6, <2>7, PlacesShrink,
               Zenon
  <1>9. OwnersOK'
    BY <1>1, <1>2, <1>4, <1>7, OwnersShrink
  <1>10. LocalOK'
    BY <1>1, Zenon DEF Inv, LocalOK
  <1>11. QuorumOK'
    BY <1>1, QuorumSame, Zenon
  <1> QED BY <1>7, <1>8, <1>9, <1>10, <1>11, Zenon DEF Inv, Places

-----------------------------------------------------------------------------
(* The steps that hand a job in. *)

(* The next number is nobody's. *)
LEMMA Fresh ==
    ASSUME Inv, NEW r \in Request, r = m_next_sequence
    PROVE  /\ job[r] = NoJob /\ job[r].hash = None /\ r \notin m_queue
           /\ \A k \in Hash : m_pending[k] # r
           /\ \A q \in Request : r \notin job[q].followers
           /\ r \notin orphaned
           /\ \A v \in Worker : r \notin worker[v].expired
  <1>1. m_next_sequence \in Nat
    BY Zenon DEF Inv, Types
  <1>2. job[r].hash = None /\ job[r] = NoJob
    BY <1>1 DEF Inv, OwnersOK
  <1>3. r \notin m_queue
    BY <1>2, Zenon DEF Inv, QueueOK
  <1>4. \A k \in Hash : m_pending[k] # r
    BY <1>1 DEF Inv, PendingOK
  <1>5. \A q \in Request : r \notin job[q].followers
    BY <1>1 DEF Inv, OwnersOK
  <1>6. r \notin orphaned /\ \A v \in Worker : r \notin worker[v].expired
    BY <1>1 DEF Inv, GoneOK, Unregistered
  <1> QED BY <1>2, <1>3, <1>4, <1>5, <1>6, Zenon

(* A thread is started, or none. *)
LEMMA StartThreadFacts ==
    ASSUME Inv, NEW queued, StartThread(queued)
    PROVE  /\ worker' \in [Worker -> Local]
           /\ \A v \in Worker :
                /\ worker'[v].pc \in Busy <=> worker[v].pc \in Busy
                /\ worker'[v].pc \in Busy => worker'[v] = worker[v]
                /\ worker'[v].expired \subseteq worker[v].expired
                /\ worker[v].pc = "recheck" => worker'[v] = worker[v]
           /\ LocalOK'
  <1>1. worker \in [Worker -> Local]
    BY Zenon DEF Inv, Types
  <1>2. CASE UNCHANGED worker
    <2>1. LocalOK'
      BY <1>2, Zenon DEF Inv, LocalOK
    <2> QED BY <1>1, <1>2, <2>1, Zenon
  <1>3. CASE \E w \in Worker : /\ worker[w].pc = "none"
                               /\ worker' = [worker EXCEPT ![w] = At("loop")]
    <2>1. PICK w \in Worker : /\ worker[w].pc = "none"
                             /\ worker' = [worker EXCEPT ![w] = At("loop")]
      BY <1>3, Zenon
    <2>2. /\ worker' \in [Worker -> Local] /\ worker'[w] = At("loop")
          /\ At("loop").pc \notin Busy /\ worker[w].pc \notin Busy
          /\ At("loop").expired = {}
          /\ \A v \in Worker : v # w => worker'[v] = worker[v]
      BY <1>1, <2>1, AtFacts, ZenonT(30) DEF Busy, Step
    <2>3. LocalOK'
      BY <2>1, AtFacts, LocalStep, Zenon DEF Step
    <2> QED BY <2>1, <2>2, <2>3, Zenon
  <1> QED BY <1>2, <1>3, Zenon DEF StartThread

(* The new job r is queued under h.  The queued jobs in gone are dropped. *)
LEMMA PlacesGrow ==
    ASSUME Inv, Types', NEW h \in Hash,
           m_next_sequence \in Request, m_next_sequence' = m_next_sequence + 1,
           m_pending[h] = None, m_pending'[h] = m_next_sequence,
           m_next_sequence \in m_queue',
           m_queue' \subseteq m_queue \cup {m_next_sequence},
           \A k \in Hash : k # h /\ m_pending[k] \in m_queue \ m_queue' =>
              m_pending'[k] = None,
           \A k \in Hash : k # h /\ m_pending[k] \notin m_queue \ m_queue' =>
              m_pending'[k] = m_pending[k],
           UNCHANGED <<m_awaiting_quorum, orphaned>>,
           job'[m_next_sequence].hash = h, ~job'[m_next_sequence].running,
           \A q \in Request : q # m_next_sequence /\ q \notin m_queue \ m_queue' =>
              job'[q].hash = job[q].hash /\ job'[q].running = job[q].running,
           \A v \in Worker :
              /\ worker'[v].pc \in Busy <=> worker[v].pc \in Busy
              /\ worker'[v].pc \in Busy => worker'[v] = worker[v]
              /\ worker'[v].expired \subseteq worker[v].expired
    PROVE  Places'
  <1> DEFINE r == m_next_sequence
             gone == m_queue \ m_queue'
  <1>10. /\ r \in Request /\ r = m_next_sequence /\ gone \subseteq m_queue
         /\ m_pending'[h] = r
         /\ m_queue' = (m_queue \cup {r}) \ gone /\ r \in m_queue'
         /\ \A k \in Hash : k # h /\ m_pending[k] \in gone => m_pending'[k] = None
         /\ \A k \in Hash : k # h /\ m_pending[k] \notin gone =>
              m_pending'[k] = m_pending[k]
         /\ job'[r].hash = h /\ ~job'[r].running
         /\ \A q \in Request : q # r /\ q \notin gone =>
              job'[q].hash = job[q].hash /\ job'[q].running = job[q].running
    BY ZenonT(30)
  <1> HIDE DEF r, gone
  <1>0. /\ m_next_sequence \in Nat
        /\ m_pending \in [Hash -> Request \cup {None}]
        /\ m_queue \subseteq Request /\ m_awaiting_quorum \subseteq Hash
        /\ orphaned \subseteq Request /\ None \notin Request
        /\ \A v \in Worker : worker[v].expired \subseteq Request
    BY Zenon DEF Inv, Types, Local
  <1>1. /\ r \notin m_queue /\ \A k \in Hash : m_pending[k] # r
        /\ r \notin orphaned /\ \A v \in Worker : r \notin worker[v].expired
    BY <1>10, Fresh, Zenon
  <1>2. \A k \in Hash : k # h /\ m_pending'[k] # None =>
          /\ m_pending'[k] = m_pending[k] /\ m_pending[k] \notin gone
          /\ m_pending[k] \in Request /\ m_pending[k] # r
    <2> SUFFICES ASSUME NEW k \in Hash, k # h, m_pending'[k] # None
                 PROVE  /\ m_pending'[k] = m_pending[k] /\ m_pending[k] \notin gone
                        /\ m_pending[k] \in Request /\ m_pending[k] # r
      BY Zenon
    <2>1. m_pending[k] \notin gone
      BY <1>10, Zenon
    <2>2. m_pending'[k] = m_pending[k]
      BY <1>10, <2>1, Zenon
    <2>3. m_pending[k] \in Request \cup {None}
      BY <1>0, ZenonT(30)
    <2> QED BY <1>1, <2>1, <2>2, <2>3, Zenon
  <1>3. PendingOK'
    <2> SUFFICES ASSUME NEW k \in Hash, m_pending'[k] # None
                 PROVE  /\ job'[m_pending'[k]].hash = k
                        /\ m_pending'[k] < m_next_sequence'
      BY Zenon DEF PendingOK
    <2>1. CASE k = h
      BY <1>10, <2>1, <1>0
    <2>2. CASE k # h
      <3>1. job[m_pending[k]].hash = k /\ m_pending[k] < m_next_sequence
        BY <1>10, <2>2, <1>2, Zenon DEF Inv, PendingOK
      <3> QED BY <1>10, <2>2, <3>1, <1>0, <1>2
    <2> QED BY <1>10, <2>1, <2>2, Zenon
  <1>4. QueueOK'
    <2> SUFFICES ASSUME NEW q \in m_queue'
                 PROVE  /\ job'[q].hash \in Hash /\ m_pending'[job'[q].hash] = q
                        /\ ~job'[q].running
      BY Zenon DEF QueueOK
    <2>1. CASE q = r
      BY <1>10, <2>1, Zenon
    <2>2. CASE q # r
      <3>0. q \in m_queue /\ q \notin gone
        BY <1>10, <2>2, Zenon
      <3>1. q \in m_queue /\ q \notin gone /\ q \in Request /\ q # None
        BY <3>0, <1>0, ZenonT(30)
      <3>2. /\ job[q].hash \in Hash /\ m_pending[job[q].hash] = q /\ ~job[q].running
        BY <1>10, <3>1, Zenon DEF Inv, QueueOK
      <3> QED BY <1>10, <2>2, <3>1, <3>2, ZenonT(30)
    <2> QED BY <1>10, <2>1, <2>2, Zenon
  <1>5. ParkedOK'
    <2> SUFFICES ASSUME NEW k \in m_awaiting_quorum
                 PROVE  /\ m_pending'[k] # None /\ ~job'[m_pending'[k]].running
                        /\ m_pending'[k] \notin m_queue'
      BY Zenon DEF ParkedOK
    <2>1. /\ k \in Hash /\ m_pending[k] # None /\ ~job[m_pending[k]].running
          /\ m_pending[k] \notin m_queue
      BY <1>10, <1>0, Zenon DEF Inv, ParkedOK
    <2>2. k # h /\ m_pending[k] \notin gone /\ m_pending'[k] = m_pending[k]
      BY <1>10, <2>1, Zenon
    <2> QED BY <1>10, <2>1, <2>2, <1>0, <1>1
  <1>6. HeldOK'
    <2> SUFFICES ASSUME NEW v \in Worker, worker[v].pc \in Busy
                 PROVE  /\ worker[v].pending \in Request /\ worker[v].hash \in Hash
                        /\ m_pending'[worker[v].hash] = worker[v].pending
                        /\ job'[worker[v].pending].running
      BY Zenon DEF HeldOK
    <2>1. /\ worker[v].pending \in Request /\ worker[v].hash \in Hash
          /\ m_pending[worker[v].hash] = worker[v].pending
          /\ job[worker[v].pending].running /\ worker[v].pending # None
          /\ worker[v].pending \notin m_queue
      BY HeldJob, Zenon
    <2>2. worker[v].hash # h /\ worker[v].pending \notin gone /\ worker[v].pending # r
      BY <1>10, <2>1, <1>1
    <2> QED BY <1>10, <2>1, <2>2, Zenon
  <1>7. HeldOnce'
    BY Zenon DEF Inv, HeldOnce
  <1>8. Placed'
    <2> SUFFICES ASSUME NEW k \in Hash, m_pending'[k] # None
                 PROVE  \/ m_pending'[k] \in m_queue'
                        \/ k \in m_awaiting_quorum
                        \/ \E v \in Worker : worker'[v].pc \in Busy
                                             /\ worker'[v].hash = k
      BY Zenon DEF Placed
    <2>1. CASE k = h
      BY <1>10, <2>1, <1>1, Zenon
    <2>2. CASE k # h
      <3>1. CASE \E v \in Worker : worker[v].pc \in Busy /\ worker[v].hash = k
        BY <1>10, <3>1, Zenon
      <3> QED BY <1>10, <2>2, <3>1, <1>2, Zenon DEF Inv, Placed
    <2> QED BY <1>10, <2>1, <2>2, Zenon
  <1>9. GoneOK'
    <2>1. \A q \in Request : q # r /\ Unregistered(q) => Unregistered(q)'
      BY <1>10, <1>0 DEF Unregistered
    <2>2. \A q \in orphaned : Unregistered(q)
      BY Zenon DEF Inv, GoneOK
    <2>3. \A v \in Worker : \A q \in worker[v].expired : Unregistered(q)
      BY Zenon DEF Inv, GoneOK
    <2> QED BY <1>10, <1>0, <1>1, <2>1, <2>2, <2>3 DEF GoneOK
  <1> QED BY <1>3, <1>4, <1>5, <1>6, <1>7, <1>8, <1>9, Zenon DEF Places

(* The new job has no follower. *)
LEMMA OwnersGrow ==
    ASSUME Inv, Types', m_next_sequence \in Request,
           m_next_sequence' = m_next_sequence + 1,
           job'[m_next_sequence].followers = {},
           job'[m_next_sequence].hash # None,
           \A p \in Request : p # m_next_sequence =>
              \/ job'[p] = NoJob
              \/ job'[p] = job[p]
              \/ /\ job'[p].hash = job[p].hash /\ job[p].hash # None
                 /\ job'[p].followers = job[p].followers
    PROVE  OwnersOK'
  <1> DEFINE r == m_next_sequence
  <1>0. m_next_sequence \in Nat
    BY Zenon DEF Inv, Types
  <1>1. \A p \in Request : job[p].followers \subseteq Request /\ r \notin job[p].followers
    BY Fresh, Zenon DEF Inv, Types, Job
  <1>2. \A p \in Request :
          /\ job'[p].followers \subseteq job[p].followers
          /\ p # r /\ job[p].hash = None => job'[p] = NoJob
          /\ p # r /\ job'[p].hash # None => job[p].hash # None
          /\ job'[p].hash = None => job'[p] = NoJob
    BY NoJobFacts, Zenon DEF Inv, OwnersOK
  <1> QED BY <1>0, <1>1, <1>2, NoJobFacts DEF Inv, OwnersOK

(* The job a request leads. *)
LEMMA NewJobFacts ==
    ASSUME NEW h \in Hash, NEW block \in BOOLEAN, NEW priority \in Priority,
           NEW bytes \in Nat, NEW lease \in Request \cup {None},
           NEW handoff \in BOOLEAN, NEW cancelled \in BOOLEAN
    PROVE  /\ LET k == NewJob(h, block, priority, bytes, lease, handoff)
              IN  k \in Job /\ k.hash = h /\ ~k.running /\ k.followers = {}
           /\ LET k == [NewJob(h, block, priority, bytes, lease, handoff)
                          EXCEPT !.cancelled = cancelled]
              IN  k \in Job /\ k.hash = h /\ ~k.running /\ k.followers = {}
  BY Zenon DEF NewJob, Job

(* The job new of request r is handed in, and the queued jobs in gone are  *)
(* dropped.                                                                *)
LEMMA HandInInv ==
    ASSUME Inv, NEW h \in Hash,
           m_next_sequence \in Request, m_next_sequence' = m_next_sequence + 1,
           m_pending[h] = None, m_pending'[h] = m_next_sequence,
           m_next_sequence \in m_queue',
           m_queue' \subseteq m_queue \cup {m_next_sequence},
           m_pending' \in [Hash -> Request \cup {None}],
           \A k \in Hash : k # h => m_pending'[k] =
              IF m_pending[k] \in m_queue \ m_queue' THEN None ELSE m_pending[k],
           req' \in [Request -> Answers], job' \in [Request -> Job],
           job'[m_next_sequence].hash = h, ~job'[m_next_sequence].running,
           job'[m_next_sequence].followers = {},
           \A q \in Request : q # m_next_sequence =>
              \/ q \in m_queue \ m_queue' /\ job'[q] = NoJob
              \/ job'[q] = job[q]
              \/ /\ job'[q].hash = job[q].hash /\ job[q].hash # None
                 /\ job'[q].running = job[q].running
                 /\ job'[q].followers = job[q].followers,
           StartThread(m_queue'),
           UNCHANGED <<m_awaiting_quorum, orphaned, quorum, notifying, missed, memo>>
    PROVE  Inv'
  <1>1. /\ worker' \in [Worker -> Local]
        /\ \A v \in Worker :
             /\ worker'[v].pc \in Busy <=> worker[v].pc \in Busy
             /\ worker'[v].pc \in Busy => worker'[v] = worker[v]
             /\ worker'[v].expired \subseteq worker[v].expired
             /\ worker[v].pc = "recheck" => worker'[v] = worker[v]
        /\ LocalOK'
    BY StartThreadFacts, Zenon
  <1>2. m_next_sequence \in Nat /\ m_queue \subseteq Request /\ h # None
    BY Zenon DEF Inv, Types
  <1>3. m_next_sequence' \in Nat
    BY <1>2
  <1>4. m_queue' \subseteq Request
    BY <1>2, Zenon
  <1>5. Types'
    BY <1>1, <1>3, <1>4, Zenon DEF Inv, Types
  <1>6. \A q \in Request : q # m_next_sequence /\ q \notin m_queue \ m_queue' =>
          job'[q].hash = job[q].hash /\ job'[q].running = job[q].running
    BY Zenon
  <1>7. /\ \A k \in Hash : k # h /\ m_pending[k] \in m_queue \ m_queue' =>
             m_pending'[k] = None
        /\ \A k \in Hash : k # h /\ m_pending[k] \notin m_queue \ m_queue' =>
             m_pending'[k] = m_pending[k]
    BY Zenon
  <1>8. Places'
    BY <1>1, <1>5, <1>6, <1>7, PlacesGrow, Zenon
  <1>9. OwnersOK'
    BY <1>2, <1>5, OwnersGrow, Zenon
  <1>10. QuorumOK'
    BY <1>1, QuorumSame, Zenon
  <1> QED BY <1>1, <1>5, <1>8, <1>9, <1>10, Zenon DEF Inv, Places

(* A request leads a new job. *)
LEMMA EnqueueInv ==
    ASSUME Inv, NEW r \in Request, NEW h \in Hash, NEW block \in BOOLEAN,
           NEW priority \in Priority, NEW bytes \in Nat, NEW cancelled \in BOOLEAN,
           Enqueue(r, h, block, priority, bytes, cancelled)
    PROVE  Inv'
  <1> DEFINE hit == IF priority = AuthenticatedTipChild /\ ~cancelled
                    THEN Preempted(block) ELSE {}
             lease == IF block THEN None ELSE r
             handoff == ~block /\ priority = AuthenticatedTipChild
             new == [NewJob(h, block, priority, bytes, lease, handoff)
                       EXCEPT !.cancelled = cancelled]
  <1>1. /\ r = m_next_sequence /\ m_pending[h] = None
        /\ job' = [p \in Request |->
                     IF p = r THEN new
                     ELSE IF p \in hit THEN [job[p] EXCEPT !.cancelled = TRUE]
                     ELSE job[p]]
        /\ req' = [req EXCEPT ![r] = "owed"]
        /\ m_queue' = m_queue \cup {r}
        /\ m_pending' = [m_pending EXCEPT ![h] = r]
        /\ m_next_sequence' = m_next_sequence + 1
        /\ StartThread(m_queue')
        /\ UNCHANGED <<m_awaiting_quorum, orphaned, quorum, notifying, missed, memo>>
    BY Zenon DEF Enqueue, stopping, attestation
  <1>2. /\ m_next_sequence \in Nat /\ job \in [Request -> Job]
        /\ m_queue \subseteq Request /\ req \in [Request -> Answers]
        /\ m_pending \in [Hash -> Request \cup {None}]
    BY Zenon DEF Inv, Types
  <1>3. \A q \in hit : job[q].hash # None
    <2> SUFFICES ASSUME NEW q \in Preempted(block) PROVE job[q].hash # None
      BY Zenon
    <2> QED BY DEF Preempted, Registered, Inv, PendingOK
  <1>4. new \in Job /\ new.hash = h /\ ~new.running /\ new.followers = {}
    <2>1. lease \in Request \cup {None} /\ handoff \in BOOLEAN
      BY Zenon
    <2> HIDE DEF lease, handoff
    <2> QED BY <2>1, NewJobFacts
  <1> HIDE DEF hit, new
  <1>5. \A q \in Request :
          LET k == [job[q] EXCEPT !.cancelled = TRUE]
          IN  /\ k \in Job /\ k.hash = job[q].hash /\ k.running = job[q].running
              /\ k.followers = job[q].followers
    BY <1>2, CancelledFacts, Zenon
  <1>6. /\ job' \in [Request -> Job] /\ job'[r] = new
        /\ \A q \in Request : q # r =>
             \/ job'[q] = job[q]
             \/ /\ job'[q].hash = job[q].hash /\ job[q].hash # None
                /\ job'[q].running = job[q].running
                /\ job'[q].followers = job[q].followers
    BY <1>1, <1>2, <1>3, <1>4, <1>5, Zenon
  <1>7. /\ m_pending' \in [Hash -> Request \cup {None}] /\ m_pending'[h] = r
        /\ \A k \in Hash : k # h => m_pending'[k] = m_pending[k]
        /\ req' \in [Request -> Answers]
    BY <1>1, <1>2, Zenon DEF Answers
  <1>8. /\ m_queue' \subseteq m_queue \cup {r} /\ r \in m_queue'
        /\ \A q : q \notin m_queue \ m_queue'
    BY <1>1, Zenon
  <1>9. /\ r = m_next_sequence /\ m_pending[h] = None
        /\ m_next_sequence' = m_next_sequence + 1 /\ StartThread(m_queue')
        /\ UNCHANGED <<m_awaiting_quorum, orphaned, quorum, notifying, missed, memo>>
    BY <1>1, Zenon
  <1> QED BY <1>4, <1>6, <1>7, <1>8, <1>9, HandInInv, ZenonT(30)

(* The larger of two. *)
LEMMA MaxOfTwo ==
    ASSUME NEW a \in Int, NEW b \in Int
    PROVE  Max({a, b}) \in {a, b}
  <1>1. \E x \in {a, b} : \A y \in {a, b} : x >= y
    OBVIOUS
  <1> QED BY <1>1, Zenon DEF Max

(* A body joins a job. *)
LEMMA JoinInv ==
    ASSUME Inv, NEW r \in Request, NEW h \in Hash, NEW priority \in Priority,
           NEW bytes \in Nat, Join(r, h, priority, bytes)
    PROVE  Inv'
  <1> DEFINE p == m_pending[h]
             new_bytes == Max({job[p].retained_body_bytes, bytes})
             new_priority == Max({job[p].priority, priority})
             k == [job[p] EXCEPT !.followers = job[p].followers \cup {r},
                                 !.body_joined = TRUE,
                                 !.retained_body_bytes = new_bytes,
                                 !.priority = new_priority]
  <1>1. /\ r = m_next_sequence /\ p # None
        /\ job' = [job EXCEPT ![p].followers = @ \cup {r},
                              ![p].body_joined = TRUE,
                              ![p].retained_body_bytes = new_bytes,
                              ![p].priority = Max({@, priority})]
        /\ req' = [req EXCEPT ![r] = "owed"]
        /\ m_next_sequence' = m_next_sequence + 1
        /\ UNCHANGED <<m_queue, m_pending, m_awaiting_quorum, orphaned, worker,
                       quorum, notifying, missed, memo>>
    BY Zenon DEF Join, stopping, attestation
  <1>2. /\ m_next_sequence \in Nat /\ job \in [Request -> Job]
        /\ req \in [Request -> Answers]
        /\ m_pending \in [Hash -> Request \cup {None}]
    BY Zenon DEF Inv, Types
  <1>3. /\ p \in Request /\ job[p] \in Job /\ job[p].hash = h /\ job[p].hash # None
        /\ p < m_next_sequence /\ p # r
    BY <1>1, <1>2 DEF Inv, PendingOK
  <1>4. /\ job[p].retained_body_bytes \in Nat /\ job[p].priority \in Priority
        /\ job[p].followers \subseteq Request
    BY <1>3, Zenon DEF Job
  <1>5. new_bytes \in Nat /\ new_priority \in Priority
    <2>1. /\ job[p].retained_body_bytes \in Int /\ bytes \in Int
          /\ job[p].priority \in Int /\ priority \in Int
      BY <1>4 DEF Priority, Background, CompetingBranch, AuthenticatedTipChild
    <2>2. new_bytes \in {job[p].retained_body_bytes, bytes}
      BY <2>1, MaxOfTwo, Zenon
    <2>3. new_priority \in {job[p].priority, priority}
      BY <2>1, MaxOfTwo, Zenon
    <2> QED BY <1>4, <2>2, <2>3, Zenon
  <1>6. job' = [job EXCEPT ![p] = k]
    BY <1>1, <1>2, <1>3, Zenon
  <1> HIDE DEF new_bytes, new_priority
  <1>7. /\ k \in Job /\ k.hash = job[p].hash /\ k.running = job[p].running
        /\ k.followers = job[p].followers \cup {r}
    BY <1>3, <1>4, <1>5, Zenon DEF Job
  <1> HIDE DEF k
  <1>8. /\ job' \in [Request -> Job] /\ job'[p] = k
        /\ \A q \in Request : q # p => job'[q] = job[q]
    BY <1>2, <1>3, <1>6, <1>7, Zenon
  <1>9. req' \in [Request -> Answers]
    BY <1>1, <1>2, Zenon DEF Answers
  <1>10. Types'
    BY <1>1, <1>2, <1>8, <1>9 DEF Inv, Types
  <1> HIDE DEF p
  <1>11. Places'
    <2>1. \A q \in Request : /\ job'[q].hash = job[q].hash
                             /\ job'[q].running = job[q].running
      BY <1>3, <1>7, <1>8, Zenon
    <2> QED BY <1>1, <1>2, <1>10, <2>1, PlacesSame
  <1>12. OwnersOK'
    <2>1. /\ job[r] = NoJob /\ job[r].hash = None
          /\ \A q \in Request : r \notin job[q].followers
      BY <1>1, Fresh, Zenon
    <2>2. \A q \in Request : job[q].followers \subseteq Request
      BY <1>2, Zenon DEF Job
    <2>3. \A q \in Request : /\ job'[q].hash = job[q].hash
                             /\ job'[q].followers \subseteq job[q].followers \cup {r}
                             /\ r \in job'[q].followers <=> q = p
      BY <1>3, <1>7, <1>8, <2>1, Zenon
    <2> SUFFICES ASSUME NEW q \in Request
                 PROVE  /\ job'[q].hash = None => job'[q] = NoJob
                        /\ job'[q].hash # None => q < m_next_sequence'
                        /\ \A s \in job'[q].followers :
                             /\ s < m_next_sequence' /\ job'[s].hash = None
                             /\ \A u \in Request : s \in job'[u].followers => u = q
      BY Zenon DEF OwnersOK
    <2>4. job'[q].hash = None => job'[q] = NoJob
      BY <1>3, <1>8, <2>3, ZenonT(30) DEF Inv, OwnersOK
    <2>5. job'[q].hash # None => q < m_next_sequence'
      BY <1>1, <1>2, <2>3 DEF Inv, OwnersOK
    <2>6. ASSUME NEW s \in job'[q].followers
          PROVE  /\ s < m_next_sequence' /\ job'[s].hash = None
                 /\ \A u \in Request : s \in job'[u].followers => u = q
      <3>1. CASE s = r
        BY <3>1, <1>1, <1>2, <2>1, <2>3
      <3>2. CASE s # r
        <4>1. s \in job[q].followers /\ s \in Request
          BY <2>2, <2>3, <2>6, <3>2, Zenon
        <4>2. /\ s < m_next_sequence /\ job[s].hash = None
              /\ \A u \in Request : s \in job[u].followers => u = q
          BY <4>1, Zenon DEF Inv, OwnersOK
        <4>3. \A u \in Request : s \in job'[u].followers => s \in job[u].followers
          BY <2>3, <3>2, Zenon
        <4>4. s < m_next_sequence'
          BY <1>1, <1>2, <4>1, <4>2
        <4>5. job'[s].hash = None
          BY <2>3, <4>1, <4>2, Zenon
        <4> QED BY <4>2, <4>3, <4>4, <4>5, Zenon
      <3> QED BY <3>1, <3>2, ZenonT(30)
    <2> QED BY <2>4, <2>5, <2>6, Zenon
  <1>13. LocalOK' /\ QuorumOK'
    BY <1>1, Zenon DEF Inv, LocalOK, QuorumOK, NoLostQuorum, Rechecking
  <1> QED BY <1>10, <1>11, <1>12, <1>13, Zenon DEF Inv, Places

(* A parked job has given its lease back, so HandoffAuthenticatedTip finds *)
(* no source among the parked jobs and need not look at the parked set.    *)
ParkedUnpaid ==
    \A h \in m_awaiting_quorum : job[m_pending[h]].rc_pending_lease = None

(* A source that is not running waits in the queue. *)
LEMMA HandoffSource ==
    ASSUME Inv, ParkedUnpaid, NEW h, NEW source \in HandoffSources(h)
    PROVE  /\ source \in Request /\ job[source] \in Job /\ job[source].hash # None
           /\ source < m_next_sequence
           /\ ~job[source].running => source \in m_queue
  <1>1. PICK k \in Hash : source = m_pending[k] /\ source # None
    BY Zenon DEF HandoffSources, Registered
  <1>2. job[source].rc_pending_lease # None
    BY Zenon DEF HandoffSources
  <1>3. /\ source \in Request /\ job[source] \in Job
        /\ source < m_next_sequence /\ job[source].hash = k /\ k # None
    BY <1>1, Zenon DEF Inv, Types, PendingOK
  <1>4. k \notin m_awaiting_quorum
    BY <1>1, <1>2, Zenon DEF ParkedUnpaid
  <1>5. ASSUME ~job[source].running PROVE source \in m_queue
    <2>1. \A v \in Worker : ~(worker[v].pc \in Busy /\ worker[v].hash = k)
      BY <1>1, <1>5, Zenon DEF Inv, HeldOK
    <2> QED BY <1>1, <1>4, <2>1, Zenon DEF Inv, Placed
  <1> QED BY <1>3, <1>5, Zenon

(* A source that runs gives up its slot. *)
LEMMA GiveUpFacts ==
    ASSUME NEW j \in Job
    PROVE  LET k == [j EXCEPT !.cancelled = TRUE, !.handoff = FALSE,
                              !.rc_pending_lease = None]
           IN  /\ k \in Job /\ k.hash = j.hash /\ k.running = j.running
               /\ k.followers = j.followers /\ k.rc_pending_lease = None
  BY Zenon DEF Job

(* A sibling inherits a paid slot. *)
LEMMA HandoffInv ==
    ASSUME Inv, ParkedUnpaid, NEW r \in Request, NEW h \in Hash,
           NEW block \in BOOLEAN, NEW bytes \in Nat,
           HandoffAuthenticatedTip(r, h, block, bytes)
    PROVE  Inv'
  <1>1. PICK source \in HandoffSources(h) :
          /\ job' = [job EXCEPT
                      ![source] =
                        IF job[source].running
                        THEN [@ EXCEPT !.cancelled = TRUE, !.handoff = FALSE,
                                       !.rc_pending_lease = None]
                        ELSE NoJob,
                      ![r] = NewJob(h, block, AuthenticatedTipChild, bytes,
                                    job[source].rc_pending_lease, FALSE)]
          /\ LET gone == {source} \ {p \in Request : job[p].running}
             IN  /\ req' = [Answer(gone, "dropped") EXCEPT ![r] = "owed"]
                 /\ m_queue' = (m_queue \cup {r}) \ gone
                 /\ m_pending' = [k \in Hash |->
                                    IF k = h THEN r
                                    ELSE IF m_pending[k] \in gone THEN None
                                    ELSE m_pending[k]]
    BY Zenon DEF HandoffAuthenticatedTip
  <1> DEFINE gone == {source} \ {p \in Request : job[p].running}
             new == NewJob(h, block, AuthenticatedTipChild, bytes,
                           job[source].rc_pending_lease, FALSE)
             old == IF job[source].running
                    THEN [job[source] EXCEPT !.cancelled = TRUE, !.handoff = FALSE,
                                             !.rc_pending_lease = None]
                    ELSE NoJob
  <1>2. /\ r = m_next_sequence /\ m_pending[h] = None
        /\ m_next_sequence' = m_next_sequence + 1 /\ StartThread(m_queue')
        /\ UNCHANGED <<m_awaiting_quorum, orphaned, quorum, notifying, missed, memo>>
    BY Zenon DEF HandoffAuthenticatedTip, stopping, attestation
  <1>3. /\ m_next_sequence \in Nat /\ job \in [Request -> Job]
        /\ m_queue \subseteq Request /\ req \in [Request -> Answers]
        /\ m_pending \in [Hash -> Request \cup {None}]
    BY Zenon DEF Inv, Types
  <1>4. /\ source \in Request /\ job[source] \in Job /\ job[source].hash # None
        /\ source < m_next_sequence
        /\ ~job[source].running => source \in m_queue
    BY HandoffSource, Zenon
  <1>5. r \notin m_queue /\ source # r
    BY <1>2, <1>3, <1>4, Fresh, Zenon
  <1>6. new \in Job /\ new.hash = h /\ ~new.running /\ new.followers = {}
    <2>1. /\ AuthenticatedTipChild \in Priority /\ FALSE \in BOOLEAN
          /\ job[source].rc_pending_lease \in Request \cup {None}
      BY <1>4, Zenon DEF Priority, Job
    <2> QED BY <2>1, Zenon DEF NewJob, Job
  <1>7. /\ old \in Job
        /\ job[source].running =>
             /\ old.hash = job[source].hash /\ old.running = job[source].running
             /\ old.followers = job[source].followers
        /\ ~job[source].running => old = NoJob
    BY <1>4, GiveUpFacts, NoJobFacts, Zenon
  <1>8. job' = [job EXCEPT ![source] = old, ![r] = new]
    BY <1>1, Zenon
  <1>9. /\ gone \subseteq m_queue /\ r \notin gone
        /\ job[source].running => gone = {}
        /\ ~job[source].running => gone = {source}
    BY <1>4, <1>5, Zenon
  <1>10. /\ req' = [Answer(gone, "dropped") EXCEPT ![r] = "owed"]
         /\ m_queue' = (m_queue \cup {r}) \ gone
         /\ m_pending' = [k \in Hash |->
                            IF k = h THEN r
                            ELSE IF m_pending[k] \in gone THEN None
                            ELSE m_pending[k]]
    BY <1>1, Zenon
  <1> HIDE DEF gone, new, old
  <1>11. /\ job' \in [Request -> Job] /\ job'[r] = new /\ job'[source] = old
         /\ \A q \in Request : q # r /\ q # source => job'[q] = job[q]
    BY <1>3, <1>4, <1>5, <1>6, <1>7, <1>8, Zenon
  <1>12. m_queue \ m_queue' = gone
    BY <1>5, <1>9, <1>10, Zenon
  <1>13. /\ m_pending' \in [Hash -> Request \cup {None}] /\ m_pending'[h] = r
         /\ \A k \in Hash : k # h => m_pending'[k] =
               IF m_pending[k] \in m_queue \ m_queue' THEN None ELSE m_pending[k]
    BY <1>3, <1>10, <1>12, Zenon
  <1>14. req' \in [Request -> Answers]
    <2>1. Answer(gone, "dropped") \in [Request -> Answers]
      BY <1>3, Zenon DEF Answer, Answers
    <2> QED BY <1>10, <2>1, Zenon DEF Answers
  <1>15. /\ m_queue' \subseteq m_queue \cup {r} /\ r \in m_queue'
    BY <1>9, <1>10, Zenon
  <1>16. \A q \in Request : q # r =>
           \/ q \in m_queue \ m_queue' /\ job'[q] = NoJob
           \/ job'[q] = job[q]
           \/ /\ job'[q].hash = job[q].hash /\ job[q].hash # None
              /\ job'[q].running = job[q].running
              /\ job'[q].followers = job[q].followers
    <2>1. CASE job[source].running
      BY <2>1, <1>4, <1>7, <1>11, Zenon
    <2>2. CASE ~job[source].running
      <3>1. source \in m_queue \ m_queue' /\ job'[source] = NoJob
        BY <2>2, <1>7, <1>9, <1>11, <1>12, Zenon
      <3> QED BY <3>1, <1>11, Zenon
    <2> QED BY <2>1, <2>2, Zenon
  <1> QED BY <1>2, <1>6, <1>11, <1>13, <1>14, <1>15, <1>16, HandInInv, ZenonT(30)

(* A step that parks nothing and gives no parked job a lease. *)
LEMMA UnpaidSame ==
    ASSUME ParkedUnpaid,
           \A k \in m_awaiting_quorum' :
              /\ k \in m_awaiting_quorum
              /\ m_pending'[k] = m_pending[k]
              /\ \/ job'[m_pending[k]] = NoJob
                 \/ job'[m_pending[k]].rc_pending_lease
                       = job[m_pending[k]].rc_pending_lease
    PROVE  ParkedUnpaid'
  <1>1. NoJob.rc_pending_lease = None
    BY Zenon DEF NoJob
  <1> QED BY <1>1, Zenon DEF ParkedUnpaid

(* What the callers know of the parked jobs. *)
LEMMA ParkedFacts ==
    ASSUME Inv, NEW r \in Request
    PROVE  /\ job \in [Request -> Job]
           /\ m_pending \in [Hash -> Request \cup {None}]
           /\ \A k \in m_awaiting_quorum : /\ k \in Hash /\ m_pending[k] \in Request
                                           /\ m_pending[k] # None
           /\ r = m_next_sequence => \A k \in Hash : m_pending[k] # r
           /\ \A q \in Request :
                [job[q] EXCEPT !.cancelled = TRUE].rc_pending_lease
                   = job[q].rc_pending_lease
  <1>1. /\ job \in [Request -> Job] /\ m_awaiting_quorum \subseteq Hash
        /\ m_pending \in [Hash -> Request \cup {None}]
    BY Zenon DEF Inv, Types
  <1>2. \A k \in m_awaiting_quorum : /\ k \in Hash /\ m_pending[k] \in Request
                                     /\ m_pending[k] # None
    BY <1>1, Zenon DEF Inv, ParkedOK
  <1>3. r = m_next_sequence => \A k \in Hash : m_pending[k] # r
    BY Fresh, Zenon
  <1>4. \A q \in Request :
          [job[q] EXCEPT !.cancelled = TRUE].rc_pending_lease = job[q].rc_pending_lease
    BY <1>1, CancelledFacts, Zenon
  <1> QED BY <1>1, <1>2, <1>3, <1>4, Zenon

(* The callers give no parked job a lease: not a new job, *)
LEMMA UnpaidEnqueue ==
    ASSUME Inv, ParkedUnpaid, NEW r \in Request, NEW h \in Hash,
           NEW block, NEW priority, NEW bytes, NEW cancelled,
           Enqueue(r, h, block, priority, bytes, cancelled)
    PROVE  ParkedUnpaid'
  <1> DEFINE hit == IF priority = AuthenticatedTipChild /\ ~cancelled
                    THEN Preempted(block) ELSE {}
             new == [NewJob(h, block, priority, bytes, IF block THEN None ELSE r,
                            ~block /\ priority = AuthenticatedTipChild)
                       EXCEPT !.cancelled = cancelled]
  <1>1. /\ r = m_next_sequence /\ m_pending[h] = None
        /\ job' = [p \in Request |->
                     IF p = r THEN new
                     ELSE IF p \in hit THEN [job[p] EXCEPT !.cancelled = TRUE]
                     ELSE job[p]]
        /\ m_pending' = [m_pending EXCEPT ![h] = r]
        /\ UNCHANGED m_awaiting_quorum
    BY Zenon DEF Enqueue
  <1> HIDE DEF hit, new
  <1>2. \A q \in Request : q # r => job'[q].rc_pending_lease = job[q].rc_pending_lease
    BY ParkedFacts, <1>1, Zenon
  <1>3. \A k \in Hash : k # h => m_pending'[k] = m_pending[k]
    BY ParkedFacts, <1>1, Zenon
  <1>4. r = m_next_sequence /\ m_pending[h] = None /\ UNCHANGED m_awaiting_quorum
    BY <1>1, Zenon
  <1> QED BY ParkedFacts, <1>2, <1>3, <1>4, UnpaidSame, Zenon

(* nor one that joins, *)
LEMMA UnpaidJoin ==
    ASSUME Inv, ParkedUnpaid, NEW r \in Request, NEW h \in Hash,
           NEW priority, NEW bytes, Join(r, h, priority, bytes)
    PROVE  ParkedUnpaid'
  <1> DEFINE p == m_pending[h]
             k == [job[p] EXCEPT
                     !.followers = @ \cup {r}, !.body_joined = TRUE,
                     !.retained_body_bytes = Max({job[p].retained_body_bytes, bytes}),
                     !.priority = Max({@, priority})]
  <1>1. /\ p # None
        /\ job' = [job EXCEPT
                     ![p].followers = @ \cup {r},
                     ![p].body_joined = TRUE,
                     ![p].retained_body_bytes =
                          Max({job[p].retained_body_bytes, bytes}),
                     ![p].priority = Max({@, priority})]
        /\ UNCHANGED <<m_pending, m_awaiting_quorum>>
    BY Zenon DEF Join
  <1>2. p \in Request /\ job[p] \in Job
    BY ParkedFacts, <1>1, Zenon
  <1>3. k.rc_pending_lease = job[p].rc_pending_lease
    BY <1>2, Zenon DEF Job
  <1>4. job' = [job EXCEPT ![p] = k]
    BY ParkedFacts, <1>1, <1>2, Zenon
  <1> HIDE DEF k
  <1>5. \A q \in Request : job'[q].rc_pending_lease = job[q].rc_pending_lease
    BY ParkedFacts, <1>2, <1>3, <1>4, Zenon
  <1> QED BY ParkedFacts, <1>1, <1>5, UnpaidSame, Zenon

(* nor one that inherits a slot. *)
LEMMA UnpaidHandoff ==
    ASSUME Inv, ParkedUnpaid, NEW r \in Request, NEW h \in Hash,
           NEW block, NEW bytes, HandoffAuthenticatedTip(r, h, block, bytes)
    PROVE  ParkedUnpaid'
  <1> DEFINE gone(p) == {p} \ {q \in Request : job[q].running}
             old(p) == IF job[p].running
                       THEN [job[p] EXCEPT !.cancelled = TRUE, !.handoff = FALSE,
                                           !.rc_pending_lease = None]
                       ELSE NoJob
             new(p) == NewJob(h, block, AuthenticatedTipChild, bytes,
                              job[p].rc_pending_lease, FALSE)
  <1>1. PICK source \in HandoffSources(h) :
          /\ job' = [job EXCEPT ![source] = old(source), ![r] = new(source)]
          /\ m_pending' = [k \in Hash |->
                             IF k = h THEN r
                             ELSE IF m_pending[k] \in gone(source) THEN None
                             ELSE m_pending[k]]
    BY Zenon DEF HandoffAuthenticatedTip
  <1> HIDE DEF old, new
  <1>2. /\ r = m_next_sequence /\ m_pending[h] = None /\ UNCHANGED m_awaiting_quorum
    BY Zenon DEF HandoffAuthenticatedTip
  <1>3. job[source].rc_pending_lease # None
    BY Zenon DEF HandoffSources
  <1>4. \A k \in m_awaiting_quorum : m_pending[k] # source
    BY <1>3, Zenon DEF ParkedUnpaid
  <1>5. \A q \in Request : q # r /\ q # source => job'[q] = job[q]
    BY ParkedFacts, <1>1, Zenon
  <1>6. \A k \in Hash : k # h /\ m_pending[k] # source => m_pending'[k] = m_pending[k]
    BY <1>1, Zenon
  <1> QED BY ParkedFacts, <1>2, <1>4, <1>5, <1>6, UnpaidSame, Zenon

(* Neither do the other steps, and Park takes the lease away. *)
LEMMA UnpaidNext ==
    ASSUME Inv, ParkedUnpaid, Next
    PROVE  ParkedUnpaid'
  <1>1. /\ job \in [Request -> Job] /\ m_awaiting_quorum \subseteq Hash
        /\ m_pending \in [Hash -> Request \cup {None}]
    BY Zenon DEF Inv, Types
  <1>2. \A k \in m_awaiting_quorum : k \in Hash /\ m_pending[k] \in Request
    BY <1>1, Zenon DEF Inv, ParkedOK
  <1>3. \A q \in Request :
          [job[q] EXCEPT !.cancelled = TRUE].rc_pending_lease = job[q].rc_pending_lease
    BY <1>1, CancelledFacts, Zenon
  <1>4. CASE Submit
    BY <1>4, UnpaidEnqueue, UnpaidJoin, UnpaidHandoff, Zenon DEF Submit
  <1>5. ASSUME NEW hs \in SUBSET Hash, CancelIf(hs)
        PROVE  ParkedUnpaid'
    <2> DEFINE hit == {p \in Registered : job[p].hash \in hs /\ ~ProtectsBodyReplay(p)}
               gone == {p \in hit : ~job[p].running}
               unparked == {h \in m_awaiting_quorum : m_pending[h] \in gone}
    <2>1. /\ m_awaiting_quorum' = m_awaiting_quorum \ unparked
          /\ job' = [p \in Request |->
                       IF p \in gone THEN NoJob
                       ELSE IF p \in hit THEN [job[p] EXCEPT !.cancelled = TRUE]
                       ELSE job[p]]
          /\ m_pending' = [h \in Hash |->
                             IF m_pending[h] \in gone THEN None ELSE m_pending[h]]
      BY <1>5, Zenon DEF CancelIf
    <2>2. \A k \in m_awaiting_quorum : k \in unparked <=> m_pending[k] \in gone
      BY Zenon
    <2> HIDE DEF hit, gone, unparked
    <2>3. \A q \in Request : \/ job'[q] = NoJob
                             \/ job'[q].rc_pending_lease = job[q].rc_pending_lease
      BY <1>3, <2>1, Zenon
    <2>4. \A k \in Hash : m_pending[k] \notin gone => m_pending'[k] = m_pending[k]
      BY <2>1, Zenon
    <2>5. m_awaiting_quorum' = m_awaiting_quorum \ unparked
      BY <2>1, Zenon
    <2> QED BY <1>2, <2>2, <2>3, <2>4, <2>5, UnpaidSame, Zenon
  <1>6. ASSUME NEW p, job' = [job EXCEPT ![p].cancelled = TRUE], UNCHANGED pool
        PROVE  ParkedUnpaid'
    <2>1. UNCHANGED <<m_pending, m_awaiting_quorum>>
      BY <1>6, Zenon DEF pool
    <2>2. \A q \in Request : job'[q].rc_pending_lease = job[q].rc_pending_lease
      BY <1>1, <1>3, <1>6, Zenon
    <2> QED BY <1>2, <2>1, <2>2, UnpaidSame, Zenon
  <1>7. ASSUME NEW h, NotifyQuorumReady(h) \/ UNCHANGED m_awaiting_quorum,
               UNCHANGED <<job, m_pending>>
        PROVE  ParkedUnpaid'
    <2>1. m_awaiting_quorum' \subseteq m_awaiting_quorum
      BY <1>7, Zenon DEF NotifyQuorumReady
    <2> QED BY <1>7, <2>1, Zenon DEF ParkedUnpaid
  <1>8. CASE Stop
    BY <1>8, Zenon DEF Stop, ParkedUnpaid
  <1>9. ASSUME NEW ps, job' = Destroy(ps), UNCHANGED <<m_pending, m_awaiting_quorum>>
        PROVE  ParkedUnpaid'
    <2>1. \A q \in Request : job'[q] = NoJob \/ job'[q] = job[q]
      BY <1>9, Zenon DEF Destroy
    <2> QED BY <1>2, <1>9, <2>1, UnpaidSame, Zenon
  <1>10. ASSUME NEW w \in Worker, FinishRetryable(w) PROVE ParkedUnpaid'
    <2>1. \A q \in Request : job'[q] = NoJob \/ job'[q] = job[q]
      BY <1>10, Zenon DEF FinishRetryable, Destroy
    <2>2. \A k \in m_awaiting_quorum' :
            k \in m_awaiting_quorum /\ m_pending'[k] = m_pending[k]
      BY <1>1, <1>10, Zenon DEF FinishRetryable
    <2> QED BY <1>2, <2>1, <2>2, UnpaidSame, Zenon
  <1>11. ASSUME NEW w \in Worker, WorkerStep(w) PROVE ParkedUnpaid'
    <2>1. ASSUME NEW late, Scan(w, late) PROVE ParkedUnpaid'
      <3>1. UNCHANGED job
        BY <2>1, Zenon DEF Scan, callers
      <3>2. \A k \in m_awaiting_quorum' :
              k \in m_awaiting_quorum /\ m_pending'[k] = m_pending[k]
        BY <1>1, <2>1, Zenon DEF Scan, TakeExpired, pool
      <3> QED BY <3>1, <3>2, UnpaidSame, Zenon
    <2>2. CASE FinishExpired(w)
      BY <2>2, <1>9, Zenon DEF FinishExpired
    <2>3. ASSUME NEW tip, Take(w, tip) PROVE ParkedUnpaid'
      <3>1. UNCHANGED <<m_pending, m_awaiting_quorum>>
        BY <2>3, Zenon DEF Take
      <3>2. \A q \in Request : job'[q].rc_pending_lease = job[q].rc_pending_lease
        <4>1. CASE UNCHANGED job
          BY <4>1, Zenon
        <4>2. CASE \E p \in m_queue : job' = [job EXCEPT ![p].running = TRUE]
          <5>1. PICK p \in m_queue : job' = [job EXCEPT ![p].running = TRUE]
            BY <4>2, Zenon
          <5>2. \A q \in Request :
                  [job[q] EXCEPT !.running = TRUE].rc_pending_lease
                    = job[q].rc_pending_lease
            BY <1>1 DEF Job
          <5> QED BY <1>1, <5>1, <5>2, Zenon
        <4> QED BY <2>3, <4>1, <4>2, Zenon DEF Take
      <3> QED BY <1>2, <3>1, <3>2, UnpaidSame, Zenon
    <2>4. CASE Start(w)
      BY <2>4, <1>10, Zenon DEF Start, callers, pool, ParkedUnpaid
    <2>5. ASSUME NEW granted, Acquire(w, granted) PROVE ParkedUnpaid'
      BY <2>5, <1>10, Zenon DEF Acquire, callers, pool, ParkedUnpaid
    <2>6. ASSUME NEW carrier_missing, Replay(w, carrier_missing) PROVE ParkedUnpaid'
      BY <2>6, Zenon DEF Replay, callers, pool, ParkedUnpaid
    <2>7. ASSUME NEW above, Trusted(w, above) PROVE ParkedUnpaid'
      BY <2>7, <1>10, Zenon DEF Trusted, callers, pool, ParkedUnpaid
    <2>8. CASE Park(w)
      <3> DEFINE p == worker[w].pending
                 h == worker[w].hash
                 k == [job[p] EXCEPT !.rc_pending_lease = None, !.running = FALSE]
      <3>1. worker[w].pc \in Busy
        BY <2>8, Zenon DEF Park, Busy
      <3>2. p \in Request /\ job[p] \in Job /\ m_pending[h] = p
        BY <3>1, HeldJob, Zenon
      <3>3. CASE /\ job' = [job EXCEPT ![p].rc_pending_lease = None,
                                       ![p].running = FALSE]
                 /\ m_awaiting_quorum' = m_awaiting_quorum \cup {h}
                 /\ UNCHANGED m_pending
        <4>1. k.rc_pending_lease = None
          BY <3>2, Zenon DEF Job
        <4>2. job' = [job EXCEPT ![p] = k]
          BY <1>1, <3>2, <3>3, Zenon
        <4> HIDE DEF k
        <4>3. \A q \in Request : /\ q # p => job'[q] = job[q]
                                 /\ q = p => job'[q].rc_pending_lease = None
          BY <1>1, <3>2, <4>1, <4>2, Zenon
        <4> SUFFICES ASSUME NEW j \in m_awaiting_quorum'
                     PROVE  job'[m_pending'[j]].rc_pending_lease = None
          BY Zenon DEF ParkedUnpaid
        <4>4. CASE m_pending[j] = p
          BY <4>4, <3>2, <3>3, <4>3, Zenon
        <4>5. CASE m_pending[j] # p
          <5>1. j \in m_awaiting_quorum
            BY <4>5, <3>2, <3>3, Zenon
          <5>2. job'[m_pending[j]] = job[m_pending[j]]
            BY <4>5, <5>1, <1>2, <4>3, Zenon
          <5>3. job[m_pending[j]].rc_pending_lease = None
            BY <5>1, Zenon DEF ParkedUnpaid
          <5> QED BY <5>2, <5>3, <3>3, Zenon
        <4> QED BY <4>4, <4>5, Zenon
      <3> HIDE DEF k
      <3> QED BY <2>8, <3>3, <1>10, Zenon DEF Park
    <2>9. CASE Recheck(w)
      BY <2>9, <1>7, Zenon DEF Recheck, callers
    <2>10. CASE Complete(w)
      <3>1. worker[w].pc \in Busy
        BY <2>10, Zenon DEF Complete, Busy
      <3>2. worker[w].hash \notin m_awaiting_quorum
        BY <3>1, HeldJob, Zenon
      <3>3. \A k \in m_awaiting_quorum' :
              k \in m_awaiting_quorum /\ m_pending'[k] = m_pending[k]
        BY <1>1, <2>10, <3>2, Zenon DEF Complete
      <3>4. \A q \in Request : job'[q] = NoJob \/ job'[q] = job[q]
        BY <2>10, Zenon DEF Complete, Destroy
      <3> QED BY <1>2, <3>3, <3>4, UnpaidSame, Zenon
    <2> QED BY <1>11, <2>1, <2>2, <2>3, <2>4, <2>5, <2>6, <2>7, <2>8, <2>9, <2>10, Zenon
            DEF WorkerStep
  <1>12. ASSUME NEW p \in Request, LifecycleCancels(p) PROVE ParkedUnpaid'
    BY <1>6, <1>12, Zenon DEF LifecycleCancels
  <1>13. ASSUME NEW w \in Worker, SchedulerPreempts(w) PROVE ParkedUnpaid'
    BY <1>6, <1>13, Zenon DEF SchedulerPreempts
  <1>14. ASSUME NEW h \in Hash, AttestationStep(h) PROVE ParkedUnpaid'
    BY <1>7, <1>14, Zenon DEF AttestationStep, MmAttest, WakeParked,
       SubmitMatMulAttestations, callers, pool
  <1>15. CASE StopJoined
    BY <1>9, <1>15, Zenon DEF StopJoined, pool
  <1> QED BY <1>4, <1>5, <1>8, <1>11, <1>12, <1>13, <1>14, <1>15, Zenon DEF Next

-----------------------------------------------------------------------------
(* The invariant holds initially, *)
LEMMA InitInv ==
    ASSUME Init PROVE Inv /\ ParkedUnpaid
  <1>1. Types
    BY AtFacts, NoJobFacts, Zenon DEF Init, Types, Answers, Step
  <1>2. \A w \in Worker : worker[w] = At("none")
    BY Zenon DEF Init
  <1>3. \A w \in Worker : /\ worker[w].pc \notin Busy /\ worker[w].pc = "none"
                          /\ worker[w].expired = {} /\ worker[w].pending = None
                          /\ worker[w].failure = "none"
    BY <1>2, AtFacts DEF Busy, Step
  <1>4. PendingOK /\ QueueOK /\ ParkedOK /\ Placed
    BY Zenon DEF Init, PendingOK, QueueOK, ParkedOK, Placed
  <1>5. HeldOK /\ HeldOnce
    BY <1>3, Zenon DEF HeldOK, HeldOnce
  <1>6. GoneOK
    BY <1>3, Zenon DEF Init, GoneOK
  <1>7. LocalOK
    BY <1>3, Zenon DEF LocalOK
  <1>8. QuorumOK
    BY Zenon DEF Init, QuorumOK, NoLostQuorum
  <1>9. OwnersOK
    BY NoJobFacts, Zenon DEF Init, OwnersOK
  <1>10. ParkedUnpaid
    BY Zenon DEF Init, ParkedUnpaid
  <1> QED BY <1>1, <1>4, <1>5, <1>6, <1>7, <1>8, <1>9, <1>10, Zenon DEF Inv

(* and every step preserves it. *)
LEMMA NextInv ==
    ASSUME Inv, ParkedUnpaid, Next PROVE Inv'
  <1>1. ASSUME NEW r \in Request, NEW h \in Hash,
               \/ \E priority \in {CompetingBranch, AuthenticatedTipChild} :
                     Enqueue(r, h, FALSE, priority, 0, FALSE)
               \/ \E priority \in Priority, bytes \in Sizes :
                     \/ \E cancelled \in BOOLEAN :
                           Enqueue(r, h, TRUE, priority, bytes, cancelled)
                     \/ Join(r, h, priority, bytes)
               \/ HandoffAuthenticatedTip(r, h, FALSE, 0)
               \/ \E bytes \in Sizes : HandoffAuthenticatedTip(r, h, TRUE, bytes)
        PROVE  Inv'
    <2>1. /\ {CompetingBranch, AuthenticatedTipChild} \subseteq Priority
          /\ Sizes \subseteq Nat /\ 0 \in Nat
          /\ TRUE \in BOOLEAN /\ FALSE \in BOOLEAN
      BY Zenon DEF Priority
    <2>2. ASSUME NEW priority \in {CompetingBranch, AuthenticatedTipChild},
                 Enqueue(r, h, FALSE, priority, 0, FALSE)
          PROVE  Inv'
      <3>1. priority \in Priority
        BY <2>1, Zenon
      <3> QED BY <2>1, <2>2, <3>1, EnqueueInv, Zenon
    <2>3. ASSUME NEW priority \in Priority, NEW bytes \in Sizes,
                 NEW cancelled \in BOOLEAN,
                 Enqueue(r, h, TRUE, priority, bytes, cancelled)
          PROVE  Inv'
      <3>1. bytes \in Nat
        BY <2>1, Zenon
      <3>2. CASE Enqueue(r, h, TRUE, priority, bytes, TRUE)
        BY <2>1, <3>1, <3>2, EnqueueInv, Zenon
      <3>3. CASE Enqueue(r, h, TRUE, priority, bytes, FALSE)
        BY <2>1, <3>1, <3>3, EnqueueInv, Zenon
      <3> QED BY <2>3, <3>2, <3>3, Zenon
    <2>4. ASSUME NEW priority \in Priority, NEW bytes \in Sizes,
                 Join(r, h, priority, bytes)
          PROVE  Inv'
      <3>1. bytes \in Nat
        BY <2>1, Zenon
      <3> QED BY <2>4, <3>1, JoinInv, Zenon
    <2>5. CASE HandoffAuthenticatedTip(r, h, FALSE, 0)
      BY <2>1, <2>5, HandoffInv, Zenon
    <2>6. ASSUME NEW bytes \in Sizes, HandoffAuthenticatedTip(r, h, TRUE, bytes)
          PROVE  Inv'
      BY <2>1, <2>6, HandoffInv, Zenon
    <2> QED BY <1>1, <2>2, <2>3, <2>4, <2>5, <2>6, Zenon
  <1>2. CASE Submit
    BY <1>1, <1>2, Zenon DEF Submit
  <1>3. ASSUME NEW w \in Worker, WorkerStep(w) PROVE Inv'
    BY <1>3, ScanInv, FinishExpiredInv, TakeInv, StartInv, AcquireInv, ReplayInv,
       TrustedInv, ParkInv, RecheckInv, CompleteInv, Zenon DEF WorkerStep
  <1> QED BY <1>2, <1>3, CancelIfInv, LifecycleCancelsInv, SchedulerPreemptsInv,
             QuorumCompleteInv, WakeParkedInv, StopInv, StopJoinedInv, Zenon
             DEF Next, AttestationStep

(* The jobs, the pool and the threads agree: every registered job is under *)
(* its own hash, in one place, held by at most one thread, and every       *)
(* request hangs on one job.                                               *)
THEOREM InvariantHolds == Spec => [](Inv /\ ParkedUnpaid)
  <1>1. ASSUME Inv, ParkedUnpaid, UNCHANGED vars PROVE (Inv /\ ParkedUnpaid)'
    <2>1. UNCHANGED <<req, job, m_next_sequence, m_queue, m_pending,
                      m_awaiting_quorum, orphaned, worker, quorum, notifying, missed, memo>>
      BY <1>1, Zenon DEF vars, callers, pool, stopping, attestation
    <2>2. Types' /\ Places' /\ ParkedUnpaid'
      BY <1>1, <2>1, Zenon DEF Inv, Types, Places, PendingOK, QueueOK,
         ParkedOK, HeldOK, HeldOnce, Placed, GoneOK, Unregistered,
         ParkedUnpaid
    <2>3. LocalOK' /\ QuorumOK' /\ OwnersOK'
      BY <1>1, <2>1, Zenon DEF Inv, LocalOK, QuorumOK, NoLostQuorum, Rechecking, OwnersOK
    <2> QED BY <2>2, <2>3, Zenon DEF Inv, Places
  <1> QED BY <1>1, InitInv, NextInv, UnpaidNext, PTL DEF Spec
-----------------------------------------------------------------------------
(* What the steps do to a job.                                             *)

(* All that becomes of a job after it is handed in, unless a body joins it *)
(* or it is destroyed: its latch is raised, it is run or parked, or it     *)
(* gives its slot up.                                                      *)
Lessened(j, k) ==
    /\ k.hash = j.hash
    /\ k.retained_body_bytes = j.retained_body_bytes
    /\ k.followers = j.followers
    /\ j.cancelled => k.cancelled
    /\ k.handoff => j.handoff
    /\ k.rc_pending_lease \in {j.rc_pending_lease, None}

(* A job is destroyed only with an answer to everyone who hangs on it. *)
Released(q) ==
    /\ job'[q] = NoJob
    /\ \A r \in Request : r \in Owners(q) => req'[r] # "owed"

JobsLessened(S) == \A q \in S : Released(q) \/ Lessened(job[q], job'[q])

(* The ways in which a job is lessened. *)
LEMMA LessenedFacts ==
    ASSUME NEW j \in Job
    PROVE  /\ Lessened(j, j)
           /\ Lessened(j, [j EXCEPT !.cancelled = TRUE])
           /\ Lessened(j, [j EXCEPT !.running = TRUE])
           /\ Lessened(j, [j EXCEPT !.rc_pending_lease = None, !.running = FALSE])
           /\ Lessened(j, [j EXCEPT !.cancelled = TRUE, !.handoff = FALSE,
                                    !.rc_pending_lease = None])
  BY Zenon DEF Lessened, Job

(* Every step but those that hand a request in lessens the jobs. *)
LEMMA StepLessens ==
    ASSUME Inv, Next, ~Submit
    PROVE  JobsLessened(Request)
  <1>1. job \in [Request -> Job]
    BY Zenon DEF Inv, Types
  <1>2. ASSUME UNCHANGED job PROVE JobsLessened(Request)
    BY <1>1, <1>2, LessenedFacts, Zenon DEF JobsLessened
  <1>3. ASSUME NEW ps, NEW answer, answer # "owed", req' = Answer(ps, answer),
               job' = Destroy(ps)
        PROVE  JobsLessened(Request)
    <2>1. \A q \in Request \ ps : Lessened(job[q], job'[q])
      BY <1>1, <1>3, LessenedFacts, Zenon DEF Destroy
    <2>2. \A q \in Request \cap ps : job'[q] = NoJob
      BY <1>3, Zenon DEF Destroy
    <2>3. \A q \in ps : \A r \in Request : r \in Owners(q) => req'[r] # "owed"
      BY <1>3, Zenon DEF Answer
    <2> QED BY <2>1, <2>2, <2>3, Zenon DEF JobsLessened, Released
  <1>4. ASSUME NEW p, NEW j, job' = [job EXCEPT ![p] = j],
               p \in Request => Lessened(job[p], j)
        PROVE  JobsLessened(Request)
    BY <1>1, <1>4, LessenedFacts, Zenon DEF JobsLessened
  <1>5. ASSUME NEW p, job' = [job EXCEPT ![p].cancelled = TRUE]
        PROVE  JobsLessened(Request)
    <2>1. p \in Request => Lessened(job[p], [job[p] EXCEPT !.cancelled = TRUE])
      BY <1>1, LessenedFacts, Zenon
    <2> QED BY <1>4, <1>5, <2>1, Zenon
  <1>6. ASSUME NEW w, FinishRetryable(w) PROVE JobsLessened(Request)
    <2>1. "retryable" # "owed"
      BY Zenon
    <2> QED BY <1>3, <1>6, <2>1, Zenon DEF FinishRetryable
  <1>7. ASSUME NEW hs, CancelIf(hs) PROVE JobsLessened(Request)
    <2> DEFINE hit == {p \in Registered : job[p].hash \in hs /\ ~ProtectsBodyReplay(p)}
               gone == {p \in hit : ~job[p].running}
    <2>1. /\ job' = [p \in Request |->
                       IF p \in gone THEN NoJob
                       ELSE IF p \in hit THEN [job[p] EXCEPT !.cancelled = TRUE]
                       ELSE job[p]]
          /\ req' = Answer(gone, "dropped")
      BY <1>7, Zenon DEF CancelIf
    <2> HIDE DEF hit, gone
    <2>2. \A q \in gone : \A r \in Request : r \in Owners(q) => req'[r] # "owed"
      BY <2>1, Zenon DEF Answer
    <2> QED BY <1>1, <2>1, <2>2, LessenedFacts, Zenon DEF JobsLessened, Released
  <1>8. CASE Stop
    <2>1. job' = [p \in Request |->
                    IF p \in Registered THEN [job[p] EXCEPT !.cancelled = TRUE]
                    ELSE job[p]]
      BY <1>8, Zenon DEF Stop
    <2> QED BY <1>1, <2>1, LessenedFacts, Zenon DEF JobsLessened
  <1>9. ASSUME NEW w \in Worker, WorkerStep(w) PROVE JobsLessened(Request)
    <2>1. ASSUME NEW tip, Take(w, tip) PROVE JobsLessened(Request)
      <3>1. CASE UNCHANGED job
        BY <3>1, <1>2, Zenon
      <3>2. CASE \E p \in m_queue : job' = [job EXCEPT ![p].running = TRUE]
        <4>1. PICK p \in m_queue : job' = [job EXCEPT ![p].running = TRUE]
          BY <3>2, Zenon
        <4>2. p \in Request => Lessened(job[p], [job[p] EXCEPT !.running = TRUE])
          BY <1>1, LessenedFacts, Zenon
        <4> QED BY <1>4, <4>1, <4>2, Zenon
      <3> QED BY <2>1, <3>1, <3>2, Zenon DEF Take
    <2>2. CASE Park(w)
      <3> DEFINE p == worker[w].pending
      <3>1. CASE job' = [job EXCEPT ![p].rc_pending_lease = None, ![p].running = FALSE]
        <4> DEFINE k == [job[p] EXCEPT !.rc_pending_lease = None, !.running = FALSE]
        <4>1. worker[w].pc \in Busy
          BY <2>2, Zenon DEF Park, Busy
        <4>2. p \in Request /\ job[p] \in Job
          BY <4>1, HeldJob, Zenon
        <4>3. job' = [job EXCEPT ![p] = k]
          BY <1>1, <3>1, <4>2, Zenon
        <4>4. Lessened(job[p], k)
          BY <4>2, LessenedFacts, Zenon
        <4> HIDE DEF k
        <4> QED BY <1>4, <4>3, <4>4, Zenon
      <3> QED BY <2>2, <3>1, <1>6, Zenon DEF Park
    <2>3. ASSUME NEW late, Scan(w, late) PROVE JobsLessened(Request)
      BY <1>2, <2>3, Zenon DEF Scan, callers
    <2>4. CASE FinishExpired(w)
      <3>1. "retryable" # "owed"
        BY Zenon
      <3> QED BY <1>3, <2>4, <3>1, Zenon DEF FinishExpired
    <2>5. CASE Start(w)
      BY <1>2, <1>6, <2>5, Zenon DEF Start, callers
    <2>6. ASSUME NEW granted, Acquire(w, granted) PROVE JobsLessened(Request)
      BY <1>2, <1>6, <2>6, Zenon DEF Acquire, callers
    <2>7. ASSUME NEW missing, Replay(w, missing) PROVE JobsLessened(Request)
      BY <1>2, <2>7, Zenon DEF Replay, callers
    <2>8. ASSUME NEW above, Trusted(w, above) PROVE JobsLessened(Request)
      BY <1>2, <1>6, <2>8, Zenon DEF Trusted, callers
    <2>9. CASE Recheck(w)
      BY <1>2, <2>9, Zenon DEF Recheck, callers
    <2>10. CASE Complete(w)
      <3>1. PICK answer \in {"retryable", "accepted", "rejected"} :
              req' = Answer({worker[w].pending}, answer)
        BY <2>10, Zenon DEF Complete
      <3>2. job' = Destroy({worker[w].pending})
        BY <2>10, Zenon DEF Complete
      <3>3. answer # "owed"
        BY <3>1, Zenon
      <3> QED BY <1>3, <3>1, <3>2, <3>3, Zenon
    <2> QED BY <1>9, <2>1, <2>2, <2>3, <2>4, <2>5, <2>6, <2>7, <2>8, <2>9, <2>10, Zenon
            DEF WorkerStep
  <1>10. ASSUME NEW p, LifecycleCancels(p) PROVE JobsLessened(Request)
    BY <1>5, <1>10, Zenon DEF LifecycleCancels
  <1>11. ASSUME NEW w, SchedulerPreempts(w) PROVE JobsLessened(Request)
    BY <1>5, <1>11, Zenon DEF SchedulerPreempts
  <1>12. ASSUME NEW h, AttestationStep(h) PROVE JobsLessened(Request)
    BY <1>2, <1>12, Zenon DEF AttestationStep, MmAttest, WakeParked,
       SubmitMatMulAttestations, callers
  <1>13. CASE StopJoined
    <2>1. "retryable" # "owed"
      BY Zenon
    <2> QED BY <1>3, <1>13, <2>1, Zenon DEF StopJoined
  <1> QED BY <1>7, <1>8, <1>9, <1>10, <1>11, <1>12, <1>13, Zenon DEF Next

(* A new job leaves the others as they are, or raises their latches. *)
LEMMA EnqueueJobs ==
    ASSUME Inv, NEW r \in Request, NEW h \in Hash, NEW block \in BOOLEAN,
           NEW priority, NEW bytes, NEW cancelled,
           Enqueue(r, h, block, priority, bytes, cancelled)
    PROVE  /\ r = m_next_sequence /\ m_next_sequence' = r + 1
           /\ JobsLessened(Request \ {r})
           /\ job'[r].rc_pending_lease \in {None, r} /\ job'[r].followers = {}
           /\ job'[r].hash = h
  <1> DEFINE hit == IF priority = AuthenticatedTipChild /\ ~cancelled
                    THEN Preempted(block) ELSE {}
             lease == IF block THEN None ELSE r
             handoff == ~block /\ priority = AuthenticatedTipChild
             new == [NewJob(h, block, priority, bytes, lease, handoff)
                       EXCEPT !.cancelled = cancelled]
  <1>1. /\ r = m_next_sequence /\ m_next_sequence' = m_next_sequence + 1
        /\ job' = [p \in Request |->
                     IF p = r THEN new
                     ELSE IF p \in hit THEN [job[p] EXCEPT !.cancelled = TRUE]
                     ELSE job[p]]
    BY Zenon DEF Enqueue
  <1>2. new.rc_pending_lease = lease /\ new.followers = {} /\ new.hash = h
    BY Zenon DEF NewJob
  <1>3. lease \in {None, r}
    BY Zenon
  <1> HIDE DEF hit, new, lease
  <1>4. job \in [Request -> Job]
    BY Zenon DEF Inv, Types
  <1>5. JobsLessened(Request \ {r})
    BY <1>1, <1>4, LessenedFacts, Zenon DEF JobsLessened
  <1>6. job'[r] = new
    BY <1>1, Zenon
  <1> QED BY <1>1, <1>2, <1>3, <1>5, <1>6, Zenon

(* The step makes a job retain the larger of two bodies. *)
JoinedBytes(p, bytes) ==
    job'[p].retained_body_bytes = Max({job[p].retained_body_bytes, bytes})

(* A body that joins adds itself to one job. *)
LEMMA JoinJobs ==
    ASSUME Inv, NEW r \in Request, NEW h \in Hash, NEW priority, NEW bytes \in Nat,
           Join(r, h, priority, bytes)
    PROVE  LET p == m_pending[h]
           IN  /\ r = m_next_sequence /\ m_next_sequence' = r + 1
               /\ p \in Request /\ job[p].hash = h
               /\ JobsLessened(Request \ {p})
               /\ \A q \in Request \ {p} : job'[q] = job[q]
               /\ job'[p].rc_pending_lease = job[p].rc_pending_lease
               /\ job'[p].handoff = job[p].handoff
               /\ job'[p].hash = h
               /\ job'[p].followers = job[p].followers \cup {r}
               /\ JoinedBytes(p, bytes)
  <1> DEFINE p == m_pending[h]
             new_bytes == Max({job[p].retained_body_bytes, bytes})
             new_priority == Max({job[p].priority, priority})
             k == [job[p] EXCEPT !.followers = job[p].followers \cup {r},
                                 !.body_joined = TRUE,
                                 !.retained_body_bytes = new_bytes,
                                 !.priority = new_priority]
  <1>1. /\ r = m_next_sequence /\ p # None
        /\ job' = [job EXCEPT ![p].followers = @ \cup {r},
                              ![p].body_joined = TRUE,
                              ![p].retained_body_bytes = new_bytes,
                              ![p].priority = Max({@, priority})]
        /\ m_next_sequence' = m_next_sequence + 1
    BY Zenon DEF Join
  <1>2. /\ job \in [Request -> Job] /\ m_pending \in [Hash -> Request \cup {None}]
    BY Zenon DEF Inv, Types
  <1>3. p \in Request /\ job[p] \in Job /\ job[p].hash = h
    BY <1>1, <1>2, Zenon DEF Inv, PendingOK
  <1>4. job' = [job EXCEPT ![p] = k]
    BY <1>1, <1>2, <1>3, Zenon
  <1> HIDE DEF new_bytes, new_priority
  <1>5. /\ k.rc_pending_lease = job[p].rc_pending_lease
        /\ k.hash = h
        /\ k.handoff = job[p].handoff
        /\ k.followers = job[p].followers \cup {r}
        /\ k.retained_body_bytes = new_bytes
    BY <1>3, Zenon DEF Job
  <1> HIDE DEF k
  <1>6. job'[p] = k /\ \A q \in Request \ {p} : job'[q] = job[q]
    BY <1>2, <1>3, <1>4, Zenon
  <1>7. JobsLessened(Request \ {p})
    BY <1>2, <1>6, LessenedFacts, Zenon DEF JobsLessened
  <1> HIDE DEF p
  <1>8. /\ job'[p].rc_pending_lease = job[p].rc_pending_lease
        /\ job'[p].hash = h
        /\ job'[p].handoff = job[p].handoff
        /\ job'[p].followers = job[p].followers \cup {r}
        /\ job'[p].retained_body_bytes = new_bytes
    BY <1>5, <1>6, Zenon
  <1>9. JoinedBytes(p, bytes)
    BY <1>8, Zenon DEF new_bytes, JoinedBytes
  <1> QED BY <1>1, <1>3, <1>6, <1>7, <1>8, <1>9, Zenon DEF p

(* A sibling takes the slot of one job that may still hand it on. *)
LEMMA HandoffJobs ==
    ASSUME Inv, ParkedUnpaid, NEW r \in Request, NEW h \in Hash, NEW block,
           NEW bytes, HandoffAuthenticatedTip(r, h, block, bytes)
    PROVE  /\ r = m_next_sequence /\ m_next_sequence' = r + 1
           /\ JobsLessened(Request \ {r})
           /\ job'[r].handoff = FALSE /\ job'[r].followers = {}
           /\ job'[r].hash = h
           /\ \A s \in Request : s # r /\ req'[s] = "owed" => req[s] = "owed"
           /\ \E source \in Request \ {r} :
                /\ job[source].handoff /\ job[source].rc_pending_lease # None
                /\ job'[source].rc_pending_lease = None
                /\ job'[r].rc_pending_lease = job[source].rc_pending_lease
  <1> DEFINE new(p) == NewJob(h, block, AuthenticatedTipChild, bytes,
                              job[p].rc_pending_lease, FALSE)
             old(p) == IF job[p].running
                       THEN [job[p] EXCEPT !.cancelled = TRUE, !.handoff = FALSE,
                                           !.rc_pending_lease = None]
                       ELSE NoJob
             gone(p) == {p} \ {q \in Request : job[q].running}
  <1>1. PICK source \in HandoffSources(h) :
          /\ job' = [job EXCEPT ![source] = old(source), ![r] = new(source)]
          /\ req' = [Answer(gone(source), "dropped") EXCEPT ![r] = "owed"]
    BY Zenon DEF HandoffAuthenticatedTip
  <1>2. r = m_next_sequence /\ m_next_sequence' = m_next_sequence + 1
    BY Zenon DEF HandoffAuthenticatedTip
  <1>3. /\ source \in Request /\ job[source] \in Job /\ source # r
        /\ job[source].handoff /\ job[source].rc_pending_lease # None
    <2>1. source \in Request /\ job[source] \in Job /\ source < m_next_sequence
      BY HandoffSource, Zenon
    <2>2. job[source].handoff /\ job[source].rc_pending_lease # None
      BY Zenon DEF HandoffSources
    <2>3. m_next_sequence \in Nat
      BY Zenon DEF Inv, Types
    <2> QED BY <1>2, <2>1, <2>2, <2>3
  <1>4. /\ new(source).rc_pending_lease = job[source].rc_pending_lease
        /\ new(source).handoff = FALSE /\ new(source).followers = {}
        /\ new(source).hash = h
    BY Zenon DEF NewJob
  <1>5. /\ \/ old(source) = NoJob /\ source \in gone(source)
           \/ Lessened(job[source], old(source))
        /\ old(source).rc_pending_lease = None
    <2>1. NoJob.rc_pending_lease = None
      BY Zenon DEF NoJob
    <2>2. [job[source] EXCEPT !.cancelled = TRUE, !.handoff = FALSE,
                              !.rc_pending_lease = None].rc_pending_lease = None
      BY <1>3, GiveUpFacts, Zenon
    <2> QED BY <1>3, <2>1, <2>2, LessenedFacts, Zenon
  <1>6. \A s \in Request : s # r => req'[s] = Answer(gone(source), "dropped")[s]
    BY <1>1, Zenon DEF Answer
  <1>7. r \notin Owners(source)
    BY <1>2, <1>3, Fresh, Zenon DEF Owners
  <1>8. ASSUME source \in gone(source)
        PROVE  \A s \in Request : s \in Owners(source) => req'[s] # "owed"
    BY <1>6, <1>7, <1>8, Zenon DEF Answer
  <1>9. \A s \in Request : s # r /\ req'[s] = "owed" => req[s] = "owed"
    BY <1>6, Zenon DEF Answer
  <1> HIDE DEF old, new, gone
  <1>10. job \in [Request -> Job]
    BY Zenon DEF Inv, Types
  <1>11. /\ job'[r] = new(source) /\ job'[source] = old(source)
         /\ \A q \in Request : q # r /\ q # source => job'[q] = job[q]
    BY <1>1, <1>3, <1>10, Zenon
  <1>12. JobsLessened(Request \ {r})
    BY <1>5, <1>10, <1>11, <1>8, LessenedFacts, Zenon DEF JobsLessened, Released
  <1> QED BY <1>2, <1>3, <1>4, <1>5, <1>11, <1>12, <1>9, Zenon

(* No number is given out, and nothing is registered. *)
Settled ==
    /\ UNCHANGED m_next_sequence
    /\ \A k \in Hash : m_pending'[k] \in {m_pending[k], None}

(* So it is with every step but those that hand a request in. *)
LEMMA StepSettles ==
    ASSUME Inv, Next, ~Submit
    PROVE  Settled
  <1>1. m_pending \in [Hash -> Request \cup {None}]
    BY Zenon DEF Inv, Types
  <1>2. ASSUME UNCHANGED m_next_sequence, UNCHANGED m_pending PROVE Settled
    BY <1>2, Zenon DEF Settled
  <1>3. ASSUME NEW h, UNCHANGED m_next_sequence,
               m_pending' = [m_pending EXCEPT ![h] = None]
        PROVE  Settled
    BY <1>1, <1>3, Zenon DEF Settled
  <1>4. ASSUME NEW S, UNCHANGED m_next_sequence,
               m_pending' = [k \in Hash |-> IF m_pending[k] \in S THEN None
                                           ELSE m_pending[k]]
        PROVE  Settled
    BY <1>4, Zenon DEF Settled
  <1>5. ASSUME NEW S, UNCHANGED m_next_sequence,
               m_pending' = [k \in Hash |-> IF k \in S THEN None ELSE m_pending[k]]
        PROVE  Settled
    BY <1>5, Zenon DEF Settled
  <1>6. ASSUME UNCHANGED callers, UNCHANGED pool PROVE Settled
    BY <1>2, <1>6, Zenon DEF callers, pool
  <1>7. ASSUME UNCHANGED callers, UNCHANGED m_pending PROVE Settled
    BY <1>2, <1>7, Zenon DEF callers
  <1>8. ASSUME NEW w, FinishRetryable(w) PROVE Settled
    BY <1>3, <1>8, Zenon DEF FinishRetryable
  <1>9. ASSUME NEW w, WorkerStep(w) PROVE Settled
    <2>1. ASSUME NEW late, Scan(w, late) PROVE Settled
      <3>1. CASE TakeExpired(w, late)
        <4>1. UNCHANGED m_next_sequence
          BY <2>1, Zenon DEF Scan, callers
        <4> QED BY <1>5, <3>1, <4>1, Zenon DEF TakeExpired
      <3> QED BY <1>6, <2>1, <3>1, Zenon DEF Scan
    <2>2. CASE FinishExpired(w)
      BY <1>2, <2>2, Zenon DEF FinishExpired
    <2>3. ASSUME NEW tip, Take(w, tip) PROVE Settled
      BY <1>2, <2>3, Zenon DEF Take
    <2>4. CASE Start(w)
      BY <1>6, <1>8, <2>4, Zenon DEF Start
    <2>5. ASSUME NEW granted, Acquire(w, granted) PROVE Settled
      BY <1>6, <1>8, <2>5, Zenon DEF Acquire
    <2>6. ASSUME NEW missing, Replay(w, missing) PROVE Settled
      BY <1>6, <2>6, Zenon DEF Replay
    <2>7. ASSUME NEW above, Trusted(w, above) PROVE Settled
      BY <1>6, <1>8, <2>7, Zenon DEF Trusted
    <2>8. CASE Park(w)
      BY <1>2, <1>8, <2>8, Zenon DEF Park
    <2>9. CASE Recheck(w)
      BY <1>7, <2>9, Zenon DEF Recheck
    <2>10. CASE Complete(w)
      BY <1>3, <2>10, Zenon DEF Complete
    <2> QED BY <1>9, <2>1, <2>2, <2>3, <2>4, <2>5, <2>6, <2>7, <2>8, <2>9, <2>10, Zenon
            DEF WorkerStep
  <1>10. ASSUME NEW hs, CancelIf(hs) PROVE Settled
    BY <1>4, <1>10, Zenon DEF CancelIf
  <1>11. ASSUME NEW p, LifecycleCancels(p) PROVE Settled
    BY <1>2, <1>11, Zenon DEF LifecycleCancels, pool
  <1>12. ASSUME NEW w, SchedulerPreempts(w) PROVE Settled
    BY <1>2, <1>12, Zenon DEF SchedulerPreempts, pool
  <1>13. ASSUME NEW h, AttestationStep(h) PROVE Settled
    BY <1>6, <1>7, <1>13, Zenon DEF AttestationStep, MmAttest, WakeParked,
       SubmitMatMulAttestations
  <1>14. CASE Stop
    BY <1>4, <1>14, Zenon DEF Stop
  <1>15. CASE StopJoined
    BY <1>2, <1>15, Zenon DEF StopJoined, pool
  <1> QED BY <1>9, <1>10, <1>11, <1>12, <1>13, <1>14, <1>15, Zenon DEF Next
=============================================================================
