------------------------- MODULE MatMulVerifyWorker -------------------------
(***************************************************************************)
(* node::MatMulVerifyWorker, the pool of threads that runs the expensive   *)
(* MatMul replay of a block outside the message thread.                    *)
(*                                                                         *)
(* A caller hands in a job (a full body, or a header ahead of its body) and *)
(* is owed one answer: completion(ok) or retryable_failure().  A body for a *)
(* hash already being verified joins that job and shares its answer.  On a *)
(* trusted mirror a job waits for an attestation quorum instead of being   *)
(* replayed: it is parked, and the message thread wakes it.                *)
(*                                                                         *)
(* Each region under m_mutex is one action; what a worker thread does      *)
(* between two regions is another.  A call that returns Deferred or Stopped *)
(* leaves the pool and the job as they were and is not an action.          *)
(*                                                                         *)
(* Abstractions.  Time: a parked job may be found past its deadline by any *)
(* scan, so deadlines are not kept.  The cancel-retry backoff only defers a *)
(* later Enqueue of the same hash; a caller may be that late in the model  *)
(* anyway, so it is left out.  The active tip and the authority frontier   *)
(* are set by other threads at any time and read at one place each, so     *)
(* they are inputs of those reads.  The heights are past the RC activation, *)
(* some of them past the coupled one, and Stage 3 is not enabled.  The      *)
(* speculative lease follows the pending lease.                            *)
(***************************************************************************)
EXTENDS Integers, FiniteSets, FiniteSetsExt

CONSTANTS
    MaxRequests,    \* bound: jobs handed in in one behaviour
    Hash,           \* block hashes
    Valid,          \* the hashes whose work is valid
    Height,         \* the height of each hash; siblings share their parent
    TipHeights,     \* heights of the tips SetActiveTip is called with
    CoupledHeights, \* values nMatMulRCCoupledHeight may have
    Worker,         \* threads; as many as m_max_threads
    Sizes,          \* serialized sizes of bodies
    MaxAwaitingJobs,    \* MAX_AWAITING_QUORUM_JOBS
    MaxAwaitingBytes,   \* MAX_AWAITING_QUORUM_BYTES
    None

ASSUME WorkerAssumption ==
    /\ MaxRequests \in Nat
    /\ IsFiniteSet(Hash) /\ IsFiniteSet(Worker)
    /\ Valid \subseteq Hash
    /\ Height \in [Hash -> Nat]
    /\ TipHeights \subseteq Nat /\ TipHeights # {}
    /\ CoupledHeights \subseteq Nat
    /\ Sizes \subseteq Nat \ {0}
    /\ MaxAwaitingJobs \in Nat
    /\ MaxAwaitingBytes \in Nat
    /\ None \notin Hash \cup (1..MaxRequests)

(* A request is numbered when it is handed in.  Its number also names the   *)
(* Pending object it leads, and orders them as Pending::sequence does.      *)
Request == 1..MaxRequests

Background == 0
CompetingBranch == 1
AuthenticatedTipChild == 2
Priority == {Background, CompetingBranch, AuthenticatedTipChild}

VARIABLES
    req,                \* what each caller has been told
    job,                \* the live Pending objects, by their first request
    m_queue,            \* Pending objects waiting for a thread
    m_pending,          \* hash -> Pending, or None
    m_awaiting_quorum,  \* hashes of the parked Pending objects
    m_awaiting_quorum_bytes,
    m_next_sequence,    \* the number of the next request
    m_stopped,          \* "no", then "joining" inside Stop, then "done"
    orphaned,           \* Pending objects Stop took out
    worker,             \* where each thread is, and its locals
    mirror,             \* IsTrustedMirror
    nMatMulRCCoupledHeight, \* where ENC_RC_COUPLED takes over from ENC_RC
    quorum,             \* hashes whose attestation quorum is complete
    notifying,          \* quorums seen by the message thread, not yet passed on
    missed,             \* history: parked hashes whose quorum came by RPC
    memo                \* the verdict cache of each header

callers == <<req, job, m_next_sequence>>
pool == <<m_queue, m_pending, m_awaiting_quorum, m_awaiting_quorum_bytes>>
stopping == <<m_stopped, orphaned>>
config == <<mirror, nMatMulRCCoupledHeight>>
attestation == <<quorum, notifying, missed>>
vars == <<callers, pool, stopping, worker, config, attestation, memo>>

(* block is TRUE for a body and FALSE for a header; lease is the request    *)
(* whose admission paid for the attempt.                                   *)
Job ==
    [hash : Hash \cup {None}, block : BOOLEAN, priority : Priority,
     cancelled : BOOLEAN, running : BOOLEAN, body_joined : BOOLEAN,
     retained_body_bytes : Nat, rc_pending_lease : Request \cup {None},
     handoff : BOOLEAN, followers : SUBSET Request]

NoJob ==
    [hash |-> None, block |-> FALSE, priority |-> Background,
     cancelled |-> FALSE, running |-> FALSE, body_joined |-> FALSE,
     retained_body_bytes |-> 0, rc_pending_lease |-> None,
     handoff |-> FALSE, followers |-> {}]

Step == {"none", "loop", "expire", "take", "start", "acquire", "trusted",
         "replay", "park", "recheck", "complete", "exit"}

(* failure tells what local_execution_failure stands for. *)
Local ==
    [pc : Step, pending : Request \cup {None}, hash : Hash \cup {None},
     tip_extending : BOOLEAN,
     shutting_down : BOOLEAN, protect_body_replay : BOOLEAN, ok : BOOLEAN,
     failure : {"none", "device", "cancelled"}, expired : SUBSET Request]

At(pc) ==
    [pc |-> pc, pending |-> None, hash |-> None, tip_extending |-> FALSE,
     shutting_down |-> FALSE, protect_body_replay |-> FALSE, ok |-> FALSE,
     failure |-> "none", expired |-> {}]

Answers == {"unused", "owed", "accepted", "rejected", "retryable", "dropped"}

Init ==
    /\ req = [r \in Request |-> "unused"]
    /\ job = [r \in Request |-> NoJob]
    /\ m_queue = {}
    /\ m_pending = [h \in Hash |-> None]
    /\ m_awaiting_quorum = {}
    /\ m_awaiting_quorum_bytes = 0
    /\ m_next_sequence = 1
    /\ m_stopped = "no"
    /\ orphaned = {}
    /\ worker = [w \in Worker |-> At("none")]
    /\ mirror \in BOOLEAN
    /\ nMatMulRCCoupledHeight \in CoupledHeights
    /\ quorum = {}
    /\ notifying = {}
    /\ missed = {}
    /\ memo = [h \in Hash |-> "none"]
-----------------------------------------------------------------------------
(* Helpers.                                                                 *)

Stopped == m_stopped # "no"

(* IsMatMulRCCoupledActive. *)
Coupled(h) == Height[h] >= nMatMulRCCoupledHeight

(* trusted_exact_replay: a quorum stands for the replay.  No attestation    *)
(* covers the second leg of a coupled block.                               *)
TrustedExactReplay(h) == mirror /\ ~Coupled(h)

(* Mutant: a body that joined a header's job does not count. *)
ProtectsLeaderBodyOnly(p) == job[p].block

ProtectsBodyReplay(p) == job[p].body_joined

(* The Pending objects registered in m_pending. *)
Registered == {m_pending[h] : h \in Hash} \ {None}

(* The Pending objects that some thread, or the pool, still refers to. *)
Live == {p \in Request : job[p] # NoJob}

(* Everyone whose callbacks hang on p. *)
Owners(p) == {p} \cup job[p].followers

Owed(r) == req[r] = "owed"

(* Every owner of a job in ps gets the answer, and the job is destroyed. *)
Answer(ps, answer) ==
    [r \in Request |->
        IF \E p \in ps : r \in Owners(p)
        THEN answer ELSE req[r]]

Destroy(ps) == [p \in Request |-> IF p \in ps THEN NoJob ELSE job[p]]

(* The bytes of the bodies that the jobs in ps retain, and their number. *)
Bytes(jobs, ps) == UNION {{p} \X (1..jobs[p].retained_body_bytes) : p \in ps}

BytesOf(jobs, ps) == Cardinality(Bytes(jobs, ps))

(* Mutant: the latch is always handed over. *)
LatchAlwaysExposed(w) == TRUE

(* The latch the scheduler and the replay are given, if any. *)
LatchExposed(w) ==
    ~(worker[w].protect_body_replay /\ ~worker[w].shutting_down)

(* Before PreferTrustedWork: a rank for the active tip tip. *)
TipExtending(h, tip) == Height[h] = tip + 1

AboveTip(h, tip) == Height[h] > tip

(* PreferTrustedWork, as HigherPriority calls it. *)
HigherPriority(p, q, tip) ==
    LET hp == job[p].hash
        hq == job[q].hash
    IN  \/ TipExtending(hp, tip) /\ ~TipExtending(hq, tip)
        \/ /\ TipExtending(hp, tip) = TipExtending(hq, tip)
           /\ \/ AboveTip(hp, tip) /\ ~AboveTip(hq, tip)
              \/ /\ AboveTip(hp, tip) = AboveTip(hq, tip)
                 /\ \/ job[p].priority > job[q].priority
                    \/ /\ job[p].priority = job[q].priority
                       /\ \/ AboveTip(hp, tip) /\ Height[hp] < Height[hq]
                          \/ ~AboveTip(hp, tip) /\ Height[hp] > Height[hq]
                          \/ /\ Height[hp] = Height[hq]
                             /\ p < q

(* One thread per call until the cap. *)
StartThread(queued) ==
    LET started == {w \in Worker : worker[w].pc # "none"}
    IN  IF Cardinality(started) < Cardinality(queued) /\ started # Worker
        THEN \E w \in Worker \ started :
                worker' = [worker EXCEPT ![w] = At("loop")]
        ELSE UNCHANGED worker
-----------------------------------------------------------------------------
(* The callers: the message thread, and the scheduler thread's retries.     *)

(* What Enqueue's loop cancels when the tip child r arrives: running, not   *)
(* body-holding, and of a lower priority or a header against a body.        *)
Preempted(block) ==
    {p \in Registered :
        /\ job[p].running
        /\ ~ProtectsBodyReplay(p)
        /\ \/ job[p].priority < AuthenticatedTipChild
           \/ block /\ ~job[p].block}

NewJob(h, block, priority, bytes, lease, handoff) ==
    [hash |-> h, block |-> block, priority |-> priority, cancelled |-> FALSE,
     running |-> FALSE, body_joined |-> block, retained_body_bytes |-> bytes,
     rc_pending_lease |-> lease, handoff |-> handoff, followers |-> {}]

(* A header pays with a pending lease; a body's is owned by its lifecycle,  *)
(* which also owns its latch and may have raised it already.                *)
Enqueue(r, h, block, priority, bytes, cancelled) ==
    /\ ~Stopped
    /\ r = m_next_sequence
    /\ m_pending[h] = None
    /\ LET hit == IF priority = AuthenticatedTipChild /\ ~cancelled
                  THEN Preempted(block) ELSE {}
       IN  job' = [p \in Request |->
                     IF p = r
                     THEN [NewJob(h, block, priority, bytes,
                                  IF block THEN None ELSE r,
                                  ~block /\ priority = AuthenticatedTipChild)
                             EXCEPT !.cancelled = cancelled]
                     ELSE IF p \in hit
                     THEN [job[p] EXCEPT !.cancelled = TRUE]
                     ELSE job[p]]
    /\ req' = [req EXCEPT ![r] = "owed"]
    /\ m_queue' = m_queue \cup {r}
    /\ m_pending' = [m_pending EXCEPT ![h] = r]
    /\ m_next_sequence' = m_next_sequence + 1
    /\ StartThread(m_queue')
    /\ UNCHANGED <<m_awaiting_quorum, m_awaiting_quorum_bytes,
                   stopping, config, attestation, memo>>

(* Mutant: the bytes a body adds to a parked job are not charged. *)
JoinUncharged(r, h, priority, bytes) ==
    LET p == m_pending[h]
        new_bytes == Max({job[p].retained_body_bytes, bytes})
        additional == IF h \in m_awaiting_quorum
                      THEN new_bytes - job[p].retained_body_bytes ELSE 0
    IN  /\ ~Stopped
        /\ r = m_next_sequence
        /\ p # None
        /\ ~job[p].cancelled
        /\ additional <= MaxAwaitingBytes
                           - Min({m_awaiting_quorum_bytes, MaxAwaitingBytes})
        /\ job' = [job EXCEPT
                     ![p].followers = @ \cup {r},
                     ![p].body_joined = TRUE,
                     ![p].retained_body_bytes = new_bytes,
                     ![p].priority = Max({@, priority})]
        /\ req' = [req EXCEPT ![r] = "owed"]
        /\ m_next_sequence' = m_next_sequence + 1
        /\ UNCHANGED <<m_queue, m_pending, m_awaiting_quorum,
                       m_awaiting_quorum_bytes, stopping, worker,
                       config, attestation, memo>>

(* A body behind a job of the same hash.  Headers are NewOnly. *)
Join(r, h, priority, bytes) ==
    LET p == m_pending[h]
        new_bytes == Max({job[p].retained_body_bytes, bytes})
        additional == IF h \in m_awaiting_quorum
                      THEN new_bytes - job[p].retained_body_bytes ELSE 0
    IN  /\ ~Stopped
        /\ r = m_next_sequence
        /\ p # None
        /\ ~job[p].cancelled
        /\ additional <= MaxAwaitingBytes
                           - Min({m_awaiting_quorum_bytes, MaxAwaitingBytes})
        /\ m_awaiting_quorum_bytes' = m_awaiting_quorum_bytes + additional
        /\ job' = [job EXCEPT
                     ![p].followers = @ \cup {r},
                     ![p].body_joined = TRUE,
                     ![p].retained_body_bytes = new_bytes,
                     ![p].priority = Max({@, priority})]
        /\ req' = [req EXCEPT ![r] = "owed"]
        /\ m_next_sequence' = m_next_sequence + 1
        /\ UNCHANGED <<m_queue, m_pending, m_awaiting_quorum, stopping, worker,
                       config, attestation, memo>>

(* The attempts whose paid slot the sibling h may inherit. *)
HandoffSources(h) ==
    {p \in Registered :
        /\ job[p].hash # h
        /\ ~ProtectsBodyReplay(p)
        /\ ~job[p].block
        /\ job[p].priority = AuthenticatedTipChild
        /\ job[p].handoff
        /\ job[p].rc_pending_lease # None
        /\ ~job[p].cancelled
        /\ Height[job[p].hash] = Height[h]}

(* Mutant: the replacement may hand the slot on once more. *)
HandoffAgain(r, h, block, bytes) ==
    /\ ~Stopped
    /\ r = m_next_sequence
    /\ m_pending[h] = None
    /\ \E source \in HandoffSources(h) :
         /\ \A p \in HandoffSources(h) : source <= p
         /\ job' = [job EXCEPT
                      ![source] =
                        IF job[source].running
                        THEN [@ EXCEPT !.cancelled = TRUE, !.handoff = FALSE,
                                       !.rc_pending_lease = None]
                        ELSE NoJob,
                      ![r] = NewJob(h, block, AuthenticatedTipChild, bytes,
                                    job[source].rc_pending_lease, TRUE)]
         /\ LET gone == {source} \ {p \in Request : job[p].running}
            IN  /\ req' = [Answer(gone, "dropped") EXCEPT ![r] = "owed"]
                /\ m_queue' = (m_queue \cup {r}) \ gone
                /\ m_pending' = [k \in Hash |->
                                   IF k = h THEN r
                                   ELSE IF m_pending[k] \in gone THEN None
                                   ELSE m_pending[k]]
    /\ m_next_sequence' = m_next_sequence + 1
    /\ StartThread(m_queue')
    /\ UNCHANGED <<m_awaiting_quorum, m_awaiting_quorum_bytes,
                   stopping, config, attestation, memo>>

HandoffAuthenticatedTip(r, h, block, bytes) ==
    /\ ~Stopped
    /\ r = m_next_sequence
    /\ m_pending[h] = None
    /\ \E source \in HandoffSources(h) :
         /\ \A p \in HandoffSources(h) : source <= p
         /\ job' = [job EXCEPT
                      ![source] =
                        IF job[source].running
                        THEN [@ EXCEPT !.cancelled = TRUE, !.handoff = FALSE,
                                       !.rc_pending_lease = None]
                        ELSE NoJob,
                      ![r] = NewJob(h, block, AuthenticatedTipChild, bytes,
                                    job[source].rc_pending_lease, FALSE)]
         /\ LET gone == {source} \ {p \in Request : job[p].running}
            IN  /\ req' = [Answer(gone, "dropped") EXCEPT ![r] = "owed"]
                /\ m_queue' = (m_queue \cup {r}) \ gone
                /\ m_pending' = [k \in Hash |->
                                   IF k = h THEN r
                                   ELSE IF m_pending[k] \in gone THEN None
                                   ELSE m_pending[k]]
    /\ m_next_sequence' = m_next_sequence + 1
    /\ StartThread(m_queue')
    /\ UNCHANGED <<m_awaiting_quorum, m_awaiting_quorum_bytes,
                   stopping, config, attestation, memo>>

(* Cancel for one hash, CancelIf for the hashes its predicate picks. *)
CancelIf(hs) ==
    LET hit == {p \in Registered : job[p].hash \in hs /\ ~ProtectsBodyReplay(p)}
        gone == {p \in hit : ~job[p].running}
        unparked == {h \in m_awaiting_quorum : m_pending[h] \in gone}
    IN  /\ hit # {}
        /\ job' = [p \in Request |->
                     IF p \in gone THEN NoJob
                     ELSE IF p \in hit THEN [job[p] EXCEPT !.cancelled = TRUE]
                     ELSE job[p]]
        /\ m_queue' = m_queue \ gone
        /\ m_awaiting_quorum' = m_awaiting_quorum \ unparked
        /\ m_awaiting_quorum_bytes' =
             m_awaiting_quorum_bytes
               - BytesOf(job, {m_pending[h] : h \in unparked})
        /\ m_pending' = [h \in Hash |->
                           IF m_pending[h] \in gone THEN None ELSE m_pending[h]]
        /\ req' = Answer(gone, "dropped")
        /\ UNCHANGED <<m_next_sequence, stopping,
                       worker, config, attestation, memo>>

(* The body's lifecycle attempt shares the job's latch and may expire. *)
LifecycleCancels(p) ==
    /\ p \in Registered
    /\ job[p].block
    /\ ~job[p].cancelled
    /\ job' = [job EXCEPT ![p].cancelled = TRUE]
    /\ UNCHANGED <<req, m_next_sequence, pool, stopping, worker, config,
                   attestation, memo>>
-----------------------------------------------------------------------------
(* Attestations.                                                            *)

(* Mutant: the hash stays in the parked set. *)
NotifyKeepsParked(h) ==
    IF h \in m_awaiting_quorum
    THEN /\ UNCHANGED m_awaiting_quorum
         /\ m_awaiting_quorum_bytes' =
              m_awaiting_quorum_bytes - job[m_pending[h]].retained_body_bytes
         /\ m_queue' = m_queue \cup {m_pending[h]}
    ELSE UNCHANGED <<m_awaiting_quorum, m_awaiting_quorum_bytes, m_queue>>

(* Mutant: the woken job is not put back into the queue. *)
NotifyForgetsJob(h) ==
    IF h \in m_awaiting_quorum
    THEN /\ m_awaiting_quorum' = m_awaiting_quorum \ {h}
         /\ m_awaiting_quorum_bytes' =
              m_awaiting_quorum_bytes - job[m_pending[h]].retained_body_bytes
         /\ UNCHANGED m_queue
    ELSE UNCHANGED <<m_awaiting_quorum, m_awaiting_quorum_bytes, m_queue>>

(* The effect of NotifyQuorumReady on the pool. *)
NotifyQuorumReady(h) ==
    IF h \in m_awaiting_quorum
    THEN /\ m_awaiting_quorum' = m_awaiting_quorum \ {h}
         /\ m_awaiting_quorum_bytes' =
              m_awaiting_quorum_bytes - job[m_pending[h]].retained_body_bytes
         /\ m_queue' = m_queue \cup {m_pending[h]}
    ELSE UNCHANGED <<m_awaiting_quorum, m_awaiting_quorum_bytes, m_queue>>

(* A quorum can complete: a mirror's block that a Profile-1 attestation is  *)
(* about; signers attest only what they verified.                          *)
Attestable(h) == h \in Valid /\ TrustedExactReplay(h)

(* MMATTEST: Add stores the last attestation of the quorum. *)
MmAttest(h) ==
    /\ Attestable(h)
    /\ h \notin quorum
    /\ quorum' = quorum \cup {h}
    /\ notifying' = notifying \cup {h}
    /\ UNCHANGED <<callers, pool, stopping, worker, config, missed, memo>>

(* The same handler, having seen the quorum, wakes the worker.  So does the *)
(* handler of a duplicate, at any later time.                               *)
WakeParked(h) ==
    /\ h \in quorum
    /\ notifying' = notifying \ {h}
    /\ NotifyQuorumReady(h)
    /\ UNCHANGED <<callers, m_pending, stopping, worker,
                   config, quorum, missed, memo>>

(* A thread has parked h and is about to look at its quorum again. *)
Rechecking(h) == \E w \in Worker : worker[w].pc = "recheck" /\ worker[w].hash = h

(* The RPC stores the last attestation too, and wakes nobody.               *)
SubmitMatMulAttestations(h) ==
    /\ Attestable(h)
    /\ h \notin quorum
    /\ quorum' = quorum \cup {h}
    /\ missed' = missed \cup {k \in {h} \cap m_awaiting_quorum : ~Rechecking(k)}
    /\ UNCHANGED <<callers, pool, stopping, worker, config, notifying, memo>>
-----------------------------------------------------------------------------
(* The worker threads.                                                      *)

Goto(w, pc) == worker' = [worker EXCEPT ![w].pc = pc]

(* finish_retryable_without_verdict, and back to the head of the loop. *)
FinishRetryable(w) ==
    LET p == worker[w].pending
        h == worker[w].hash
    IN  /\ m_pending' = [m_pending EXCEPT ![h] = None]
        /\ m_awaiting_quorum' = m_awaiting_quorum \ {h}
        /\ req' = Answer({p}, "retryable")
        /\ job' = Destroy({p})
        /\ worker' = [worker EXCEPT ![w] = At("loop")]
        /\ UNCHANGED <<m_queue, m_awaiting_quorum_bytes, m_next_sequence>>

(* TakeExpiredAwaitingQuorum; late are the jobs past their deadline. *)
Expired(late) ==
    {h \in m_awaiting_quorum : h \in late \/ job[m_pending[h]].cancelled}

TakeExpired(w, late) ==
    LET hs == Expired(late)
        ps == {m_pending[h] : h \in hs}
    IN  /\ hs # {}
        /\ m_pending' = [h \in Hash |-> IF h \in hs THEN None ELSE m_pending[h]]
        /\ m_awaiting_quorum' = m_awaiting_quorum \ hs
        /\ m_awaiting_quorum_bytes' = m_awaiting_quorum_bytes - BytesOf(job, ps)
        /\ worker' = [worker EXCEPT ![w].pc = "expire", ![w].expired = ps]
        /\ UNCHANGED <<m_queue>>

(* The head of the loop.  A thread with nothing to do waits here.  The      *)
(* condition it waits for is the guard, so a spurious wake-up is a stutter. *)
Scan(w, late) ==
    /\ worker[w].pc = "loop"
    /\ \/ TakeExpired(w, late)
       \/ /\ Expired(late) = {}
          /\ Stopped \/ m_queue # {}
          /\ Goto(w, IF Stopped THEN "exit" ELSE "take")
          /\ UNCHANGED pool
    /\ UNCHANGED <<callers, stopping, config, attestation, memo>>

(* FinishRetryablePending for one of the expired jobs. *)
FinishExpired(w) ==
    /\ worker[w].pc = "expire"
    /\ \E p \in worker[w].expired :
         /\ req' = Answer({p}, "retryable")
         /\ job' = Destroy({p})
         /\ worker' = [worker EXCEPT
              ![w].expired = @ \ {p},
              ![w].pc = IF worker[w].expired # {p} THEN "expire"
                        ELSE IF Stopped THEN "exit" ELSE "loop"]
    /\ UNCHANGED <<m_next_sequence, m_queue, m_pending, m_awaiting_quorum,
                   m_awaiting_quorum_bytes, stopping, config, attestation, memo>>

(* The second region: the best of the queue for the active tip. *)
Take(w, tip) ==
    /\ worker[w].pc = "take"
    /\ IF Stopped \/ m_queue = {}
       THEN /\ Goto(w, IF Stopped THEN "exit" ELSE "loop")
            /\ UNCHANGED <<job, m_queue>>
       ELSE \E p \in m_queue :
              /\ \A q \in m_queue \ {p} : HigherPriority(p, q, tip)
              /\ m_queue' = m_queue \ {p}
              /\ job' = [job EXCEPT ![p].running = TRUE]
              /\ worker' = [worker EXCEPT
                   ![w].pc = "start", ![w].pending = p,
                   ![w].hash = job[p].hash,
                   ![w].tip_extending = TipExtending(job[p].hash, tip)]
    /\ UNCHANGED <<req, m_next_sequence, m_pending, m_awaiting_quorum,
                   m_awaiting_quorum_bytes, stopping,
                   config, attestation, memo>>

(* m_shutdown, the latch and body_joined are read without the mutex. *)
Start(w) ==
    LET p == worker[w].pending
    IN  /\ worker[w].pc = "start"
        /\ IF job[p].cancelled /\ (~ProtectsBodyReplay(p) \/ Stopped)
           THEN FinishRetryable(w)
           ELSE /\ worker' = [worker EXCEPT
                     ![w].pc = IF TrustedExactReplay(worker[w].hash)
                               THEN "trusted" ELSE "acquire",
                     ![w].tip_extending = @ /\ TrustedExactReplay(worker[w].hash),
                     ![w].shutting_down = Stopped,
                     ![w].protect_body_replay = ProtectsBodyReplay(p)]
                /\ UNCHANGED <<callers, pool>>
        /\ UNCHANGED <<stopping, config, attestation, memo>>

(* RCAcceleratorScheduler::Acquire returns a lease, or none: the latch was  *)
(* raised, the lane was full or the waiter was displaced.                   *)
Acquire(w, granted) ==
    /\ worker[w].pc = "acquire"
    /\ IF granted
       THEN Goto(w, "replay") /\ UNCHANGED <<callers, pool>>
       ELSE FinishRetryable(w)
    /\ UNCHANGED <<stopping, config, attestation, memo>>

(* The scheduler preempts the holder through the latch it was given. *)
SchedulerPreempts(w) ==
    LET p == worker[w].pending
    IN  /\ worker[w].pc = "replay"
        /\ LatchExposed(w)
        /\ ~job[p].cancelled
        /\ job' = [job EXCEPT ![p].cancelled = TRUE]
        /\ UNCHANGED <<req, m_next_sequence, pool, stopping, worker, config,
                       attestation, memo>>

(* Mutant: a replay cut short returns a plain negative. *)
OutcomesCutIsNegative(w) ==
    LET p == worker[w].pending
        cut == LatchExposed(w) /\ job[p].cancelled
    IN  {[ok |-> job[p].hash \in Valid, failure |-> "none"],
         [ok |-> FALSE, failure |-> "device"]}
        \cup (IF cut THEN {[ok |-> FALSE, failure |-> "none"]} ELSE {})

(* What verify_pure can return: the verdict, or a local failure, or, when   *)
(* the latch it was given is raised, "cancelled".  The coupled check has no  *)
(* way to say either: cut short, it returns a plain negative.               *)
Outcomes(w) ==
    LET p == worker[w].pending
        cut == LatchExposed(w) /\ job[p].cancelled
    IN  {[ok |-> job[p].hash \in Valid, failure |-> "none"]}
        \cup IF Coupled(job[p].hash)
             THEN IF cut THEN {[ok |-> FALSE, failure |-> "none"]} ELSE {}
             ELSE {[ok |-> FALSE, failure |-> "device"]}
                  \cup IF cut THEN {[ok |-> FALSE, failure |-> "cancelled"]} ELSE {}

(* The replay, and CacheMatMulEncDrVerdict unless the verdict is suppressed *)
(* or negative for want of a sampled carrier.                               *)
Replay(w, carrier_missing) ==
    LET p == worker[w].pending
    IN  /\ worker[w].pc = "replay"
        /\ carrier_missing => ~Coupled(job[p].hash)
        /\ \E out \in Outcomes(w) :
             LET suppress == \/ out.failure # "none"
                             \/ /\ job[p].cancelled
                                /\ \/ ~ProtectsBodyReplay(p)
                                   \/ worker[w].shutting_down
             IN  /\ worker' = [worker EXCEPT ![w].pc = "complete",
                                             ![w].ok = out.ok,
                                             ![w].failure = out.failure]
                 /\ memo' = IF suppress \/ (carrier_missing /\ ~out.ok)
                            THEN memo
                            ELSE [memo EXCEPT ![job[p].hash] =
                                    IF out.ok THEN "valid" ELSE "invalid"]
        /\ UNCHANGED <<callers, pool, stopping, config, attestation>>

(* A trusted mirror: skip above the frontier, accept a quorum, or park. *)
Trusted(w, above_frontier) ==
    LET h == worker[w].hash
    IN  /\ worker[w].pc = "trusted"
        /\ \/ /\ ~worker[w].tip_extending /\ above_frontier
              /\ FinishRetryable(w)
              /\ UNCHANGED memo
           \/ /\ worker[w].tip_extending \/ ~above_frontier
              /\ IF h \in quorum
                 THEN /\ memo' = [memo EXCEPT ![h] = "valid"]
                      /\ worker' = [worker EXCEPT ![w].pc = "complete",
                                                  ![w].tip_extending = FALSE,
                                                  ![w].ok = TRUE]
                 ELSE /\ worker' = [worker EXCEPT ![w].pc = "park",
                                                  ![w].tip_extending = FALSE]
                      /\ UNCHANGED memo
              /\ UNCHANGED <<callers, pool>>
        /\ UNCHANGED <<stopping, config, attestation>>

(* The lease is dropped, then the job is parked if the parked set has room. *)
Park(w) ==
    LET p == worker[w].pending
        h == worker[w].hash
        fits == /\ Cardinality(m_awaiting_quorum) < MaxAwaitingJobs
                /\ job[p].retained_body_bytes
                     <= MaxAwaitingBytes
                          - Min({m_awaiting_quorum_bytes, MaxAwaitingBytes})
    IN  /\ worker[w].pc = "park"
        /\ IF fits
           THEN /\ job' = [job EXCEPT ![p].rc_pending_lease = None,
                                      ![p].running = FALSE]
                /\ m_awaiting_quorum' = m_awaiting_quorum \cup {h}
                /\ m_awaiting_quorum_bytes' =
                     m_awaiting_quorum_bytes + job[p].retained_body_bytes
                /\ Goto(w, "recheck")
                /\ UNCHANGED <<req, m_next_sequence, m_queue, m_pending>>
           ELSE FinishRetryable(w)
        /\ UNCHANGED <<stopping, config, attestation, memo>>

(* Mutant: the quorum is not looked at again. *)
NoRecheck(w) ==
    /\ worker[w].pc = "recheck"
    /\ worker' = [worker EXCEPT ![w] = At("loop")]
    /\ UNCHANGED <<callers, pool, stopping, config, attestation, memo>>

(* The quorum may have landed between the first look and the parking. *)
Recheck(w) ==
    LET h == worker[w].hash
    IN  /\ worker[w].pc = "recheck"
        /\ IF h \in quorum
           THEN NotifyQuorumReady(h)
           ELSE UNCHANGED <<m_awaiting_quorum, m_awaiting_quorum_bytes, m_queue>>
        /\ worker' = [worker EXCEPT ![w] = At("loop")]
        /\ UNCHANGED <<callers, m_pending, stopping,
                       config, attestation, memo>>

(* The last region: every owner of the job gets the same answer. *)
Complete(w) ==
    LET p == worker[w].pending
        h == worker[w].hash
        ok == worker[w].ok
        cancelled_header_only ==
            /\ job[p].cancelled
            /\ ~ProtectsBodyReplay(p) \/ (Stopped /\ ~ok)
        retryable == worker[w].failure # "none" \/ cancelled_header_only
    IN  /\ worker[w].pc = "complete"
        /\ m_pending' = [m_pending EXCEPT ![h] = None]
        /\ req' = Answer({p}, IF retryable THEN "retryable"
                              ELSE IF ok THEN "accepted" ELSE "rejected")
        /\ job' = Destroy({p})
        /\ worker' = [worker EXCEPT ![w] = At("loop")]
        /\ UNCHANGED <<m_next_sequence, m_queue, m_awaiting_quorum,
                       m_awaiting_quorum_bytes, stopping, config, attestation,
                       memo>>

-----------------------------------------------------------------------------
(* Stop, in its two parts: the region, and what follows the joins.          *)

Stop ==
    LET taken == m_queue \cup {m_pending[h] : h \in m_awaiting_quorum}
    IN  /\ m_stopped = "no"
        /\ m_stopped' = "joining"
        /\ job' = [p \in Request |->
                     IF p \in Registered THEN [job[p] EXCEPT !.cancelled = TRUE]
                     ELSE job[p]]
        /\ orphaned' = taken
        /\ m_queue' = {}
        /\ m_awaiting_quorum' = {}
        /\ m_awaiting_quorum_bytes' = 0
        /\ m_pending' = [h \in Hash |->
                           IF m_pending[h] \in taken THEN None ELSE m_pending[h]]
        /\ UNCHANGED <<req, m_next_sequence, worker, config, attestation, memo>>

(* Mutant: the jobs Stop took out get no cleanup. *)
StopForgetsOrphans ==
    /\ m_stopped = "joining"
    /\ \A w \in Worker : worker[w].pc \in {"none", "exit"}
    /\ m_stopped' = "done"
    /\ orphaned' = {}
    /\ UNCHANGED <<callers, pool, worker, config, attestation, memo>>

StopJoined ==
    /\ m_stopped = "joining"
    /\ \A w \in Worker : worker[w].pc \in {"none", "exit"}
    /\ m_stopped' = "done"
    /\ orphaned' = {}
    /\ req' = Answer(orphaned, "retryable")
    /\ job' = Destroy(orphaned)
    /\ UNCHANGED <<m_next_sequence, pool, worker, config, attestation, memo>>
-----------------------------------------------------------------------------
Submit ==
    \E r \in Request, h \in Hash :
        \/ \E priority \in {CompetingBranch, AuthenticatedTipChild} :
              Enqueue(r, h, FALSE, priority, 0, FALSE)
        \/ \E priority \in Priority, bytes \in Sizes :
              \/ \E cancelled \in BOOLEAN :
                    Enqueue(r, h, TRUE, priority, bytes, cancelled)
              \/ Join(r, h, priority, bytes)
        \/ HandoffAuthenticatedTip(r, h, FALSE, 0)
        \/ \E bytes \in Sizes : HandoffAuthenticatedTip(r, h, TRUE, bytes)

AttestationStep(h) ==
    MmAttest(h) \/ WakeParked(h) \/ SubmitMatMulAttestations(h)

WorkerStep(w) ==
    \/ \E late \in SUBSET Hash : Scan(w, late)
    \/ FinishExpired(w)
    \/ \E tip \in TipHeights : Take(w, tip)
    \/ Start(w)
    \/ \E granted \in BOOLEAN : Acquire(w, granted)
    \/ \E carrier_missing \in BOOLEAN : Replay(w, carrier_missing)
    \/ \E above_frontier \in BOOLEAN : Trusted(w, above_frontier)
    \/ Park(w)
    \/ Recheck(w)
    \/ Complete(w)

Next ==
    \/ Submit
    \/ \E hs \in SUBSET Hash : CancelIf(hs)
    \/ \E p \in Request : LifecycleCancels(p)
    \/ \E w \in Worker : SchedulerPreempts(w)
    \/ \E h \in Hash : AttestationStep(h)
    \/ Stop \/ StopJoined
    \/ \E w \in Worker : WorkerStep(w)

Spec == Init /\ [][Next]_vars

(* A worker thread keeps running, its waits end (a deadline passes, Acquire *)
(* returns, a replay terminates), and Stop finishes once the threads have.  *)
FairSpec ==
    /\ Spec
    /\ \A w \in Worker : WF_vars(WorkerStep(w))
    /\ WF_vars(StopJoined)
-----------------------------------------------------------------------------
(* Properties.                                                              *)

TypeOK ==
    /\ req \in [Request -> Answers]
    /\ job \in [Request -> Job]
    /\ m_queue \subseteq Request
    /\ m_pending \in [Hash -> Request \cup {None}]
    /\ m_awaiting_quorum \subseteq Hash
    /\ m_awaiting_quorum_bytes \in Nat
    /\ m_next_sequence \in Nat
    /\ m_stopped \in {"no", "joining", "done"}
    /\ orphaned \subseteq Request
    /\ worker \in [Worker -> Local]
    /\ mirror \in BOOLEAN
    /\ nMatMulRCCoupledHeight \in CoupledHeights
    /\ quorum \subseteq Hash /\ notifying \subseteq quorum
    /\ missed \subseteq quorum
    /\ memo \in [Hash -> {"none", "valid", "invalid"}]

(* The workers that hold p: running it, or about to look at its quorum. *)
HeldBy(p) ==
    {w \in Worker : worker[w].pending = p /\ worker[w].pc # "recheck"}

(* A registered job is in exactly one place: waiting in m_queue, parked in  *)
(* m_awaiting_quorum, or in the hands of one thread, and it is registered   *)
(* under its own hash.  The regions of Enqueue, NotifyQuorumReady, Cancel,  *)
(* parking and Stop each move it from one place to another.                 *)
PlacedOnce ==
    \A h \in Hash :
        LET p == m_pending[h]
            places == (IF p \in m_queue THEN 1 ELSE 0)
                      + (IF h \in m_awaiting_quorum THEN 1 ELSE 0)
                      + Cardinality(HeldBy(p))
        IN  IF p = None
            THEN h \notin m_awaiting_quorum
            ELSE job[p].hash = h /\ places = 1

(* m_awaiting_quorum_bytes is the sum over the parked jobs, through every   *)
(* way of parking, joining, waking, cancelling and expiring, and never      *)
(* exceeds MAX_AWAITING_QUORUM_BYTES.                                       *)
ParkedBytesExact ==
    /\ m_awaiting_quorum_bytes =
         BytesOf(job, {m_pending[h] : h \in m_awaiting_quorum})
    /\ m_awaiting_quorum_bytes <= MaxAwaitingBytes

(* No wake-up is lost: a parked job whose quorum is complete is about to be *)
(* woken, by the message thread or by the thread that parked it (the TOCTOU *)
(* recheck of WorkerLoop), however a message, the RPC and the parking        *)
(* interleave.  The one job left to its deadline is one that was parked,    *)
(* its recheck done, when submitmatmulattestations completed its quorum:    *)
(* that RPC does not call NotifyQuorumReady.                                *)
NoLostQuorum ==
    \A h \in (m_awaiting_quorum \cap quorum) \ missed :
        h \in notifying \/ Rechecking(h)

(* Only header-only speculation is discarded without a callback.  A body's  *)
(* caller holds delivery markers and always gets completion or              *)
(* retryable_failure (ProtectsBodyReplay in Cancel, CancelIf, Handoff).     *)
BodyNeverDropped ==
    [][\A p \in Live : \A r \in Owners(p) :
          Owed(r) /\ req'[r] = "dropped" => ~job[p].body_joined]_req

(* While the node runs, a raised latch costs a job that holds a body its     *)
(* verdict in one case only: the body joined a header's replay that had     *)
(* already been given the latch.  A body present when the thread takes the  *)
(* job up survives whatever was or is raised against the header, and is     *)
(* given back only when the device fails (ProtectsBodyReplay, read before   *)
(* the replay and again after it).                                          *)
LatchSparesBody ==
    [][\A w \in Worker : \A p \in Request :
          /\ ~Stopped
          /\ worker[w].pending = p
          /\ worker[w].pc \in {"start", "replay", "complete"}
          /\ job[p].body_joined
          /\ Owed(p) /\ req'[p] = "retryable"
          => \/ worker[w].failure = "device"
             \/ /\ worker[w].failure = "cancelled"
                /\ ~worker[w].protect_body_replay]_req

(* A coupled replay that was given its latch before a body joined, with the *)
(* latch raised since.                                                      *)
CutCoupled(w) ==
    LET p == worker[w].pending
    IN  /\ worker[w].pc \in {"replay", "complete"}
        /\ Coupled(worker[w].hash)
        /\ job[p].cancelled /\ job[p].body_joined
        /\ ~worker[w].protect_body_replay

(* No caller is told, and no memo keeps, a verdict other than the block's   *)
(* own: a cancelled or failed replay is not a verdict.  A positive one is   *)
(* always right.  A negative one can be wrong in one case, which the comment *)
(* on suppress_verdict rules out and the code does not: a coupled replay cut *)
(* by the scheduler after a body joined it returns false with nothing to    *)
(* tell it from a verdict.                                                  *)
VerdictSound ==
    [][/\ \A h \in Hash :
            /\ memo'[h] = "valid" => h \in Valid
            /\ memo'[h] = "invalid" /\ memo[h] # "invalid" /\ h \in Valid =>
                 \E w \in Worker : worker[w].hash = h /\ CutCoupled(w)
       /\ \A p \in Live : \A r \in Owners(p) : Owed(r) =>
            /\ req'[r] = "accepted" => job[p].hash \in Valid
            /\ req'[r] = "rejected" /\ job[p].hash \in Valid =>
                 \E w \in Worker : worker[w].pending = p /\ CutCoupled(w)]_<<req, memo>>

(* A paid attempt changes hands at most once: HandoffAuthenticatedTip takes *)
(* a lease only from the job that paid for it, and leaves it one owner.     *)
PaidAttemptHandedOffOnce ==
    [][\A r, s \in Request :
          /\ r # s
          /\ job[r].rc_pending_lease # None
          /\ job'[s].rc_pending_lease = job[r].rc_pending_lease
          /\ job[s].rc_pending_lease # job[r].rc_pending_lease
          => /\ job[r].rc_pending_lease = r
             /\ job'[r].rc_pending_lease = None]_job

(* Stop answers every caller of a node that replays: what runs is finished  *)
(* or given back by its thread, what was queued is given back after the     *)
(* joins.  It is not so on a trusted mirror: a thread between its first     *)
(* look at the quorum and its recheck puts its job back into the queue Stop *)
(* has emptied, and no thread is left to serve it.                          *)
StoppedReplayerAnswersAll ==
    m_stopped = "done" /\ ~mirror => \A r \in Request : ~Owed(r)

(* Every job handed in is answered, or the worker is stopped: no caller is  *)
(* owed its answer for ever.                                                *)
RequestsAnswered ==
    \A r \in Request : []<>(~Owed(r) \/ Stopped)
=============================================================================
