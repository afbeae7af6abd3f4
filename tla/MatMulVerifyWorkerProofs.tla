---------------------- MODULE MatMulVerifyWorkerProofs ----------------------
(***************************************************************************)
(* What follows from the invariant of MatMulVerifyWorker: where jobs are,  *)
(* what callers are told, who holds a paid attempt, how many bytes are     *)
(* parked, and what Stop leaves.                                           *)
(***************************************************************************)
EXTENDS MatMulVerifyWorkerInvariant, FiniteSetTheorems

USE WorkerAssumption DEF Request, config

-----------------------------------------------------------------------------
(* State properties.                                                       *)

(* Who holds a registered job: the busy thread of its hash. *)
LEMMA HolderFacts ==
    ASSUME Inv, NEW h \in Hash, m_pending[h] # None
    PROVE  /\ \A w \in HeldBy(m_pending[h]) :
                worker[w].pc \in Busy /\ worker[w].hash = h
           /\ \A w \in Worker : worker[w].pc \in Busy /\ worker[w].hash = h =>
                w \in HeldBy(m_pending[h])
  <1> DEFINE p == m_pending[h]
  <1>1. job[p].hash = h
    BY Zenon DEF Inv, PendingOK
  <1>2. ASSUME NEW w \in HeldBy(p) PROVE worker[w].pc \in Busy /\ worker[w].hash = h
    <2>1. w \in Worker /\ worker[w].pending = p /\ worker[w].pc # "recheck"
      BY <1>2, Zenon DEF HeldBy
    <2>2. worker[w].pc \in Busy
      BY <2>1, Zenon DEF Inv, LocalOK
    <2>3. job[p].hash = worker[w].hash
      BY <2>1, <2>2, HeldJob, Zenon
    <2> QED BY <1>1, <2>2, <2>3, Zenon
  <1>3. ASSUME NEW w \in Worker, worker[w].pc \in Busy, worker[w].hash = h
        PROVE  w \in HeldBy(p)
    <2>1. worker[w].pending = p
      BY <1>3, HeldJob, Zenon
    <2> QED BY <1>3, <2>1, BusySteps, Zenon DEF HeldBy
  <1> QED BY <1>2, <1>3, Zenon

(* The invariant puts every registered job in exactly one place. *)
LEMMA InvPlacedOnce ==
    ASSUME Inv PROVE PlacedOnce
  <1> SUFFICES ASSUME NEW h \in Hash
               PROVE  LET p == m_pending[h]
                          places == (IF p \in m_queue THEN 1 ELSE 0)
                                    + (IF h \in m_awaiting_quorum THEN 1 ELSE 0)
                                    + Cardinality(HeldBy(p))
                      IN  IF p = None
                          THEN h \notin m_awaiting_quorum
                          ELSE job[p].hash = h /\ places = 1
    BY Zenon DEF PlacedOnce
  <1> DEFINE p == m_pending[h]
  <1>1. CASE p = None
    BY <1>1, Zenon DEF Inv, ParkedOK
  <1>2. CASE p # None
    <2>1. job[p].hash = h
      BY <1>2, Zenon DEF Inv, PendingOK
    <2>2. ASSUME ~job[p].running PROVE Cardinality(HeldBy(p)) = 0
      <3>1. \A w \in Worker : ~(worker[w].pc \in Busy /\ worker[w].hash = h)
        BY <2>2, Zenon DEF Inv, HeldOK
      <3>2. HeldBy(p) \subseteq Worker
        BY Zenon DEF HeldBy
      <3>3. HeldBy(p) = {}
        BY <1>2, <3>1, <3>2, HolderFacts, Zenon
      <3> QED BY <3>3, FS_EmptySet, Zenon
    <2>3. CASE p \in m_queue
      <3>1. ~job[p].running /\ h \notin m_awaiting_quorum
        BY <2>3, Zenon DEF Inv, QueueOK, ParkedOK
      <3> QED BY <1>2, <2>1, <2>2, <2>3, <3>1
    <2>4. CASE h \in m_awaiting_quorum
      <3>1. ~job[p].running /\ p \notin m_queue
        BY <2>4, Zenon DEF Inv, ParkedOK
      <3> QED BY <1>2, <2>1, <2>2, <2>4, <3>1
    <2>5. CASE \E w \in Worker : worker[w].pc \in Busy /\ worker[w].hash = h
      <3>1. PICK w \in Worker : worker[w].pc \in Busy /\ worker[w].hash = h
        BY <2>5, Zenon
      <3>2. p \notin m_queue /\ h \notin m_awaiting_quorum
        BY <3>1, HeldJob, Zenon
      <3>3. HeldBy(p) \subseteq Worker
        BY Zenon DEF HeldBy
      <3>4. \A v \in HeldBy(p) : v = w
        BY <1>2, <3>1, <3>3, HolderFacts, Zenon DEF Inv, HeldOnce
      <3>5. w \in HeldBy(p)
        BY <1>2, <3>1, HolderFacts, Zenon
      <3>6. HeldBy(p) = {w}
        BY <3>4, <3>5, Zenon
      <3>7. Cardinality(HeldBy(p)) = 1
        BY <3>6, FS_Singleton, Zenon
      <3> QED BY <1>2, <2>1, <3>2, <3>7
    <2> QED BY <1>2, <2>3, <2>4, <2>5, Zenon DEF Inv, Placed
  <1> QED BY <1>1, <1>2, Zenon

(* A registered job is queued, parked or run by one thread, and in no two  *)
(* of these places, whatever Enqueue, NotifyQuorumReady, Cancel, the       *)
(* parking and Stop do to each other.                                      *)
THEOREM JobInOnePlace == Spec => []PlacedOnce
  <1>1. Inv => PlacedOnce
    BY InvPlacedOnce, Zenon
  <1> QED BY <1>1, InvariantHolds, PTL

(* No quorum wake-up is lost between a thread's first look at the quorum   *)
(* and the parking of its job: a parked job whose quorum is complete is    *)
(* about to be woken, by the message thread or by the thread's recheck,    *)
(* unless the RPC completed its quorum after the recheck.                  *)
THEOREM NoWakeupLost == Spec => []NoLostQuorum
  <1>1. Inv => NoLostQuorum
    BY Zenon DEF Inv, QuorumOK
  <1> QED BY <1>1, InvariantHolds, PTL

-----------------------------------------------------------------------------
(* Action properties.                                                      *)

(* A request hangs on one live job. *)
LEMMA OneOwner ==
    ASSUME Inv, NEW p \in Live, NEW q \in Live, NEW r, r \in Owners(p), r \in Owners(q)
    PROVE  p = q
  <1>1. /\ p \in Request /\ q \in Request
        /\ job[p].hash # None /\ job[q].hash # None
    BY Zenon DEF Live, Inv, OwnersOK
  <1> QED BY <1>1 DEF Owners, Inv, OwnersOK

(* What Answer tells a request that is owed. *)
LEMMA AnswerFacts ==
    ASSUME NEW ps, NEW answer, NEW r \in Request, req[r] = "owed"
    PROVE  \/ Answer(ps, answer)[r] = "owed"
           \/ Answer(ps, answer)[r] = answer /\ \E p \in ps : r \in Owners(p)
  BY Zenon DEF Answer

(* What a step can tell a caller who is owed an answer. *)
Told(r) ==
    \/ req'[r] \in {"owed", "retryable"}
    \/ req'[r] = "dropped" /\ \E p \in Live : r \in Owners(p) /\ ~job[p].body_joined
    \/ \E w \in Worker : Complete(w) /\ r \in Owners(worker[w].pending)

(* A live job that is registered. *)
LEMMA RegisteredLive ==
    ASSUME Inv, NEW p \in Registered
    PROVE  p \in Live
  <1>1. PICK h \in Hash : p = m_pending[h] /\ p # None
    BY Zenon DEF Registered
  <1>2. p \in Request /\ job[p].hash = h /\ h # None
    BY <1>1, Zenon DEF Inv, Types, PendingOK
  <1> QED BY <1>2, NoJobFacts, Zenon DEF Live

(* The callers' steps drop header-only jobs at most. *)
LEMMA CallersTell ==
    ASSUME Inv, NEW r \in Request, req[r] = "owed",
           Submit \/ \E hs \in SUBSET Hash : CancelIf(hs)
    PROVE  Told(r)
  <1>1. req \in [Request -> Answers]
    BY Zenon DEF Inv, Types
  <1>2. ASSUME NEW s, req' = [req EXCEPT ![s] = "owed"] PROVE Told(r)
    BY <1>1, <1>2, Zenon DEF Told
  <1>3. ASSUME NEW s, NEW h, NEW block, NEW bytes,
               HandoffAuthenticatedTip(s, h, block, bytes)
        PROVE  Told(r)
    <2> DEFINE gone(p) == {p} \ {q \in Request : job[q].running}
    <2>1. PICK source \in HandoffSources(h) :
            req' = [Answer(gone(source), "dropped") EXCEPT ![s] = "owed"]
      BY <1>3, Zenon DEF HandoffAuthenticatedTip
    <2> DEFINE a == Answer(gone(source), "dropped")
    <2>2. req'[r] = "owed" \/ req'[r] = a[r]
      BY <2>1, Zenon DEF Answer
    <2>3. a[r] = "owed" \/ (a[r] = "dropped" /\ r \in Owners(source))
      BY AnswerFacts, Zenon
    <2>4. source \in Live /\ ~job[source].body_joined
      BY RegisteredLive, Zenon DEF HandoffSources, ProtectsBodyReplay
    <2> HIDE DEF a
    <2> QED BY <2>2, <2>3, <2>4, Zenon DEF Told
  <1>4. ASSUME NEW hs, CancelIf(hs) PROVE Told(r)
    <2> DEFINE hit == {p \in Registered : job[p].hash \in hs /\ ~ProtectsBodyReplay(p)}
               gone == {p \in hit : ~job[p].running}
    <2>1. req' = Answer(gone, "dropped")
      BY <1>4, Zenon DEF CancelIf
    <2>2. \A p \in gone : p \in Live /\ ~job[p].body_joined
      BY RegisteredLive, Zenon DEF ProtectsBodyReplay
    <2>3. req'[r] = "owed" \/ (req'[r] = "dropped" /\ \E p \in gone : r \in Owners(p))
      BY <2>1, AnswerFacts
    <2> HIDE DEF gone
    <2> QED BY <2>2, <2>3, Zenon DEF Told
  <1>5. ASSUME NEW s, NEW h, NEW block, NEW priority, NEW bytes, NEW cancelled,
               Enqueue(s, h, block, priority, bytes, cancelled)
        PROVE  Told(r)
    BY <1>2, <1>5, Zenon DEF Enqueue
  <1>6. ASSUME NEW s, NEW h, NEW priority, NEW bytes, Join(s, h, priority, bytes)
        PROVE  Told(r)
    BY <1>2, <1>6, Zenon DEF Join
  <1> QED BY <1>3, <1>4, <1>5, <1>6, Zenon DEF Submit

(* The other steps answer with retryable_failure, or complete the job. *)
LEMMA StepTells ==
    ASSUME Inv, NEW r \in Request, req[r] = "owed", Next
    PROVE  Told(r)
  <1>1. ASSUME UNCHANGED req PROVE Told(r)
    BY <1>1, Zenon DEF Told
  <1>2. ASSUME NEW ps, req' = Answer(ps, "retryable") PROVE Told(r)
    <2>1. req'[r] = "owed" \/ req'[r] = "retryable"
      BY <1>2, AnswerFacts, Zenon
    <2> QED BY <2>1, Zenon DEF Told
  <1>3. ASSUME NEW w \in Worker, Complete(w) PROVE Told(r)
    <2>1. PICK answer : req' = Answer({worker[w].pending}, answer)
      BY <1>3, Zenon DEF Complete
    <2>2. req'[r] = "owed" \/ r \in Owners(worker[w].pending)
      BY <2>1, AnswerFacts
    <2> QED BY <1>3, <2>2, Zenon DEF Told
  <1>4. ASSUME NEW w \in Worker, FinishRetryable(w) PROVE Told(r)
    BY <1>2, <1>4, Zenon DEF FinishRetryable
  <1>5. ASSUME NEW w \in Worker, WorkerStep(w) PROVE Told(r)
    <2>1. ASSUME NEW late, Scan(w, late) PROVE Told(r)
      BY <1>1, <2>1, Zenon DEF Scan, callers
    <2>2. CASE FinishExpired(w)
      BY <1>2, <2>2, Zenon DEF FinishExpired
    <2>3. ASSUME NEW tip, Take(w, tip) PROVE Told(r)
      BY <1>1, <2>3, Zenon DEF Take
    <2>4. CASE Start(w)
      BY <1>1, <1>4, <2>4, Zenon DEF Start, callers
    <2>5. ASSUME NEW granted, Acquire(w, granted) PROVE Told(r)
      BY <1>1, <1>4, <2>5, Zenon DEF Acquire, callers
    <2>6. ASSUME NEW missing, Replay(w, missing) PROVE Told(r)
      BY <1>1, <2>6, Zenon DEF Replay, callers
    <2>7. ASSUME NEW above, Trusted(w, above) PROVE Told(r)
      BY <1>1, <1>4, <2>7, Zenon DEF Trusted, callers
    <2>8. CASE Park(w)
      BY <1>1, <1>4, <2>8, Zenon DEF Park
    <2>9. CASE Recheck(w)
      BY <1>1, <2>9, Zenon DEF Recheck, callers
    <2> QED BY <1>3, <1>5, <2>1, <2>2, <2>3, <2>4, <2>5, <2>6, <2>7, <2>8, <2>9, ZenonT(30)
            DEF WorkerStep
  <1>6. ASSUME NEW p, LifecycleCancels(p) PROVE Told(r)
    BY <1>1, <1>6, Zenon DEF LifecycleCancels
  <1>7. ASSUME NEW w, SchedulerPreempts(w) PROVE Told(r)
    BY <1>1, <1>7, Zenon DEF SchedulerPreempts
  <1>8. ASSUME NEW h, AttestationStep(h) PROVE Told(r)
    BY <1>1, <1>8, Zenon DEF AttestationStep, MmAttest, WakeParked,
       SubmitMatMulAttestations, callers
  <1>9. CASE Stop
    BY <1>1, <1>9, Zenon DEF Stop
  <1>10. CASE StopJoined
    BY <1>2, <1>10, Zenon DEF StopJoined
  <1> QED BY <1>5, <1>6, <1>7, <1>8, <1>9, <1>10, CallersTell, ZenonT(30) DEF Next

(* Only header-only speculation is discarded without a callback: a caller  *)
(* whose job has a body is told completion or retryable_failure.           *)
THEOREM BodiesNeverDropped == Spec => BodyNeverDropped
  <1>1. ASSUME Inv, Next,
               NEW p \in Live, NEW r \in Owners(p), Owed(r), req'[r] = "dropped"
        PROVE  ~job[p].body_joined
    <2>1. r \in Request
      BY <1>1, Zenon DEF Owners, Live, Inv, Types, Job
    <2>2. Told(r)
      BY <1>1, <2>1, StepTells, Zenon DEF Owed
    <2>3. CASE \E q \in Live : r \in Owners(q) /\ ~job[q].body_joined
      BY <1>1, <2>3, OneOwner, Zenon
    <2>4. CASE \E w \in Worker : Complete(w)
      <3>1. PICK w \in Worker : Complete(w)
        BY <2>4, Zenon
      <3>2. PICK answer \in {"retryable", "accepted", "rejected"} :
              req' = Answer({worker[w].pending}, answer)
        BY <3>1, Zenon DEF Complete
      <3>3. req'[r] = "owed" \/ req'[r] = answer
        BY <1>1, <2>1, <3>2, AnswerFacts DEF Owed
      <3> QED BY <1>1, <3>2, <3>3, Zenon
    <2> QED BY <1>1, <2>2, <2>3, <2>4, Zenon DEF Told
  <1>2. Inv /\ [Next]_vars =>
          [\A p \in Live : \A r \in Owners(p) :
              Owed(r) /\ req'[r] = "dropped" => ~job[p].body_joined]_req
    BY <1>1, Zenon DEF vars, callers
  <1> QED BY <1>2, InvariantHolds, PTL DEF Spec, BodyNeverDropped
-----------------------------------------------------------------------------
(* Paid attempts.                                                          *)

(* A lease is a number already given out, is held by one job only, and by  *)
(* the one that paid for it as long as it may be handed on.                *)
LeasesOK ==
    \A p \in Request : job[p].rc_pending_lease # None =>
        /\ job[p].rc_pending_lease \in Request
        /\ job[p].rc_pending_lease < m_next_sequence
        /\ job[p].handoff => job[p].rc_pending_lease = p
        /\ \A q \in Request : job[q].rc_pending_lease = job[p].rc_pending_lease => q = p

(* What PaidAttemptHandedOffOnce says of a step. *)
HandedOnce ==
    \A r, s \in Request :
        /\ r # s
        /\ job[r].rc_pending_lease # None
        /\ job'[s].rc_pending_lease = job[r].rc_pending_lease
        /\ job[s].rc_pending_lease # job[r].rc_pending_lease
        => /\ job[r].rc_pending_lease = r
           /\ job'[r].rc_pending_lease = None

(* A job that is lessened gains no lease. *)
LEMMA LessenedLease ==
    ASSUME NEW S, JobsLessened(S), NEW q \in S
    PROVE  /\ job'[q].rc_pending_lease \in {job[q].rc_pending_lease, None}
           /\ job'[q].handoff => job[q].handoff
  <1>1. NoJob.rc_pending_lease = None /\ NoJob.handoff = FALSE
    BY Zenon DEF NoJob
  <1> QED BY <1>1, Zenon DEF JobsLessened, Lessened, Released

(* Every step keeps the leases, and hands one on at most as allowed. *)
LEMMA LeasesStep ==
    ASSUME Inv, ParkedUnpaid, LeasesOK, Next
    PROVE  LeasesOK' /\ HandedOnce
  <1>1. m_next_sequence \in Nat
    BY Zenon DEF Inv, Types
  <1>2. CASE ~Submit
    <2>1. \A q \in Request :
            /\ job'[q].rc_pending_lease \in {job[q].rc_pending_lease, None}
            /\ job'[q].handoff => job[q].handoff
      BY <1>2, StepLessens, LessenedLease, Zenon
    <2>2. m_next_sequence' = m_next_sequence
      BY <1>2, StepSettles, Zenon DEF Settled
    <2> QED BY <2>1, <2>2, Zenon DEF LeasesOK, HandedOnce
  <1>3. ASSUME NEW r \in Request, NEW h \in Hash, NEW block \in BOOLEAN,
               NEW priority, NEW bytes, NEW cancelled,
               Enqueue(r, h, block, priority, bytes, cancelled)
        PROVE  LeasesOK' /\ HandedOnce
    <2>1. /\ r = m_next_sequence /\ m_next_sequence' = r + 1
          /\ JobsLessened(Request \ {r})
          /\ job'[r].rc_pending_lease \in {None, r}
      BY <1>3, EnqueueJobs, ZenonT(30)
    <2>2. \A q \in Request \ {r} :
            /\ job'[q].rc_pending_lease \in {job[q].rc_pending_lease, None}
            /\ job'[q].handoff => job[q].handoff
      BY <2>1, LessenedLease, Zenon
    <2>3. \A q \in Request : job[q].rc_pending_lease # r
      BY <2>1 DEF LeasesOK
    <2>4. LeasesOK'
      BY <1>1, <2>1, <2>2, <2>3 DEF LeasesOK
    <2>5. HandedOnce
      BY <2>1, <2>2, <2>3, Zenon DEF HandedOnce
    <2> QED BY <2>4, <2>5, Zenon
  <1>4. ASSUME NEW r \in Request, NEW h \in Hash, NEW priority, NEW bytes \in Nat,
               Join(r, h, priority, bytes)
        PROVE  LeasesOK' /\ HandedOnce
    <2>1. /\ r = m_next_sequence /\ m_next_sequence' = r + 1
          /\ \A q \in Request :
                /\ job'[q].rc_pending_lease = job[q].rc_pending_lease
                /\ job'[q].handoff = job[q].handoff
      BY <1>4, JoinJobs, Zenon
    <2> QED BY <1>1, <2>1 DEF LeasesOK, HandedOnce
  <1>5. ASSUME NEW r \in Request, NEW h \in Hash, NEW block, NEW bytes,
               HandoffAuthenticatedTip(r, h, block, bytes)
        PROVE  LeasesOK' /\ HandedOnce
    <2>1. /\ r = m_next_sequence /\ m_next_sequence' = r + 1
          /\ JobsLessened(Request \ {r}) /\ job'[r].handoff = FALSE
      BY <1>5, HandoffJobs, Zenon
    <2>2. PICK source \in Request \ {r} :
            /\ job[source].handoff /\ job[source].rc_pending_lease # None
            /\ job'[source].rc_pending_lease = None
            /\ job'[r].rc_pending_lease = job[source].rc_pending_lease
      BY <1>5, HandoffJobs, Zenon
    <2>3. \A q \in Request \ {r} :
            /\ job'[q].rc_pending_lease \in {job[q].rc_pending_lease, None}
            /\ job'[q].handoff => job[q].handoff
      BY <2>1, LessenedLease, Zenon
    <2>4. /\ job[source].rc_pending_lease = source /\ source < m_next_sequence
          /\ \A q \in Request : job[q].rc_pending_lease = source => q = source
      BY <2>2, Zenon DEF LeasesOK
    <2>5. LeasesOK'
      <3> SUFFICES ASSUME NEW p \in Request, job'[p].rc_pending_lease # None
                   PROVE  /\ job'[p].rc_pending_lease \in Request
                          /\ job'[p].rc_pending_lease < m_next_sequence'
                          /\ job'[p].handoff => job'[p].rc_pending_lease = p
                          /\ \A q \in Request :
                               job'[q].rc_pending_lease = job'[p].rc_pending_lease
                                 => q = p
        BY Zenon DEF LeasesOK
      <3>1. CASE p = r
        BY <1>1, <2>1, <2>2, <2>3, <2>4, <3>1, SMTT(30)
      <3>2. CASE p # r
        <4>1. p # source /\ job'[p].rc_pending_lease = job[p].rc_pending_lease
          BY <2>2, <2>3, <3>2, Zenon
        <4>2. /\ job[p].rc_pending_lease \in Request
              /\ job[p].rc_pending_lease < m_next_sequence
              /\ job[p].handoff => job[p].rc_pending_lease = p
              /\ \A q \in Request : job[q].rc_pending_lease = job[p].rc_pending_lease
                                      => q = p
          BY <4>1, Zenon DEF LeasesOK
        <4>3. job[p].rc_pending_lease # source
          BY <2>4, <4>1, Zenon
        <4>4. ASSUME NEW q \in Request,
                     job'[q].rc_pending_lease = job'[p].rc_pending_lease
              PROVE  q = p
          <5>1. q # r
            BY <2>2, <2>4, <4>1, <4>3, <4>4, ZenonT(30)
          <5> QED BY <2>3, <4>1, <4>2, <4>4, <5>1, ZenonT(30)
        <4> QED BY <1>1, <2>1, <2>3, <3>2, <4>1, <4>2, <4>4, SMTT(30)
      <3> QED BY <3>1, <3>2, Zenon
    <2>6. HandedOnce
      BY <2>2, <2>3, <2>4, Zenon DEF HandedOnce
    <2> QED BY <2>5, <2>6, Zenon
  <1>6. CASE Submit
    <2>1. Sizes \subseteq Nat /\ TRUE \in BOOLEAN /\ FALSE \in BOOLEAN
      BY Zenon
    <2> QED BY <1>3, <1>4, <1>5, <1>6, <2>1, Zenon DEF Submit
  <1> QED BY <1>2, <1>6, Zenon

(* A lease belongs to one job, and to its payer until it is handed on. *)
THEOREM LeasesHeldOnce == Spec => []LeasesOK
  <1>1. Init => LeasesOK
    BY DEF Init, LeasesOK, NoJob
  <1>2. LeasesOK /\ UNCHANGED vars => LeasesOK'
    BY Zenon DEF LeasesOK, vars, callers
  <1>3. Inv /\ ParkedUnpaid /\ LeasesOK /\ Next => LeasesOK'
    BY LeasesStep, Zenon
  <1> QED BY <1>1, <1>2, <1>3, InvariantHolds, PTL DEF Spec

(* HandoffAuthenticatedTip takes a slot from the job that paid for it and  *)
(* leaves it none: a paid attempt is never handed on twice nor shared.     *)
THEOREM AttemptsHandedOffOnce == Spec => PaidAttemptHandedOffOnce
  <1>1. Inv /\ ParkedUnpaid /\ LeasesOK /\ [Next]_vars => [HandedOnce]_job
    <2>1. Inv /\ ParkedUnpaid /\ LeasesOK /\ Next => HandedOnce
      BY LeasesStep, Zenon
    <2>2. UNCHANGED vars => UNCHANGED job
      BY Zenon DEF vars, callers
    <2> QED BY <2>1, <2>2, Zenon
  <1> QED BY <1>1, InvariantHolds, LeasesHeldOnce, PTL
          DEF Spec, PaidAttemptHandedOffOnce, HandedOnce

-----------------------------------------------------------------------------
(* The bytes of the parked jobs.                                           *)

(* Jobs whose bodies have sizes. *)
Sized(J) == \A p \in Request : J[p].retained_body_bytes \in Nat

(* There are finitely many bytes. *)
LEMMA BytesFinite ==
    ASSUME NEW J, Sized(J), NEW S \in SUBSET Request
    PROVE  IsFiniteSet(Bytes(J, S)) /\ BytesOf(J, S) \in Nat
  <1> DEFINE f == [p \in S |-> {p} \X (1..J[p].retained_body_bytes)]
             T == {{p} \X (1..J[p].retained_body_bytes) : p \in S}
  <1>0. MaxRequests \in Int /\ 1 \in Int
    OBVIOUS
  <1>1. IsFiniteSet(Request)
    BY <1>0, FS_Interval, Zenon DEF Request
  <1>2. IsFiniteSet(S)
    BY <1>1, FS_Subset, Zenon
  <1>3. f \in Surjection(S, T)
    BY Zenon DEF Surjection
  <1>4. IsFiniteSet(T)
    BY <1>2, <1>3, FS_Surjection, Zenon
  <1>5. ASSUME NEW X \in T PROVE IsFiniteSet(X)
    <2>1. PICK p \in S : X = {p} \X (1..J[p].retained_body_bytes)
      BY Zenon
    <2>2. p \in Request
      BY Zenon
    <2>3. J[p].retained_body_bytes \in Int
      BY <2>2 DEF Sized
    <2>4. IsFiniteSet(1..J[p].retained_body_bytes) /\ IsFiniteSet({p})
      BY <1>0, <2>3, FS_Interval, FS_Singleton, Zenon
    <2> QED BY <2>1, <2>4, FS_Product, Zenon
  <1>6. IsFiniteSet(Bytes(J, S))
    BY <1>4, <1>5, FS_UNION, Zenon DEF Bytes
  <1> QED BY <1>6, FS_CardinalityType, Zenon DEF BytesOf

(* The bytes of two sets of jobs add up. *)
LEMMA BytesAdd ==
    ASSUME NEW J, Sized(J), NEW S \in SUBSET Request, NEW T \in SUBSET Request,
           S \cap T = {}
    PROVE  /\ BytesOf(J, S \cup T) = BytesOf(J, S) + BytesOf(J, T)
           /\ BytesOf(J, S) \in Nat /\ BytesOf(J, T) \in Nat
  <1>1. /\ IsFiniteSet(Bytes(J, S)) /\ IsFiniteSet(Bytes(J, T))
        /\ BytesOf(J, S) \in Nat /\ BytesOf(J, T) \in Nat
    BY BytesFinite, Zenon
  <1>2. Bytes(J, S \cup T) = Bytes(J, S) \cup Bytes(J, T)
    BY Zenon DEF Bytes
  <1>3. Bytes(J, S) \cap Bytes(J, T) = {}
    BY DEF Bytes
  <1> DEFINE A == Bytes(J, S)
             B == Bytes(J, T)
  <1> HIDE DEF A, B
  <1>4. IsFiniteSet(A) /\ IsFiniteSet(B) /\ A \cap B = {}
    BY <1>1, <1>3, Zenon DEF A, B
  <1>5. Cardinality(A \cup B) = Cardinality(A) + Cardinality(B) - Cardinality(A \cap B)
    BY <1>4, FS_Union, Zenon
  <1>6. Cardinality(A \cap B) = 0
    BY <1>4, FS_EmptySet, Zenon
  <1>7. /\ BytesOf(J, S \cup T) = Cardinality(A \cup B)
        /\ BytesOf(J, S) = Cardinality(A) /\ BytesOf(J, T) = Cardinality(B)
    BY <1>2, Zenon DEF BytesOf, A, B
  <1> QED BY <1>1, <1>5, <1>6, <1>7

(* One job has the bytes of its body. *)
LEMMA BytesOne ==
    ASSUME NEW J, Sized(J), NEW p \in Request
    PROVE  BytesOf(J, {p}) = J[p].retained_body_bytes
  <1> DEFINE n == J[p].retained_body_bytes
  <1>1. n \in Nat
    BY Zenon DEF Sized
  <1>2. Bytes(J, {p}) = {p} \X (1..n)
    BY Zenon DEF Bytes
  <1> HIDE DEF n
  <1>3. n \in Int /\ 1 \in Int
    BY <1>1
  <1>4. IsFiniteSet(1..n) /\ Cardinality(1..n) = IF 1 > n THEN 0 ELSE n - 1 + 1
    BY <1>3, FS_Interval, Zenon
  <1>5. IsFiniteSet({p}) /\ Cardinality({p}) = 1
    BY FS_Singleton, Zenon
  <1>6. Cardinality({p} \X (1..n)) = Cardinality({p}) * Cardinality(1..n)
    BY <1>4, <1>5, FS_Product, Zenon
  <1>7. Cardinality({p} \X (1..n)) = n
    BY <1>1, <1>4, <1>5, <1>6
  <1> QED BY <1>2, <1>7, Zenon DEF BytesOf, n

(* The bytes depend on the sizes only. *)
LEMMA BytesSame ==
    ASSUME NEW J, NEW K, NEW S,
           \A p \in S : K[p].retained_body_bytes = J[p].retained_body_bytes
    PROVE  BytesOf(K, S) = BytesOf(J, S)
  <1>1. Bytes(K, S) = Bytes(J, S)
    BY Zenon DEF Bytes
  <1> QED BY <1>1, Zenon DEF BytesOf

(* No jobs, no bytes. *)
LEMMA BytesNone ==
    ASSUME NEW J
    PROVE  BytesOf(J, {}) = 0
  <1>1. Bytes(J, {}) = {}
    BY Zenon DEF Bytes
  <1> QED BY <1>1, FS_EmptySet, Zenon DEF BytesOf

(* The jobs registered under the hashes in S. *)
JobsOf(S) == {m_pending[h] : h \in S}

(* Different hashes have different jobs. *)
LEMMA JobsOfFacts ==
    ASSUME Inv, NEW S \in SUBSET m_awaiting_quorum
    PROVE  /\ JobsOf(S) \subseteq Request /\ Sized(job)
           /\ \A T \in SUBSET m_awaiting_quorum :
                S \cap T = {} => JobsOf(S) \cap JobsOf(T) = {}
  <1>1. \A h \in m_awaiting_quorum :
          /\ h \in Hash /\ m_pending[h] \in Request /\ job[m_pending[h]].hash = h
    BY Zenon DEF Inv, Types, ParkedOK, PendingOK
  <1>2. Sized(job)
    BY Zenon DEF Inv, Types, Job, Sized
  <1>3. JobsOf(S) \subseteq Request
    BY <1>1, Zenon DEF JobsOf
  <1>4. ASSUME NEW T \in SUBSET m_awaiting_quorum, S \cap T = {}
        PROVE  JobsOf(S) \cap JobsOf(T) = {}
    BY <1>1, <1>4 DEF JobsOf
  <1> QED BY <1>2, <1>3, <1>4, Zenon

(* A step that unparks the jobs of S, and takes their bytes off the total. *)
LEMMA BytesLess ==
    ASSUME Inv, ParkedBytesExact, NEW S \in SUBSET m_awaiting_quorum,
           m_awaiting_quorum' = m_awaiting_quorum \ S,
           m_awaiting_quorum_bytes' = m_awaiting_quorum_bytes - BytesOf(job, JobsOf(S)),
           \A k \in m_awaiting_quorum \ S :
              /\ m_pending'[k] = m_pending[k]
              /\ job'[m_pending[k]].retained_body_bytes
                   = job[m_pending[k]].retained_body_bytes
    PROVE  ParkedBytesExact'
  <1> DEFINE A == m_awaiting_quorum
             R == A \ S
             JS == JobsOf(S)
             JR == JobsOf(R)
  <1>1. /\ JobsOf(A) = JS \cup JR /\ JS \cap JR = {}
        /\ JS \subseteq Request /\ JR \subseteq Request /\ Sized(job)
    <2>1. JobsOf(A) = JS \cup JR
      BY Zenon DEF JobsOf
    <2>2. JS \cap JR = {} /\ JS \subseteq Request /\ JR \subseteq Request /\ Sized(job)
      BY JobsOfFacts, Zenon
    <2> QED BY <2>1, <2>2, Zenon
  <1>2. JobsOf(A)' = JR
    BY ZenonT(30) DEF JobsOf
  <1>3. BytesOf(job', JR) = BytesOf(job, JR)
    <2>1. \A p \in JR : job'[p].retained_body_bytes = job[p].retained_body_bytes
      BY ZenonT(30) DEF JobsOf
    <2> HIDE DEF JR
    <2> QED BY <2>1, BytesSame, Zenon
  <1> HIDE DEF JS, JR
  <1>4. /\ BytesOf(job, JobsOf(A)) = BytesOf(job, JS) + BytesOf(job, JR)
        /\ BytesOf(job, JS) \in Nat /\ BytesOf(job, JR) \in Nat
    BY <1>1, BytesAdd, Zenon
  <1>5. /\ m_awaiting_quorum_bytes = BytesOf(job, JobsOf(A))
        /\ m_awaiting_quorum_bytes <= MaxAwaitingBytes
    BY Zenon DEF ParkedBytesExact, JobsOf
  <1>6. m_awaiting_quorum_bytes' = m_awaiting_quorum_bytes - BytesOf(job, JS)
    BY Zenon DEF JS
  <1>7. BytesOf(job, JobsOf(A))' = BytesOf(job', JR)
    BY <1>2, Zenon DEF BytesOf, Bytes
  <1>8. /\ m_awaiting_quorum_bytes' = BytesOf(job, JobsOf(A))'
        /\ m_awaiting_quorum_bytes' <= MaxAwaitingBytes
    BY <1>3, <1>4, <1>5, <1>6, <1>7
  <1> QED BY <1>8, Zenon DEF ParkedBytesExact, JobsOf

(* A step that leaves the parked jobs where they are. *)
LEMMA BytesKept ==
    ASSUME Inv, ParkedBytesExact,
           UNCHANGED <<m_awaiting_quorum, m_awaiting_quorum_bytes>>,
           \A k \in m_awaiting_quorum :
              /\ m_pending'[k] = m_pending[k]
              /\ job'[m_pending[k]].retained_body_bytes
                   = job[m_pending[k]].retained_body_bytes
    PROVE  ParkedBytesExact'
  <1>1. JobsOf({}) = {}
    BY Zenon DEF JobsOf
  <1>2. BytesOf(job, JobsOf({})) = 0
    BY <1>1, BytesNone, Zenon
  <1>3. BytesOf(job, JobsOf(m_awaiting_quorum)) \in Nat
    BY JobsOfFacts, BytesFinite, Zenon
  <1>4. m_awaiting_quorum_bytes \in Nat
    BY <1>3, Zenon DEF ParkedBytesExact, JobsOf
  <1>5. /\ {} \in SUBSET m_awaiting_quorum
        /\ m_awaiting_quorum' = m_awaiting_quorum \ {}
        /\ m_awaiting_quorum_bytes' = m_awaiting_quorum_bytes - BytesOf(job, JobsOf({}))
    BY <1>2, <1>4
  <1>6. \A k \in m_awaiting_quorum \ {} :
              /\ m_pending'[k] = m_pending[k]
              /\ job'[m_pending[k]].retained_body_bytes
                   = job[m_pending[k]].retained_body_bytes
    BY Zenon
  <1> QED BY <1>5, <1>6, BytesLess, Zenon

(* A parked job is not a destroyed one, so a lessened job that is parked   *)
(* keeps its bytes.                                                        *)
LEMMA ParkedKept ==
    ASSUME Inv, Inv', NEW S, JobsLessened(S), NEW k \in m_awaiting_quorum,
           k \in m_awaiting_quorum', m_pending'[k] \in {m_pending[k], None},
           m_pending[k] \in S
    PROVE  /\ m_pending'[k] = m_pending[k]
           /\ job'[m_pending[k]].retained_body_bytes
                = job[m_pending[k]].retained_body_bytes
  <1>1. k \in Hash /\ k # None /\ m_pending'[k] # None
    BY Zenon DEF Inv, Types, ParkedOK
  <1>2. m_pending'[k] = m_pending[k] /\ job'[m_pending'[k]].hash = k
    BY <1>1, Zenon DEF Inv, PendingOK
  <1>3. job'[m_pending[k]] # NoJob
    BY <1>1, <1>2, NoJobFacts, Zenon
  <1> QED BY <1>2, <1>3, Zenon DEF JobsLessened, Lessened, Released

(* The larger of two numbers. *)
LEMMA MaxBound ==
    ASSUME NEW a \in Nat, NEW b \in Nat
    PROVE  Max({a, b}) \in Nat /\ Max({a, b}) >= a
  <1>1. \E x \in {a, b} : \A y \in {a, b} : x >= y
    OBVIOUS
  <1>2. Max({a, b}) \in {a, b} /\ \A y \in {a, b} : Max({a, b}) >= y
    BY <1>1, Zenon DEF Max
  <1> QED BY <1>2, Zenon

(* The smaller of two numbers. *)
LEMMA MinOfTwo ==
    ASSUME NEW a \in Nat, NEW b \in Nat, a <= b
    PROVE  Min({a, b}) = a
  <1>1. \E x \in {a, b} : \A y \in {a, b} : x <= y
    OBVIOUS
  <1>2. Min({a, b}) \in {a, b} /\ \A y \in {a, b} : Min({a, b}) <= y
    BY <1>1, Zenon DEF Min
  <1> QED BY <1>2

(* The steps of the threads and of the attestations. *)
LEMMA StepBytes ==
    ASSUME Inv, Inv', ParkedBytesExact, Next, ~Submit
    PROVE  ParkedBytesExact'
  <1>1. /\ job \in [Request -> Job] /\ m_awaiting_quorum \subseteq Hash
        /\ m_pending \in [Hash -> Request \cup {None}]
    BY Zenon DEF Inv, Types
  <1>2. ASSUME NEW k \in m_awaiting_quorum
        PROVE  /\ k \in Hash /\ m_pending[k] \in Request
               /\ k \in m_awaiting_quorum' =>
                    /\ m_pending'[k] = m_pending[k]
                    /\ job'[m_pending[k]].retained_body_bytes
                         = job[m_pending[k]].retained_body_bytes
    <2>1. k \in Hash /\ m_pending[k] \in Request
      BY <1>1, Zenon DEF Inv, ParkedOK
    <2>2. m_pending'[k] \in {m_pending[k], None}
      BY <2>1, StepSettles, Zenon DEF Settled
    <2> QED BY <2>1, <2>2, StepLessens, ParkedKept, Zenon
  <1>3. ASSUME UNCHANGED <<m_awaiting_quorum, m_awaiting_quorum_bytes>>
        PROVE  ParkedBytesExact'
    BY <1>2, <1>3, BytesKept, Zenon
  <1>4. ASSUME NEW S \in SUBSET m_awaiting_quorum,
               m_awaiting_quorum' = m_awaiting_quorum \ S,
               m_awaiting_quorum_bytes' =
                 m_awaiting_quorum_bytes - BytesOf(job, JobsOf(S))
        PROVE  ParkedBytesExact'
    <2>1. \A k \in m_awaiting_quorum \ S :
             /\ m_pending'[k] = m_pending[k]
             /\ job'[m_pending[k]].retained_body_bytes
                  = job[m_pending[k]].retained_body_bytes
      BY <1>2, <1>4, Zenon
    <2> QED BY <1>4, <2>1, BytesLess, Zenon
  <1>5. ASSUME NEW h \in Hash, NotifyQuorumReady(h) PROVE ParkedBytesExact'
    <2>1. CASE h \in m_awaiting_quorum
      <3>1. m_pending[h] \in Request /\ Sized(job)
        BY <1>2, <2>1, JobsOfFacts, Zenon
      <3>2. JobsOf({h}) = {m_pending[h]}
        BY Zenon DEF JobsOf
      <3>3. BytesOf(job, JobsOf({h})) = job[m_pending[h]].retained_body_bytes
        BY <3>1, <3>2, BytesOne, Zenon
      <3>4. /\ m_awaiting_quorum' = m_awaiting_quorum \ {h}
            /\ m_awaiting_quorum_bytes' =
                 m_awaiting_quorum_bytes - job[m_pending[h]].retained_body_bytes
        BY <1>5, <2>1, Zenon DEF NotifyQuorumReady
      <3>5. {h} \in SUBSET m_awaiting_quorum
        BY <2>1, Zenon
      <3> QED BY <1>4, <3>3, <3>4, <3>5, ZenonT(30)
    <2>2. CASE h \notin m_awaiting_quorum
      BY <1>3, <1>5, <2>2, Zenon DEF NotifyQuorumReady
    <2> QED BY <2>1, <2>2, Zenon
  <1>6. ASSUME NEW w \in Worker, worker[w].pc \in Busy, FinishRetryable(w)
        PROVE  ParkedBytesExact'
    <2>1. worker[w].hash \notin m_awaiting_quorum
      BY <1>6, HeldJob, Zenon
    <2>2. /\ m_awaiting_quorum' = m_awaiting_quorum \ {worker[w].hash}
          /\ UNCHANGED m_awaiting_quorum_bytes
      BY <1>6, Zenon DEF FinishRetryable
    <2> QED BY <1>3, <2>1, <2>2, Zenon
  <1>7. ASSUME UNCHANGED pool PROVE ParkedBytesExact'
    BY <1>3, <1>7, Zenon DEF pool
  <1>8. ASSUME NEW w \in Worker, Park(w) PROVE ParkedBytesExact'
    <2> DEFINE p == worker[w].pending
               h == worker[w].hash
               A == m_awaiting_quorum
               n == job[p].retained_body_bytes
               room == MaxAwaitingBytes - Min({m_awaiting_quorum_bytes, MaxAwaitingBytes})
    <2>1. worker[w].pc \in Busy
      BY <1>8, Zenon DEF Park, Busy
    <2>2. CASE FinishRetryable(w)
      BY <1>6, <2>1, <2>2, Zenon
    <2>3. CASE /\ n <= room
               /\ m_awaiting_quorum' = A \cup {h}
               /\ m_awaiting_quorum_bytes' = m_awaiting_quorum_bytes + n
               /\ UNCHANGED m_pending
      <3>1. h \in Hash /\ p \in Request /\ m_pending[h] = p /\ h \notin A
            /\ job[p].hash = h
        BY <2>1, HeldJob, Zenon
      <3>2. /\ JobsOf(A) \subseteq Request /\ Sized(job)
        BY JobsOfFacts, Zenon
      <3>3. p \notin JobsOf(A)
        <4>1. \A k \in A : k \in Hash /\ m_pending[k] # None
          BY <1>1, Zenon DEF Inv, ParkedOK
        <4>2. \A k \in A : job[m_pending[k]].hash = k
          BY <4>1, Zenon DEF Inv, PendingOK
        <4> QED BY <3>1, <4>2 DEF JobsOf
      <3>4. /\ m_awaiting_quorum_bytes = BytesOf(job, JobsOf(A))
            /\ m_awaiting_quorum_bytes <= MaxAwaitingBytes
        BY Zenon DEF ParkedBytesExact, JobsOf
      <3>5. JobsOf(A)' = JobsOf(A) \cup {p}
        BY <2>3, <3>1, Zenon DEF JobsOf
      <3>6. \A q \in JobsOf(A) \cup {p} :
              job'[q].retained_body_bytes = job[q].retained_body_bytes
        <4>1. \A q \in JobsOf(A) : job'[q].retained_body_bytes = job[q].retained_body_bytes
          BY <1>2, <2>3 DEF JobsOf
        <4>2. /\ m_pending'[h] # None /\ h \in Hash /\ m_pending'[h] = p
          BY <2>3, <3>1, Zenon
        <4>3. job'[p].hash = h
          BY <4>2, Zenon DEF Inv, PendingOK
        <4>4. job'[p] # NoJob
          BY <3>1, <4>3, NoJobFacts, ZenonT(30)
        <4>5. job'[p].retained_body_bytes = job[p].retained_body_bytes
          BY <3>1, <4>4, StepLessens, ZenonT(30) DEF JobsLessened, Lessened, Released
        <4> QED BY <4>1, <4>5, ZenonT(30)
      <3> DEFINE J == JobsOf(A)
      <3> HIDE DEF J, p, n, room
      <3>7. BytesOf(job', J \cup {p}) = BytesOf(job, J \cup {p})
        BY <3>6, BytesSame, Zenon DEF J
      <3>8. /\ BytesOf(job, J \cup {p}) = BytesOf(job, J) + BytesOf(job, {p})
            /\ BytesOf(job, J) \in Nat
        <4>1. J \in SUBSET Request /\ {p} \in SUBSET Request /\ J \cap {p} = {}
          BY <3>1, <3>2, <3>3, Zenon DEF J
        <4> QED BY <3>2, <4>1, BytesAdd, Zenon
      <3>9. BytesOf(job, {p}) = n /\ n \in Nat
        BY <3>1, <3>2, BytesOne, Zenon DEF n, Sized
      <3>10. BytesOf(job, JobsOf(A))' = BytesOf(job', J \cup {p})
        BY <3>5, Zenon DEF BytesOf, Bytes, J
      <3>11. room = MaxAwaitingBytes - m_awaiting_quorum_bytes
        BY <3>4, <3>8, MinOfTwo, ZenonT(30) DEF room, J
      <3>12. /\ m_awaiting_quorum_bytes' = BytesOf(job, JobsOf(A))'
             /\ m_awaiting_quorum_bytes' <= MaxAwaitingBytes
        BY <2>3, <3>4, <3>7, <3>8, <3>9, <3>10, <3>11, SMTT(30) DEF J
      <3> QED BY <3>12, Zenon DEF ParkedBytesExact, JobsOf
    <2> QED BY <1>8, <2>2, <2>3, Zenon DEF Park
  <1>9. ASSUME NEW w \in Worker, WorkerStep(w) PROVE ParkedBytesExact'
    <2>1. ASSUME NEW late, Scan(w, late) PROVE ParkedBytesExact'
      <3>1. CASE TakeExpired(w, late)
        <4>1. Expired(late) \in SUBSET m_awaiting_quorum
          BY Zenon DEF Expired
        <4> QED BY <1>4, <3>1, <4>1, Zenon DEF TakeExpired, JobsOf
      <3> QED BY <1>7, <2>1, <3>1, Zenon DEF Scan
    <2>2. CASE FinishExpired(w)
      BY <1>3, <2>2, Zenon DEF FinishExpired
    <2>3. ASSUME NEW tip, Take(w, tip) PROVE ParkedBytesExact'
      <3>1. UNCHANGED <<m_awaiting_quorum, m_awaiting_quorum_bytes>>
        BY <2>3, Zenon DEF Take
      <3> QED BY <1>3, <3>1, Zenon
    <2>4. CASE Start(w)
      <3>1. worker[w].pc \in Busy
        BY <2>4, Zenon DEF Start, Busy
      <3> QED BY <1>6, <1>7, <2>4, <3>1, ZenonT(30) DEF Start
    <2>5. ASSUME NEW granted, Acquire(w, granted) PROVE ParkedBytesExact'
      <3>1. worker[w].pc \in Busy
        BY <2>5, Zenon DEF Acquire, Busy
      <3> QED BY <1>6, <1>7, <2>5, <3>1, ZenonT(30) DEF Acquire
    <2>6. ASSUME NEW missing, Replay(w, missing) PROVE ParkedBytesExact'
      BY <1>7, <2>6, Zenon DEF Replay
    <2>7. ASSUME NEW above, Trusted(w, above) PROVE ParkedBytesExact'
      <3>1. worker[w].pc \in Busy
        BY <2>7, Zenon DEF Trusted, Busy
      <3> QED BY <1>6, <1>7, <2>7, <3>1, ZenonT(30) DEF Trusted
    <2>8. CASE Recheck(w)
      <3>1. CASE worker[w].hash \in quorum
        <4>1. worker[w].hash \in Hash
          BY <3>1, ZenonT(30) DEF Inv, QuorumOK
        <4> QED BY <1>5, <2>8, <3>1, <4>1, ZenonT(30) DEF Recheck
      <3> QED BY <1>3, <2>8, <3>1, Zenon DEF Recheck
    <2>9. CASE Complete(w)
      <3>1. UNCHANGED <<m_awaiting_quorum, m_awaiting_quorum_bytes>>
        BY <2>9, Zenon DEF Complete
      <3> QED BY <1>3, <3>1, Zenon
    <2> QED BY <1>8, <1>9, <2>1, <2>2, <2>3, <2>4, <2>5, <2>6, <2>7, <2>8, <2>9, ZenonT(30)
            DEF WorkerStep
  <1>10. ASSUME NEW hs, CancelIf(hs) PROVE ParkedBytesExact'
    <2> DEFINE hit == {p \in Registered : job[p].hash \in hs /\ ~ProtectsBodyReplay(p)}
               gone == {p \in hit : ~job[p].running}
               unparked == {h \in m_awaiting_quorum : m_pending[h] \in gone}
    <2>1. /\ m_awaiting_quorum' = m_awaiting_quorum \ unparked
          /\ m_awaiting_quorum_bytes' =
               m_awaiting_quorum_bytes - BytesOf(job, {m_pending[h] : h \in unparked})
      BY <1>10, Zenon DEF CancelIf
    <2>2. unparked \in SUBSET m_awaiting_quorum
      BY Zenon
    <2> HIDE DEF unparked
    <2> QED BY <1>4, <2>1, <2>2, Zenon DEF JobsOf
  <1>11. ASSUME NEW p, LifecycleCancels(p) PROVE ParkedBytesExact'
    BY <1>7, <1>11, Zenon DEF LifecycleCancels
  <1>12. ASSUME NEW w, SchedulerPreempts(w) PROVE ParkedBytesExact'
    BY <1>7, <1>12, Zenon DEF SchedulerPreempts
  <1>13. ASSUME NEW h \in Hash, AttestationStep(h)
         PROVE  ParkedBytesExact'
    BY <1>5, <1>7, <1>13, ZenonT(30) DEF AttestationStep, MmAttest, WakeParked,
       SubmitMatMulAttestations
  <1>14. CASE Stop
    <2>1. m_awaiting_quorum' = {} /\ m_awaiting_quorum_bytes' = 0
      BY <1>14, Zenon DEF Stop
    <2>2. JobsOf(m_awaiting_quorum)' = {}
      BY <2>1, Zenon DEF JobsOf
    <2>3. BytesOf(job, JobsOf(m_awaiting_quorum))' = BytesOf(job', {})
      BY <2>2, Zenon DEF BytesOf, Bytes
    <2>4. BytesOf(job', {}) = 0
      BY BytesNone, Zenon
    <2> QED BY <2>1, <2>3, <2>4 DEF ParkedBytesExact, JobsOf
  <1>15. CASE StopJoined
    BY <1>7, <1>15, Zenon DEF StopJoined
  <1> QED BY <1>9, <1>10, <1>11, <1>12, <1>13, <1>14, <1>15, ZenonT(30) DEF Next

(* The callers.  A body that joins a parked job is charged for what it     *)
(* adds.                                                                   *)
LEMMA JoinBytes ==
    ASSUME Inv, Inv', ParkedBytesExact, NEW r \in Request, NEW h \in Hash,
           NEW priority, NEW bytes \in Nat, Join(r, h, priority, bytes)
    PROVE  ParkedBytesExact'
  <1> DEFINE p == m_pending[h]
             A == m_awaiting_quorum
             old == job[p].retained_body_bytes
             new == Max({old, bytes})
             room == MaxAwaitingBytes - Min({m_awaiting_quorum_bytes, MaxAwaitingBytes})
             additional == IF h \in A THEN new - old ELSE 0
  <1>1. /\ additional <= room
        /\ m_awaiting_quorum_bytes' = m_awaiting_quorum_bytes + additional
        /\ UNCHANGED <<m_pending, m_awaiting_quorum>>
    BY Zenon DEF Join
  <1>2. /\ p \in Request /\ job[p].hash = h
        /\ \A q \in Request \ {p} : job'[q] = job[q]
        /\ job'[p].retained_body_bytes = new
    <2>1. /\ p \in Request /\ job[p].hash = h
          /\ \A q \in Request \ {p} : job'[q] = job[q]
      BY JoinJobs, ZenonT(30)
    <2>2. JoinedBytes(p, bytes)
      BY JoinJobs, Zenon
    <2> QED BY <2>1, <2>2, Zenon DEF JoinedBytes
  <1>3. \A k \in A : /\ k \in Hash /\ m_pending[k] \in Request
                     /\ job[m_pending[k]].hash = k
    BY DEF Inv, Types, ParkedOK, PendingOK
  <1>4. /\ JobsOf(A) \subseteq Request /\ Sized(job)
    BY JobsOfFacts, Zenon
  <1>5. /\ m_awaiting_quorum_bytes = BytesOf(job, JobsOf(A))
        /\ m_awaiting_quorum_bytes <= MaxAwaitingBytes
    BY Zenon DEF ParkedBytesExact, JobsOf
  <1>6. BytesOf(job, JobsOf(A)) \in Nat
    BY <1>4, BytesFinite, Zenon
  <1>7. CASE h \notin A
    <2>1. UNCHANGED <<m_awaiting_quorum, m_awaiting_quorum_bytes>>
      BY <1>1, <1>5, <1>6, <1>7, SMTT(30)
    <2>2. \A k \in A : m_pending'[k] = m_pending[k] /\ m_pending[k] # p
      BY <1>1, <1>2, <1>3, <1>7
    <2> QED BY <1>2, <1>3, <2>1, <2>2, BytesKept, ZenonT(30)
  <1>8. CASE h \in A
    <2> DEFINE J == JobsOf(A)
               R == J \ {p}
    <2>1. J = R \cup {p} /\ R \cap {p} = {} /\ R \subseteq Request
      BY <1>4, <1>8, Zenon DEF JobsOf
    <2>2. old \in Nat /\ new \in Nat /\ new >= old
      <3>1. old \in Nat
        BY <1>2, <1>4, Zenon DEF Sized
      <3> HIDE DEF old
      <3> QED BY <3>1, MaxBound, Zenon
    <2>3. Sized(job')
      BY Zenon DEF Inv, Types, Job, Sized
    <2>4. JobsOf(A)' = J
      BY <1>1, Zenon DEF JobsOf
    <2>5. \A q \in R : job'[q].retained_body_bytes = job[q].retained_body_bytes
      BY <1>2, <2>1, Zenon
    <2> HIDE DEF J, R, p, old, new, room
    <2>6. BytesOf(job', R) = BytesOf(job, R)
      BY <2>5, BytesSame, Zenon
    <2>7. /\ R \in SUBSET Request /\ {p} \in SUBSET Request
      BY <1>2, <2>1, Zenon
    <2>8. /\ BytesOf(job', R \cup {p}) = BytesOf(job', R) + BytesOf(job', {p})
          /\ BytesOf(job, R \cup {p}) = BytesOf(job, R) + BytesOf(job, {p})
          /\ BytesOf(job, R) \in Nat
      BY <1>4, <2>1, <2>3, <2>7, BytesAdd, ZenonT(30)
    <2>9. BytesOf(job', {p}) = new /\ BytesOf(job, {p}) = old
      BY <1>2, <1>4, <2>3, BytesOne, ZenonT(30) DEF old
    <2>10. BytesOf(job, JobsOf(A))' = BytesOf(job', J)
      BY <2>4, Zenon DEF BytesOf, Bytes
    <2>11. room = MaxAwaitingBytes - m_awaiting_quorum_bytes
      BY <1>5, <1>6, MinOfTwo, Zenon DEF room
    <2>12. /\ m_awaiting_quorum_bytes' = BytesOf(job, JobsOf(A))'
           /\ m_awaiting_quorum_bytes' <= MaxAwaitingBytes
      <3>1. m_awaiting_quorum_bytes = BytesOf(job, J)
        BY <1>5, Zenon DEF J
      <3>2. /\ new - old <= room
            /\ m_awaiting_quorum_bytes' = m_awaiting_quorum_bytes + (new - old)
        BY <1>1, <1>8, Zenon
      <3> QED BY <1>5, <2>1, <2>2, <2>6, <2>8, <2>9, <2>10, <2>11, <3>1, <3>2, SMTT(30)
    <2> QED BY <2>12, Zenon DEF ParkedBytesExact, JobsOf
  <1> QED BY <1>7, <1>8, Zenon

(* A new job leaves the parked ones as they are. *)
LEMMA HandInBytes ==
    ASSUME Inv, Inv', ParkedBytesExact, NEW r \in Request, r = m_next_sequence,
           JobsLessened(Request \ {r}),
           \A k \in m_awaiting_quorum : m_pending'[k] \in {m_pending[k], None},
           UNCHANGED <<m_awaiting_quorum, m_awaiting_quorum_bytes>>
    PROVE  ParkedBytesExact'
  <1>1. \A k \in m_awaiting_quorum : m_pending[k] \in Request /\ m_pending[k] # r
    BY Fresh DEF Inv, Types, ParkedOK
  <1>2. \A k \in m_awaiting_quorum :
           /\ m_pending'[k] = m_pending[k]
           /\ job'[m_pending[k]].retained_body_bytes
                = job[m_pending[k]].retained_body_bytes
    BY <1>1, ParkedKept
  <1> QED BY <1>2, BytesKept, ZenonT(30)

(* The bytes of the parked jobs are counted exactly, and stay in bounds,   *)
(* through every way of parking, joining, waking, cancelling and expiring. *)
LEMMA NextBytes ==
    ASSUME Inv, Inv', ParkedUnpaid, ParkedBytesExact, Next
    PROVE  ParkedBytesExact'
  <1>1. ASSUME NEW r \in Request, NEW h \in Hash, NEW block \in BOOLEAN, NEW priority,
               NEW bytes, NEW cancelled,
               Enqueue(r, h, block, priority, bytes, cancelled)
        PROVE  ParkedBytesExact'
    <2>1. r = m_next_sequence /\ JobsLessened(Request \ {r})
      BY <1>1, EnqueueJobs, Zenon
    <2>2. /\ m_pending[h] = None /\ m_pending' = [m_pending EXCEPT ![h] = r]
          /\ UNCHANGED <<m_awaiting_quorum, m_awaiting_quorum_bytes>>
      BY <1>1, Zenon DEF Enqueue
    <2>3. /\ m_pending \in [Hash -> Request \cup {None}]
          /\ \A k \in m_awaiting_quorum : k \in Hash /\ m_pending[k] # None
      BY Zenon DEF Inv, Types, ParkedOK
    <2>4. \A k \in m_awaiting_quorum : m_pending'[k] = m_pending[k]
      BY <2>2, <2>3, Zenon
    <2> QED BY <1>1, <2>1, <2>2, <2>4, HandInBytes, ZenonT(30)
  <1>2. ASSUME NEW r \in Request, NEW h \in Hash, NEW block, NEW bytes,
               HandoffAuthenticatedTip(r, h, block, bytes)
        PROVE  ParkedBytesExact'
    <2>1. r = m_next_sequence /\ JobsLessened(Request \ {r})
      BY <1>2, HandoffJobs, Zenon
    <2>2. /\ m_pending[h] = None
          /\ UNCHANGED <<m_awaiting_quorum, m_awaiting_quorum_bytes>>
      BY <1>2, Zenon DEF HandoffAuthenticatedTip
    <2>3. \E S : m_pending' = [k \in Hash |->
                                 IF k = h THEN r
                                 ELSE IF m_pending[k] \in S THEN None
                                 ELSE m_pending[k]]
      BY <1>2, Zenon DEF HandoffAuthenticatedTip
    <2>4. \A k \in m_awaiting_quorum : k \in Hash /\ k # h
      BY <2>2, Zenon DEF Inv, Types, ParkedOK
    <2>5. \A k \in m_awaiting_quorum : m_pending'[k] \in {m_pending[k], None}
      BY <2>3, <2>4, Zenon
    <2> QED BY <1>2, <2>1, <2>2, <2>5, HandInBytes, ZenonT(30)
  <1>3. CASE Submit
    <2>1. Sizes \subseteq Nat /\ TRUE \in BOOLEAN /\ FALSE \in BOOLEAN
      BY Zenon
    <2>2. ASSUME NEW r \in Request, NEW h \in Hash, NEW priority, NEW bytes \in Sizes,
                 Join(r, h, priority, bytes)
          PROVE  ParkedBytesExact'
      BY <2>1, <2>2, JoinBytes, ZenonT(30)
    <2> QED BY <1>1, <1>2, <1>3, <2>1, <2>2, ZenonT(30) DEF Submit
  <1> QED BY <1>3, StepBytes, Zenon

(* m_awaiting_quorum_bytes is at all times the sum over the parked jobs    *)
(* and never exceeds MAX_AWAITING_QUORUM_BYTES, so the unsigned total does *)
(* not wrap when a job is woken, cancelled or expires.                     *)
THEOREM ParkedBytesAreExact == Spec => []ParkedBytesExact
  <1>1. Init => ParkedBytesExact
    <2> SUFFICES ASSUME Init PROVE ParkedBytesExact
      BY Zenon
    <2>1. JobsOf(m_awaiting_quorum) = {} /\ m_awaiting_quorum_bytes = 0
      BY Zenon DEF Init, JobsOf
    <2>2. BytesOf(job, JobsOf(m_awaiting_quorum)) = 0
      BY <2>1, BytesNone, Zenon
    <2> QED BY <2>1, <2>2 DEF ParkedBytesExact, JobsOf
  <1>2. ParkedBytesExact /\ UNCHANGED vars => ParkedBytesExact'
    BY DEF ParkedBytesExact, BytesOf, Bytes, vars, callers, pool
  <1>3. Inv /\ Inv' /\ ParkedUnpaid /\ ParkedBytesExact /\ Next => ParkedBytesExact'
    BY NextBytes, Zenon
  <1> QED BY <1>1, <1>2, <1>3, InvariantHolds, PTL DEF Spec
-----------------------------------------------------------------------------
(* Stop.                                                                   *)

(* A thread has expired jobs only while it hands them back, and one that   *)
(* replays neither asks for a quorum nor parks.                            *)
ThreadsOK ==
    \A v \in Worker :
        /\ worker[v].expired # {} => worker[v].pc = "expire"
        /\ worker[v].pc \in {"trusted", "park", "recheck"} => mirror

(* Only Stop takes jobs out.  The pool of a node that replays parks none,  *)
(* and queues none once it is stopped.                                     *)
PoolOK ==
    /\ ~Stopped => orphaned = {}
    /\ ~mirror => m_awaiting_quorum = {}
    /\ ~mirror /\ Stopped => m_queue = {}

(* Somebody still refers to p: the pool, Stop, or a thread that expires it. *)
Kept(p) ==
    \/ p \in Registered \cup orphaned
    \/ \E v \in Worker : p \in worker[v].expired

(* No caller waits on a job that was destroyed, and no job is lost.        *)
Accounted ==
    /\ \A r \in Request : Owed(r) =>
          \E p \in Request : r \in Owners(p) /\ job[p].hash # None
    /\ \A p \in Request : job[p].hash # None => Kept(p)

(* What a thread's step may do with the jobs it expires. *)
ExpiredKept ==
    \A v \in Worker : \A p \in worker[v].expired :
        p \in worker'[v].expired \/ job'[p] = NoJob

(* Every step keeps the threads in order and expired jobs until they are   *)
(* handed back.                                                            *)
ThreadsKept == ThreadsOK' /\ ExpiredKept /\ UNCHANGED mirror

(* A step of one thread that expires nothing. *)
LEMMA ThreadMoves ==
    ASSUME Inv, ThreadsOK, UNCHANGED mirror, NEW w \in Worker, NEW l,
           worker' = [worker EXCEPT ![w] = l],
           worker[w].expired = {}, l.expired = {},
           l.pc \in {"trusted", "park", "recheck"} => mirror
    PROVE  ThreadsKept
  <1>1. worker \in [Worker -> Local]
    BY Zenon DEF Inv, Types
  <1>2. worker'[w] = l /\ \A v \in Worker : v # w => worker'[v] = worker[v]
    BY <1>1, Zenon
  <1> QED BY <1>2, Zenon DEF ThreadsKept, ThreadsOK, ExpiredKept

(* A thread that goes back to the head of the loop. *)
LEMMA ThreadReturns ==
    ASSUME Inv, ThreadsOK, UNCHANGED mirror, NEW w \in Worker,
           worker[w].pc # "expire", worker' = [worker EXCEPT ![w] = At("loop")]
    PROVE  ThreadsKept
  <1>1. /\ At("loop").expired = {}
        /\ At("loop").pc \notin {"trusted", "park", "recheck"}
    BY AtFacts, Zenon DEF Step
  <1>2. worker[w].expired = {}
    BY Zenon DEF ThreadsOK
  <1> QED BY <1>1, <1>2, ThreadMoves, ZenonT(30)

(* A thread that only moves on. *)
LEMMA ThreadGoes ==
    ASSUME Inv, ThreadsOK, UNCHANGED mirror, NEW w \in Worker, NEW pc \in Step,
           worker[w].pc # "expire", Goto(w, pc),
           pc \in {"trusted", "park", "recheck"} => mirror
    PROVE  ThreadsKept
  <1> DEFINE l == [worker[w] EXCEPT !.pc = pc]
  <1>1. worker \in [Worker -> Local] /\ worker[w] \in Local
    BY Zenon DEF Inv, Types
  <1>2. worker' = [worker EXCEPT ![w] = l]
    BY <1>1, Zenon DEF Goto
  <1>3. worker[w].expired = {}
    BY Zenon DEF ThreadsOK
  <1>4. l.pc = pc /\ l.expired = {}
    BY <1>1, <1>3, GotoFacts, ZenonT(30)
  <1> HIDE DEF l
  <1> QED BY <1>2, <1>3, <1>4, ThreadMoves, ZenonT(30)

(* The head of the loop. *)
LEMMA ScanThreads ==
    ASSUME Inv, ThreadsOK, NEW w \in Worker, NEW late, Scan(w, late)
    PROVE  ThreadsKept
  <1>1. worker[w].pc = "loop" /\ UNCHANGED mirror
    BY Zenon DEF Scan
  <1>2. worker \in [Worker -> Local] /\ worker[w] \in Local
    BY Zenon DEF Inv, Types
  <1>3. ASSUME NEW ps,
               worker' = [worker EXCEPT ![w].pc = "expire", ![w].expired = ps]
        PROVE  ThreadsKept
    <2>1. worker'[w].pc = "expire" /\ \A v \in Worker : v # w => worker'[v] = worker[v]
      BY <1>2, <1>3, Zenon DEF Local
    <2>2. worker[w].expired = {}
      BY <1>1, Zenon DEF ThreadsOK
    <2> QED BY <1>1, <2>1, <2>2, ZenonT(30) DEF ThreadsKept, ThreadsOK, ExpiredKept
  <1>4. ASSUME NEW pc \in {"exit", "take"}, Goto(w, pc) PROVE ThreadsKept
    BY <1>1, <1>4, ThreadGoes, ZenonT(30) DEF Step
  <1> QED BY <1>3, <1>4, Zenon DEF Scan, TakeExpired

(* An expired job is handed back. *)
LEMMA FinishExpiredThreads ==
    ASSUME Inv, ThreadsOK, NEW w \in Worker, FinishExpired(w)
    PROVE  ThreadsKept
  <1> DEFINE pc(p) == IF worker[w].expired # {p} THEN "expire"
                      ELSE IF Stopped THEN "exit" ELSE "loop"
  <1>1. worker \in [Worker -> Local] /\ worker[w] \in Local
    BY Zenon DEF Inv, Types
  <1>2. PICK p \in worker[w].expired :
          /\ job' = Destroy({p})
          /\ worker' = [worker EXCEPT ![w].expired = @ \ {p}, ![w].pc = pc(p)]
    BY Zenon DEF FinishExpired
  <1>3. p \in Request /\ job'[p] = NoJob
    BY <1>1, <1>2, Zenon DEF Destroy, Local
  <1>4. pc(p) # "expire" => worker[w].expired = {p}
    BY Zenon
  <1>5. pc(p) \notin {"trusted", "park", "recheck"}
    BY Zenon
  <1> HIDE DEF pc
  <1>6. /\ worker'[w].expired = worker[w].expired \ {p}
        /\ worker'[w].pc = pc(p)
        /\ \A v \in Worker : v # w => worker'[v] = worker[v]
    BY <1>1, <1>2, Zenon DEF Local
  <1>7. UNCHANGED mirror
    BY Zenon DEF FinishExpired
  <1> QED BY <1>3, <1>4, <1>5, <1>6, <1>7, ZenonT(30) DEF ThreadsKept, ThreadsOK, ExpiredKept

(* A job is taken from the queue. *)
LEMMA TakeThreads ==
    ASSUME Inv, ThreadsOK, NEW w \in Worker, NEW tip, Take(w, tip)
    PROVE  ThreadsKept
  <1>1. worker[w].pc = "take" /\ UNCHANGED mirror
    BY Zenon DEF Take
  <1>2. ASSUME NEW pc \in {"exit", "loop"}, Goto(w, pc) PROVE ThreadsKept
    BY <1>1, <1>2, ThreadGoes, ZenonT(30) DEF Step
  <1>3. ASSUME NEW p \in m_queue,
               job' = [job EXCEPT ![p].running = TRUE],
               worker' = [worker EXCEPT
                 ![w].pc = "start", ![w].pending = p, ![w].hash = job[p].hash,
                 ![w].tip_extending = TipExtending(job[p].hash, tip)]
        PROVE  ThreadsKept
    <2>1. PICK k \in Job, l \in Local :
            /\ job' = [job EXCEPT ![p] = k]
            /\ worker' = [worker EXCEPT ![w] = l]
            /\ k.hash = job[p].hash /\ k.running /\ k.followers = job[p].followers
            /\ l.pc = "start" /\ l.pending = p /\ l.hash = job[p].hash
            /\ l.failure = "none" /\ l.expired = worker[w].expired
      BY <1>1, <1>3, TakeRecords, ZenonT(30)
    <2>2. worker[w].expired = {}
      BY <1>1, Zenon DEF ThreadsOK
    <2> QED BY <1>1, <2>1, <2>2, ThreadMoves, ZenonT(30)
  <1> QED BY <1>2, <1>3, Zenon DEF Take

(* The replay starts, or the trusted path of a mirror. *)
LEMMA StartThreads ==
    ASSUME Inv, ThreadsOK, NEW w \in Worker, Start(w)
    PROVE  ThreadsKept
  <1> DEFINE p == worker[w].pending
             pc == IF TrustedExactReplay(worker[w].hash) THEN "trusted"
                   ELSE "acquire"
             t == worker[w].tip_extending /\ TrustedExactReplay(worker[w].hash)
             s == Stopped
             b == ProtectsBodyReplay(p)
             l == [worker[w] EXCEPT !.pc = pc, !.tip_extending = t,
                                    !.shutting_down = s, !.protect_body_replay = b]
  <1>1. worker[w].pc = "start" /\ UNCHANGED mirror
    BY Zenon DEF Start
  <1>2. worker \in [Worker -> Local] /\ worker[w] \in Local
    BY Zenon DEF Inv, Types
  <1>3. worker[w].expired = {}
    BY <1>1, Zenon DEF ThreadsOK
  <1>4. CASE FinishRetryable(w)
    BY <1>1, <1>4, ThreadReturns, ZenonT(30) DEF FinishRetryable
  <1>5. CASE worker' = [worker EXCEPT ![w] = l]
    <2>1. pc = "trusted" => mirror
      BY Zenon DEF TrustedExactReplay
    <2>2. pc \notin {"park", "recheck"}
      BY Zenon
    <2> HIDE DEF pc, t, s, b
    <2>3. l.pc = pc /\ l.expired = {}
      BY <1>2, <1>3, Zenon DEF Local
    <2> HIDE DEF l
    <2> QED BY <1>1, <1>3, <1>5, <2>1, <2>2, <2>3, ThreadMoves, ZenonT(30)
  <1> QED BY <1>2, <1>4, <1>5, ZenonT(30) DEF Start

(* The steps from there to the last. *)
LEMMA VerifyThreads ==
    ASSUME Inv, ThreadsOK, NEW w \in Worker,
           \/ \E granted \in BOOLEAN : Acquire(w, granted)
           \/ \E missing \in BOOLEAN : Replay(w, missing)
           \/ \E above \in BOOLEAN : Trusted(w, above)
           \/ Park(w) \/ Recheck(w) \/ Complete(w)
    PROVE  ThreadsKept
  <1>1. worker \in [Worker -> Local] /\ worker[w] \in Local
    BY Zenon DEF Inv, Types
  <1>2. worker[w].pc # "expire" => worker[w].expired = {}
    BY Zenon DEF ThreadsOK
  <1>3. ASSUME FinishRetryable(w), worker[w].pc # "expire", UNCHANGED mirror
        PROVE  ThreadsKept
    BY <1>3, ThreadReturns, Zenon DEF FinishRetryable
  <1>4. ASSUME NEW granted, Acquire(w, granted) PROVE ThreadsKept
    <2>1. worker[w].pc = "acquire" /\ UNCHANGED mirror
      BY <1>4, Zenon DEF Acquire
    <2>2. CASE Goto(w, "replay")
      BY <2>1, <2>2, ThreadGoes, ZenonT(30) DEF Step
    <2> QED BY <1>3, <1>4, <2>1, <2>2, ZenonT(30) DEF Acquire
  <1>5. ASSUME NEW missing, Replay(w, missing) PROVE ThreadsKept
    <2>1. worker[w].pc = "replay" /\ UNCHANGED mirror
      BY <1>5, Zenon DEF Replay
    <2>2. PICK ok, failure :
            worker' = [worker EXCEPT ![w].pc = "complete", ![w].ok = ok,
                                     ![w].failure = failure]
      BY <1>5, Zenon DEF Replay
    <2> DEFINE l == [worker[w] EXCEPT !.pc = "complete", !.ok = ok,
                                      !.failure = failure]
    <2>3. worker' = [worker EXCEPT ![w] = l]
      BY <1>1, <2>2, Zenon
    <2>4. l.pc = "complete" /\ l.expired = {}
      BY <1>1, <1>2, <2>1, ZenonT(30) DEF Local
    <2> HIDE DEF l
    <2> QED BY <1>2, <2>1, <2>3, <2>4, ThreadMoves, ZenonT(30)
  <1>6. ASSUME NEW above, Trusted(w, above) PROVE ThreadsKept
    <2>1. worker[w].pc = "trusted" /\ UNCHANGED mirror /\ mirror
      BY <1>6, Zenon DEF Trusted, ThreadsOK
    <2> DEFINE l == [worker[w] EXCEPT !.pc = "complete", !.tip_extending = FALSE,
                                      !.ok = TRUE]
               m == [worker[w] EXCEPT !.pc = "park", !.tip_extending = FALSE]
    <2>2. l.expired = {} /\ m.expired = {}
      BY <1>1, <1>2, <2>1, ZenonT(30) DEF Local
    <2>3. \/ FinishRetryable(w)
          \/ worker' = [worker EXCEPT ![w] = l]
          \/ worker' = [worker EXCEPT ![w] = m]
      BY <1>1, <1>6, Zenon DEF Trusted
    <2> HIDE DEF l, m
    <2> QED BY <1>2, <1>3, <2>1, <2>2, <2>3, ThreadMoves, ZenonT(30)
  <1>7. CASE Park(w)
    <2>1. worker[w].pc = "park" /\ UNCHANGED mirror /\ mirror
      BY <1>7, Zenon DEF Park, ThreadsOK
    <2>2. CASE Goto(w, "recheck")
      BY <2>1, <2>2, ThreadGoes, ZenonT(30) DEF Step
    <2> QED BY <1>3, <1>7, <2>1, <2>2, ZenonT(30) DEF Park
  <1>8. CASE Recheck(w)
    BY <1>8, ThreadReturns, Zenon DEF Recheck
  <1>9. CASE Complete(w)
    BY <1>9, ThreadReturns, Zenon DEF Complete
  <1> QED BY <1>4, <1>5, <1>6, <1>7, <1>8, <1>9, ZenonT(30)

(* The callers start threads at most. *)
LEMMA SubmitThreads ==
    ASSUME Inv, ThreadsOK, Submit
    PROVE  ThreadsKept
  <1>1. ASSUME UNCHANGED worker, UNCHANGED mirror PROVE ThreadsKept
    BY <1>1, Zenon DEF ThreadsKept, ThreadsOK, ExpiredKept
  <1>2. ASSUME NEW queued, StartThread(queued), UNCHANGED mirror PROVE ThreadsKept
    <2>1. CASE \E w \in Worker : /\ worker[w].pc = "none"
                                 /\ worker' = [worker EXCEPT ![w] = At("loop")]
      BY <1>2, <2>1, ThreadReturns, ZenonT(30)
    <2> QED BY <1>1, <1>2, <2>1, Zenon DEF StartThread
  <1>3. ASSUME NEW s, NEW h, NEW block, NEW priority, NEW bytes, NEW cancelled,
               Enqueue(s, h, block, priority, bytes, cancelled)
        PROVE  ThreadsKept
    BY <1>2, <1>3, Zenon DEF Enqueue
  <1>4. ASSUME NEW s, NEW h, NEW priority, NEW bytes, Join(s, h, priority, bytes)
        PROVE  ThreadsKept
    BY <1>1, <1>4, Zenon DEF Join
  <1>5. ASSUME NEW s, NEW h, NEW block, NEW bytes,
               HandoffAuthenticatedTip(s, h, block, bytes)
        PROVE  ThreadsKept
    BY <1>2, <1>5, Zenon DEF HandoffAuthenticatedTip
  <1> QED BY <1>3, <1>4, <1>5, Zenon DEF Submit

(* All the steps. *)
LEMMA NextThreads ==
    ASSUME Inv, ThreadsOK, Next
    PROVE  ThreadsKept
  <1>1. ASSUME UNCHANGED worker, UNCHANGED mirror PROVE ThreadsKept
    BY <1>1, Zenon DEF ThreadsKept, ThreadsOK, ExpiredKept
  <1>2. ASSUME NEW w \in Worker, WorkerStep(w) PROVE ThreadsKept
    BY <1>2, ScanThreads, FinishExpiredThreads, TakeThreads, StartThreads,
       VerifyThreads, ZenonT(30) DEF WorkerStep
  <1>3. ASSUME NEW hs, CancelIf(hs) PROVE ThreadsKept
    BY <1>1, <1>3, Zenon DEF CancelIf
  <1>4. ASSUME NEW p, LifecycleCancels(p) PROVE ThreadsKept
    BY <1>1, <1>4, Zenon DEF LifecycleCancels
  <1>5. ASSUME NEW w, SchedulerPreempts(w) PROVE ThreadsKept
    BY <1>1, <1>5, Zenon DEF SchedulerPreempts
  <1>6. ASSUME NEW h, AttestationStep(h) PROVE ThreadsKept
    BY <1>1, <1>6, Zenon DEF AttestationStep, MmAttest, WakeParked,
       SubmitMatMulAttestations
  <1>7. CASE Stop \/ StopJoined
    BY <1>1, <1>7, Zenon DEF Stop, StopJoined
  <1> QED BY <1>2, <1>3, <1>4, <1>5, <1>6, <1>7, SubmitThreads, ZenonT(30) DEF Next

(* The pool of a node that replays. *)
LEMMA NextPool ==
    ASSUME Inv, ThreadsOK, PoolOK, Next
    PROVE  PoolOK'
  <1>1. ASSUME UNCHANGED stopping, UNCHANGED mirror,
               m_queue' \subseteq m_queue \/ ~Stopped \/ mirror,
               m_awaiting_quorum' \subseteq m_awaiting_quorum \/ mirror
        PROVE  PoolOK'
    BY <1>1, Zenon DEF PoolOK, Stopped, stopping
  <1>2. ASSUME UNCHANGED stopping, UNCHANGED mirror, UNCHANGED pool PROVE PoolOK'
    BY <1>1, <1>2, Zenon DEF pool
  <1>3. ASSUME UNCHANGED stopping, UNCHANGED mirror, NEW w, FinishRetryable(w)
        PROVE  PoolOK'
    BY <1>1, <1>3, Zenon DEF FinishRetryable
  <1>4. ASSUME UNCHANGED stopping, UNCHANGED mirror, NEW h, NotifyQuorumReady(h)
        PROVE  PoolOK'
    <2>1. h \in m_awaiting_quorum => mirror
      BY Zenon DEF PoolOK
    <2> QED BY <1>1, <1>4, <2>1, ZenonT(30) DEF NotifyQuorumReady
  <1>5. CASE Submit
    <2>1. ASSUME ~Stopped, UNCHANGED stopping, UNCHANGED mirror,
                 UNCHANGED m_awaiting_quorum
          PROVE  PoolOK'
      BY <1>1, <2>1, Zenon
    <2>2. ASSUME NEW r, NEW h, NEW block, NEW priority, NEW bytes, NEW cancelled,
                 Enqueue(r, h, block, priority, bytes, cancelled)
          PROVE  PoolOK'
      BY <2>1, <2>2, Zenon DEF Enqueue
    <2>3. ASSUME NEW r, NEW h, NEW priority, NEW bytes, Join(r, h, priority, bytes)
          PROVE  PoolOK'
      BY <2>1, <2>3, Zenon DEF Join
    <2>4. ASSUME NEW r, NEW h, NEW block, NEW bytes,
                 HandoffAuthenticatedTip(r, h, block, bytes)
          PROVE  PoolOK'
      BY <2>1, <2>4, Zenon DEF HandoffAuthenticatedTip
    <2> QED BY <1>5, <2>2, <2>3, <2>4, ZenonT(30) DEF Submit
  <1>6. ASSUME NEW hs, CancelIf(hs) PROVE PoolOK'
    <2>1. PICK gone, unparked : /\ m_queue' = m_queue \ gone
                                /\ m_awaiting_quorum' = m_awaiting_quorum \ unparked
      BY <1>6, Zenon DEF CancelIf
    <2>2. UNCHANGED stopping /\ UNCHANGED mirror
      BY <1>6, Zenon DEF CancelIf
    <2> QED BY <1>1, <2>1, <2>2, ZenonT(30)
  <1>7. ASSUME NEW p, LifecycleCancels(p) PROVE PoolOK'
    BY <1>2, <1>7, Zenon DEF LifecycleCancels
  <1>8. ASSUME NEW w, SchedulerPreempts(w) PROVE PoolOK'
    BY <1>2, <1>8, Zenon DEF SchedulerPreempts
  <1>9. ASSUME NEW h, AttestationStep(h) PROVE PoolOK'
    BY <1>2, <1>4, <1>9, ZenonT(30) DEF AttestationStep, MmAttest, WakeParked,
       SubmitMatMulAttestations
  <1>10. CASE Stop
    BY <1>10, Zenon DEF Stop, PoolOK, Stopped
  <1>11. CASE StopJoined
    BY <1>11, Zenon DEF StopJoined, PoolOK, Stopped, pool
  <1>12. ASSUME NEW w \in Worker, WorkerStep(w) PROVE PoolOK'
    <2>1. ASSUME NEW late, Scan(w, late) PROVE PoolOK'
      <3>1. UNCHANGED stopping /\ UNCHANGED mirror
        BY <2>1, Zenon DEF Scan
      <3>2. CASE TakeExpired(w, late)
        BY <1>1, <3>1, <3>2, ZenonT(30) DEF TakeExpired
      <3> QED BY <1>2, <2>1, <3>1, <3>2, ZenonT(30) DEF Scan
    <2>2. CASE FinishExpired(w)
      <3>1. UNCHANGED <<m_queue, m_awaiting_quorum, stopping, mirror>>
        BY <2>2, Zenon DEF FinishExpired
      <3> QED BY <1>1, <3>1, Zenon
    <2>3. ASSUME NEW tip, Take(w, tip) PROVE PoolOK'
      <3>1. UNCHANGED <<m_awaiting_quorum, stopping, mirror>>
        BY <2>3, Zenon DEF Take
      <3>2. UNCHANGED m_queue \/ \E p \in m_queue : m_queue' = m_queue \ {p}
        BY <2>3, Zenon DEF Take
      <3> QED BY <1>1, <3>1, <3>2, Zenon
    <2>4. CASE Start(w)
      BY <1>2, <1>3, <2>4, Zenon DEF Start
    <2>5. ASSUME NEW granted, Acquire(w, granted) PROVE PoolOK'
      BY <1>2, <1>3, <2>5, Zenon DEF Acquire
    <2>6. ASSUME NEW missing, Replay(w, missing) PROVE PoolOK'
      BY <1>2, <2>6, Zenon DEF Replay
    <2>7. ASSUME NEW above, Trusted(w, above) PROVE PoolOK'
      BY <1>2, <1>3, <2>7, Zenon DEF Trusted
    <2>8. CASE Park(w)
      <3>1. mirror /\ UNCHANGED stopping /\ UNCHANGED mirror
        BY <2>8, ZenonT(30) DEF Park, ThreadsOK
      <3> QED BY <1>1, <3>1, Zenon
    <2>9. CASE Recheck(w)
      <3>1. mirror /\ UNCHANGED stopping /\ UNCHANGED mirror
        BY <2>9, ZenonT(30) DEF Recheck, ThreadsOK
      <3> QED BY <1>1, <3>1, Zenon
    <2>10. CASE Complete(w)
      <3>1. UNCHANGED <<m_queue, m_awaiting_quorum, stopping, mirror>>
        BY <2>10, Zenon DEF Complete
      <3> QED BY <1>1, <3>1, Zenon
    <2> QED BY <1>12, <2>1, <2>2, <2>3, <2>4, <2>5, <2>6, <2>7, <2>8, <2>9, <2>10,
               ZenonT(30) DEF WorkerStep
  <1> QED BY <1>5, <1>6, <1>7, <1>8, <1>9, <1>10, <1>11, <1>12, ZenonT(30) DEF Next

(* Only a caller who hands a request in comes to be owed an answer. *)
NoneOwed == \A r \in Request : req'[r] = "owed" => req[r] = "owed"

(* So it is with every step but those that hand a request in. *)
LEMMA StepOwes ==
    ASSUME Inv, Next, ~Submit
    PROVE  NoneOwed
  <1>1. ASSUME UNCHANGED req PROVE NoneOwed
    BY <1>1, Zenon DEF NoneOwed
  <1>2. ASSUME UNCHANGED callers PROVE NoneOwed
    BY <1>2, Zenon DEF NoneOwed, callers
  <1>3. ASSUME NEW ps, NEW answer \in {"retryable", "accepted", "rejected", "dropped"},
               req' = Answer(ps, answer)
        PROVE  NoneOwed
    BY <1>3, Zenon DEF NoneOwed, Answer
  <1>4. ASSUME NEW ps, req' = Answer(ps, "retryable") PROVE NoneOwed
    BY <1>3, <1>4, Zenon
  <1>5. ASSUME NEW w, FinishRetryable(w) PROVE NoneOwed
    BY <1>4, <1>5, Zenon DEF FinishRetryable
  <1>6. ASSUME NEW hs, CancelIf(hs) PROVE NoneOwed
    <2>1. PICK ps : req' = Answer(ps, "dropped")
      BY <1>6, Zenon DEF CancelIf
    <2> QED BY <1>3, <2>1, Zenon
  <1>7. ASSUME NEW w, WorkerStep(w) PROVE NoneOwed
    <2>1. ASSUME NEW late, Scan(w, late) PROVE NoneOwed
      BY <1>2, <2>1, Zenon DEF Scan
    <2>2. CASE FinishExpired(w)
      BY <1>4, <2>2, Zenon DEF FinishExpired
    <2>3. ASSUME NEW tip, Take(w, tip) PROVE NoneOwed
      BY <1>1, <2>3, Zenon DEF Take
    <2>4. CASE Start(w)
      BY <1>2, <1>5, <2>4, ZenonT(30) DEF Start
    <2>5. ASSUME NEW granted, Acquire(w, granted) PROVE NoneOwed
      BY <1>2, <1>5, <2>5, ZenonT(30) DEF Acquire
    <2>6. ASSUME NEW missing, Replay(w, missing) PROVE NoneOwed
      BY <1>2, <2>6, Zenon DEF Replay
    <2>7. ASSUME NEW above, Trusted(w, above) PROVE NoneOwed
      BY <1>2, <1>5, <2>7, ZenonT(30) DEF Trusted
    <2>8. CASE Park(w)
      BY <1>1, <1>5, <2>8, ZenonT(30) DEF Park
    <2>9. CASE Recheck(w)
      BY <1>2, <2>9, Zenon DEF Recheck
    <2>10. CASE Complete(w)
      <3>1. PICK answer \in {"retryable", "accepted", "rejected"} :
              req' = Answer({worker[w].pending}, answer)
        BY <2>10, Zenon DEF Complete
      <3> QED BY <1>3, <3>1, Zenon
    <2> QED BY <1>7, <2>1, <2>2, <2>3, <2>4, <2>5, <2>6, <2>7, <2>8, <2>9, <2>10,
               ZenonT(30) DEF WorkerStep
  <1>8. ASSUME NEW p, LifecycleCancels(p) PROVE NoneOwed
    BY <1>1, <1>8, Zenon DEF LifecycleCancels
  <1>9. ASSUME NEW w, SchedulerPreempts(w) PROVE NoneOwed
    BY <1>1, <1>9, Zenon DEF SchedulerPreempts
  <1>10. ASSUME NEW h, AttestationStep(h) PROVE NoneOwed
    BY <1>2, <1>10, Zenon DEF AttestationStep, MmAttest, WakeParked,
       SubmitMatMulAttestations
  <1>11. CASE Stop
    BY <1>1, <1>11, Zenon DEF Stop
  <1>12. CASE StopJoined
    BY <1>4, <1>12, Zenon DEF StopJoined
  <1> QED BY <1>6, <1>7, <1>8, <1>9, <1>10, <1>11, <1>12, ZenonT(30) DEF Next

(* What becomes of a registered job: it stays registered, is destroyed, is *)
(* taken by Stop or expires.                                               *)
Followed(p) ==
    \/ job'[p] = NoJob
    \/ p \in orphaned'
    \/ \E v \in Worker : p \in worker'[v].expired

RegisteredKept ==
    \A k \in Hash : m_pending[k] # None =>
        m_pending'[k] = m_pending[k] \/ Followed(m_pending[k])

(* So it is with every step. *)
LEMMA NextRegistered ==
    ASSUME Inv, Next
    PROVE  RegisteredKept
  <1>1. m_pending \in [Hash -> Request \cup {None}]
    BY Zenon DEF Inv, Types
  <1>2. ASSUME UNCHANGED m_pending PROVE RegisteredKept
    BY <1>2, Zenon DEF RegisteredKept
  <1>3. ASSUME UNCHANGED pool PROVE RegisteredKept
    BY <1>2, <1>3, Zenon DEF pool
  <1>4. ASSUME NEW w \in Worker, worker[w].pc \in Busy,
               m_pending' = [m_pending EXCEPT ![worker[w].hash] = None],
               job' = Destroy({worker[w].pending})
        PROVE  RegisteredKept
    <2>1. /\ worker[w].pending \in Request /\ worker[w].hash \in Hash
          /\ m_pending[worker[w].hash] = worker[w].pending
      BY <1>4, HeldJob, ZenonT(30)
    <2>2. job'[worker[w].pending] = NoJob
      BY <1>4, <2>1, ZenonT(30) DEF Destroy
    <2>3. \A k \in Hash : k # worker[w].hash => m_pending'[k] = m_pending[k]
      BY <1>1, <1>4, Zenon
    <2> QED BY <2>1, <2>2, <2>3, ZenonT(30) DEF RegisteredKept, Followed
  <1>5. ASSUME NEW w \in Worker, worker[w].pc \in Busy, FinishRetryable(w)
        PROVE  RegisteredKept
    BY <1>4, <1>5, Zenon DEF FinishRetryable
  <1>6. CASE Submit
    <2>1. ASSUME NEW r, NEW h, NEW block, NEW priority, NEW bytes, NEW cancelled,
                 Enqueue(r, h, block, priority, bytes, cancelled)
          PROVE  RegisteredKept
      <3>1. m_pending[h] = None /\ m_pending' = [m_pending EXCEPT ![h] = r]
        BY <2>1, Zenon DEF Enqueue
      <3> QED BY <1>1, <3>1, Zenon DEF RegisteredKept
    <2>2. ASSUME NEW r, NEW h, NEW priority, NEW bytes, Join(r, h, priority, bytes)
          PROVE  RegisteredKept
      BY <1>2, <2>2, ZenonT(30) DEF Join
    <2>3. ASSUME NEW r \in Request, NEW h, NEW block, NEW bytes,
                 HandoffAuthenticatedTip(r, h, block, bytes)
          PROVE  RegisteredKept
      <3> DEFINE new(p) == NewJob(h, block, AuthenticatedTipChild, bytes,
                                  job[p].rc_pending_lease, FALSE)
                 old(p) == IF job[p].running
                           THEN [job[p] EXCEPT !.cancelled = TRUE, !.handoff = FALSE,
                                               !.rc_pending_lease = None]
                           ELSE NoJob
                 gone(p) == {p} \ {q \in Request : job[q].running}
      <3>1. PICK source \in HandoffSources(h) :
              /\ job' = [job EXCEPT ![source] = old(source), ![r] = new(source)]
              /\ m_pending' = [k \in Hash |->
                                 IF k = h THEN r
                                 ELSE IF m_pending[k] \in gone(source) THEN None
                                 ELSE m_pending[k]]
        BY <2>3, Zenon DEF HandoffAuthenticatedTip
      <3>2. m_pending[h] = None /\ r = m_next_sequence
        BY <2>3, Zenon DEF HandoffAuthenticatedTip
      <3>3. source \in gone(source) /\ source \in Request => old(source) = NoJob
        BY Zenon
      <3>4. gone(source) \subseteq {source}
        BY Zenon
      <3> HIDE DEF old, new, gone
      <3>5. job \in [Request -> Job] /\ \A k \in Hash : m_pending[k] # r
        BY <3>2, Fresh, ZenonT(30) DEF Inv, Types
      <3>6. ASSUME NEW k \in Hash, m_pending[k] # None, m_pending[k] \in gone(source)
            PROVE  Followed(m_pending[k])
        <4>1. source = m_pending[k] /\ source \in Request /\ source # r
          BY <1>1, <3>4, <3>5, <3>6, ZenonT(30)
        <4>2. job'[source] = NoJob
          BY <3>1, <3>3, <3>5, <3>6, <4>1, ZenonT(30)
        <4> QED BY <4>1, <4>2, Zenon DEF Followed
      <3> QED BY <3>1, <3>2, <3>6, ZenonT(30) DEF RegisteredKept
    <2> QED BY <1>6, <2>1, <2>2, <2>3, ZenonT(30) DEF Submit
  <1>7. ASSUME NEW hs, CancelIf(hs) PROVE RegisteredKept
    <2> DEFINE hit == {p \in Registered : job[p].hash \in hs /\ ~ProtectsBodyReplay(p)}
               gone == {p \in hit : ~job[p].running}
    <2>1. /\ job' = [p \in Request |->
                       IF p \in gone THEN NoJob
                       ELSE IF p \in hit THEN [job[p] EXCEPT !.cancelled = TRUE]
                       ELSE job[p]]
          /\ m_pending' = [h \in Hash |->
                             IF m_pending[h] \in gone THEN None ELSE m_pending[h]]
      BY <1>7, Zenon DEF CancelIf
    <2> HIDE DEF hit, gone
    <2>2. \A p \in Request : p \in gone => job'[p] = NoJob
      BY <2>1, Zenon
    <2> QED BY <1>1, <2>1, <2>2, ZenonT(30) DEF RegisteredKept, Followed
  <1>8. CASE Stop
    <2> DEFINE taken == m_queue \cup {m_pending[h] : h \in m_awaiting_quorum}
    <2>1. /\ orphaned' = taken
          /\ m_pending' = [h \in Hash |->
                             IF m_pending[h] \in taken THEN None ELSE m_pending[h]]
      BY <1>8, Zenon DEF Stop
    <2> HIDE DEF taken
    <2> QED BY <2>1, Zenon DEF RegisteredKept, Followed
  <1>9. ASSUME NEW w \in Worker, WorkerStep(w) PROVE RegisteredKept
    <2>1. ASSUME NEW late, Scan(w, late) PROVE RegisteredKept
      <3>1. CASE TakeExpired(w, late)
        <4> DEFINE hs == Expired(late)
                   ps == {m_pending[h] : h \in hs}
        <4>1. /\ m_pending' = [h \in Hash |-> IF h \in hs THEN None ELSE m_pending[h]]
              /\ worker' = [worker EXCEPT ![w].pc = "expire", ![w].expired = ps]
          BY <3>1, Zenon DEF TakeExpired
        <4>2. worker \in [Worker -> Local] /\ worker[w] \in Local
          BY Zenon DEF Inv, Types
        <4>3. worker'[w].expired = ps
          BY <4>1, <4>2, Zenon DEF Local
        <4> HIDE DEF hs
        <4>4. \A h \in hs : m_pending[h] \in worker'[w].expired
          BY <4>3, Zenon
        <4> HIDE DEF ps
        <4> QED BY <4>1, <4>4, Zenon DEF RegisteredKept, Followed
      <3> QED BY <1>3, <2>1, <3>1, ZenonT(30) DEF Scan
    <2>2. CASE FinishExpired(w)
      BY <1>2, <2>2, Zenon DEF FinishExpired
    <2>3. ASSUME NEW tip, Take(w, tip) PROVE RegisteredKept
      BY <1>2, <2>3, Zenon DEF Take
    <2>4. CASE Start(w)
      <3>1. worker[w].pc \in Busy
        BY <2>4, Zenon DEF Start, Busy
      <3> QED BY <1>3, <1>5, <2>4, <3>1, ZenonT(30) DEF Start
    <2>5. ASSUME NEW granted, Acquire(w, granted) PROVE RegisteredKept
      <3>1. worker[w].pc \in Busy
        BY <2>5, Zenon DEF Acquire, Busy
      <3> QED BY <1>3, <1>5, <2>5, <3>1, ZenonT(30) DEF Acquire
    <2>6. ASSUME NEW missing, Replay(w, missing) PROVE RegisteredKept
      BY <1>3, <2>6, Zenon DEF Replay
    <2>7. ASSUME NEW above, Trusted(w, above) PROVE RegisteredKept
      <3>1. worker[w].pc \in Busy
        BY <2>7, Zenon DEF Trusted, Busy
      <3> QED BY <1>3, <1>5, <2>7, <3>1, ZenonT(30) DEF Trusted
    <2>8. CASE Park(w)
      <3>1. worker[w].pc \in Busy
        BY <2>8, Zenon DEF Park, Busy
      <3> QED BY <1>2, <1>5, <2>8, <3>1, ZenonT(30) DEF Park
    <2>9. CASE Recheck(w)
      BY <1>2, <2>9, Zenon DEF Recheck
    <2>10. CASE Complete(w)
      <3>1. worker[w].pc \in Busy
        BY <2>10, Zenon DEF Complete, Busy
      <3> QED BY <1>4, <2>10, <3>1, Zenon DEF Complete
    <2> QED BY <1>9, <2>1, <2>2, <2>3, <2>4, <2>5, <2>6, <2>7, <2>8, <2>9, <2>10,
               ZenonT(30) DEF WorkerStep
  <1>10. ASSUME NEW p, LifecycleCancels(p) PROVE RegisteredKept
    BY <1>3, <1>10, Zenon DEF LifecycleCancels
  <1>11. ASSUME NEW w, SchedulerPreempts(w) PROVE RegisteredKept
    BY <1>3, <1>11, Zenon DEF SchedulerPreempts
  <1>12. ASSUME NEW h, AttestationStep(h) PROVE RegisteredKept
    BY <1>2, <1>3, <1>12, Zenon DEF AttestationStep, MmAttest, WakeParked,
       SubmitMatMulAttestations
  <1>13. CASE StopJoined
    BY <1>3, <1>13, Zenon DEF StopJoined
  <1> QED BY <1>6, <1>7, <1>8, <1>9, <1>10, <1>11, <1>12, <1>13, ZenonT(30) DEF Next

(* Nobody but Stop touches the stop flag and what Stop took, and nothing   *)
(* is handed in once it is raised.                                         *)
LEMMA NextStopping ==
    ASSUME Next
    PROVE  /\ UNCHANGED stopping \/ Stop \/ StopJoined
           /\ Submit => ~Stopped
  <1>1. Submit => ~Stopped /\ UNCHANGED stopping
    <2>1. ASSUME NEW r, NEW h, NEW block, NEW priority, NEW bytes, NEW cancelled,
                 Enqueue(r, h, block, priority, bytes, cancelled)
          PROVE  ~Stopped /\ UNCHANGED stopping
      BY <2>1, Zenon DEF Enqueue
    <2>2. ASSUME NEW r, NEW h, NEW priority, NEW bytes, Join(r, h, priority, bytes)
          PROVE  ~Stopped /\ UNCHANGED stopping
      BY <2>2, Zenon DEF Join
    <2>3. ASSUME NEW r, NEW h, NEW block, NEW bytes,
                 HandoffAuthenticatedTip(r, h, block, bytes)
          PROVE  ~Stopped /\ UNCHANGED stopping
      BY <2>3, Zenon DEF HandoffAuthenticatedTip
    <2> QED BY <2>1, <2>2, <2>3, ZenonT(30) DEF Submit
  <1>2. ASSUME NEW w, WorkerStep(w) PROVE UNCHANGED stopping
    BY <1>2, Zenon DEF WorkerStep, Scan, FinishExpired, Take, Start, Acquire, Replay,
                       Trusted, Park, Recheck, Complete
  <1>3. ASSUME NEW hs, CancelIf(hs) PROVE UNCHANGED stopping
    BY <1>3, Zenon DEF CancelIf
  <1>4. ASSUME NEW p, LifecycleCancels(p) PROVE UNCHANGED stopping
    BY <1>4, Zenon DEF LifecycleCancels
  <1>5. ASSUME NEW w, SchedulerPreempts(w) PROVE UNCHANGED stopping
    BY <1>5, Zenon DEF SchedulerPreempts
  <1>6. ASSUME NEW h, AttestationStep(h) PROVE UNCHANGED stopping
    BY <1>6, Zenon DEF AttestationStep, MmAttest, WakeParked,
       SubmitMatMulAttestations
  <1> QED BY <1>1, <1>2, <1>3, <1>4, <1>5, <1>6, ZenonT(30) DEF Next

(* A job somebody refers to is still referred to, or is destroyed. *)
LEMMA KeptStep ==
    ASSUME Inv, ThreadsOK, PoolOK, Next, NEW p \in Request, Kept(p)
    PROVE  Kept(p)' \/ job'[p] = NoJob
  <1>1. CASE p \in Registered
    <2>1. PICK k \in Hash : p = m_pending[k] /\ p # None
      BY <1>1, Zenon DEF Registered
    <2>2. m_pending'[k] = p \/ Followed(p)
      BY <2>1, NextRegistered, Zenon DEF RegisteredKept
    <2>3. m_pending'[k] = p => p \in Registered'
      BY <2>1, Zenon DEF Registered
    <2> QED BY <2>2, <2>3, Zenon DEF Followed, Kept
  <1>2. CASE p \in orphaned
    <2>1. CASE UNCHANGED stopping
      BY <1>2, <2>1, Zenon DEF Kept, stopping
    <2>2. CASE Stop
      BY <1>2, <2>2, Zenon DEF Stop, PoolOK, Stopped
    <2>3. CASE StopJoined
      <3>1. job' = Destroy(orphaned)
        BY <2>3, Zenon DEF StopJoined
      <3> QED BY <1>2, <3>1, Zenon DEF Destroy
    <2> QED BY <2>1, <2>2, <2>3, NextStopping, ZenonT(30)
  <1>3. CASE \E v \in Worker : p \in worker[v].expired
    BY <1>3, NextThreads, Zenon DEF ThreadsKept, ExpiredKept, Kept
  <1> QED BY <1>1, <1>2, <1>3, Zenon DEF Kept

(* The answers owed follow the jobs, and the jobs are followed.  new is    *)
(* the request handed in, and q the job it leads or joins.                 *)
LEMMA AccountedSubmit ==
    ASSUME Inv, ThreadsOK, PoolOK, Accounted, Next,
           NEW new \in Request, NEW q \in Request, NEW h \in Hash,
           JobsLessened(Request \ {q}),
           \A r \in Request : r # new /\ req'[r] = "owed" => req[r] = "owed",
           job[q].hash # None => Owners(q) \subseteq Owners(q)' /\ Kept(q),
           new \in Owners(q)', job'[q].hash = h, m_pending'[h] = q
    PROVE  Accounted'
  <1>1. h # None /\ q # None
    BY Zenon
  <1>2. ASSUME NEW r \in Request, req'[r] = "owed"
        PROVE  \E p \in Request : r \in Owners(p)' /\ job'[p].hash # None
    <2>1. CASE r = new
      BY <1>1, <2>1, Zenon
    <2>2. CASE r # new
      <3>1. req[r] = "owed"
        BY <1>2, <2>2, Zenon
      <3>2. PICK p \in Request : r \in Owners(p) /\ job[p].hash # None
        BY <3>1, Zenon DEF Accounted, Owed
      <3>3. CASE p = q
        BY <1>1, <3>2, <3>3, ZenonT(30)
      <3>4. CASE p # q
        <4>1. Lessened(job[p], job'[p])
          BY <1>2, <3>2, <3>4, ZenonT(30) DEF JobsLessened, Released
        <4> QED BY <3>2, <4>1, Zenon DEF Lessened, Owners
      <3> QED BY <3>3, <3>4, Zenon
    <2> QED BY <2>1, <2>2, Zenon
  <1>3. ASSUME NEW p \in Request, job'[p].hash # None
        PROVE  Kept(p)'
    <2>1. CASE p = q
      <3>1. q \in Registered'
        BY <1>1, Zenon DEF Registered
      <3> QED BY <2>1, <3>1, Zenon DEF Kept
    <2>2. CASE p # q
      <3>1. job'[p] # NoJob
        BY <1>3, NoJobFacts, Zenon
      <3>2. Lessened(job[p], job'[p])
        BY <2>2, <3>1, Zenon DEF JobsLessened, Released
      <3>3. Kept(p)
        BY <1>3, <3>2, Zenon DEF Lessened, Accounted
      <3> QED BY <3>1, <3>3, KeptStep, ZenonT(30)
    <2> QED BY <2>1, <2>2, Zenon
  <1> QED BY <1>2, <1>3, Zenon DEF Accounted, Owed

(* Every step accounts for the answers owed. *)
LEMMA AccountedStep ==
    ASSUME Inv, ParkedUnpaid, ThreadsOK, PoolOK, Accounted, Next
    PROVE  Accounted'
  <1>1. CASE ~Submit
    <2>1. JobsLessened(Request) /\ NoneOwed
      BY <1>1, StepLessens, StepOwes, ZenonT(30)
    <2>2. ASSUME NEW r \in Request, req'[r] = "owed"
          PROVE  \E p \in Request : r \in Owners(p)' /\ job'[p].hash # None
      <3>1. PICK p \in Request : r \in Owners(p) /\ job[p].hash # None
        BY <2>1, <2>2, Zenon DEF NoneOwed, Accounted, Owed
      <3>2. Lessened(job[p], job'[p])
        BY <2>1, <2>2, <3>1, ZenonT(30) DEF JobsLessened, Released
      <3> QED BY <3>1, <3>2, Zenon DEF Lessened, Owners
    <2>3. ASSUME NEW p \in Request, job'[p].hash # None
          PROVE  Kept(p)'
      <3>1. job'[p] # NoJob
        BY <2>3, NoJobFacts, Zenon
      <3>2. Lessened(job[p], job'[p])
        BY <2>1, <3>1, Zenon DEF JobsLessened, Released
      <3>3. Kept(p)
        BY <2>3, <3>2, Zenon DEF Lessened, Accounted
      <3> QED BY <3>1, <3>3, KeptStep, ZenonT(30)
    <2> QED BY <2>2, <2>3, Zenon DEF Accounted, Owed
  <1>2. \A r \in Request : r = m_next_sequence => job[r].hash = None
    BY Fresh, Zenon
  <1>3. req \in [Request -> Answers] /\ m_pending \in [Hash -> Request \cup {None}]
    BY Zenon DEF Inv, Types
  <1>4. ASSUME NEW r \in Request, NEW h \in Hash, NEW block \in BOOLEAN,
               NEW priority, NEW bytes, NEW cancelled,
               Enqueue(r, h, block, priority, bytes, cancelled)
        PROVE  Accounted'
    <2>1. /\ r = m_next_sequence /\ JobsLessened(Request \ {r})
          /\ job'[r].hash = h
      BY <1>4, EnqueueJobs, ZenonT(30)
    <2>2. req' = [req EXCEPT ![r] = "owed"] /\ m_pending' = [m_pending EXCEPT ![h] = r]
      BY <1>4, Zenon DEF Enqueue
    <2>3. \A s \in Request : s # r /\ req'[s] = "owed" => req[s] = "owed"
      BY <1>3, <2>2, Zenon
    <2>4. m_pending'[h] = r
      BY <1>3, <2>2, Zenon
    <2>5. r \in Owners(r)'
      BY Zenon DEF Owners
    <2> QED BY <1>2, <2>1, <2>3, <2>4, <2>5, AccountedSubmit, ZenonT(30)
  <1>5. ASSUME NEW r \in Request, NEW h \in Hash, NEW priority, NEW bytes \in Nat,
               Join(r, h, priority, bytes)
        PROVE  Accounted'
    <2>1. PICK p \in Request :
            /\ p = m_pending[h] /\ job[p].hash = h
            /\ JobsLessened(Request \ {p})
            /\ job'[p].hash = h /\ job'[p].followers = job[p].followers \cup {r}
      <3> DEFINE p == m_pending[h]
      <3>1. /\ p \in Request /\ job[p].hash = h
            /\ JobsLessened(Request \ {p})
            /\ job'[p].hash = h /\ job'[p].followers = job[p].followers \cup {r}
        BY <1>5, JoinJobs, Zenon
      <3> QED BY <3>1, Zenon
    <2>2. req' = [req EXCEPT ![r] = "owed"] /\ UNCHANGED m_pending
      BY <1>5, Zenon DEF Join
    <2>3. \A s \in Request : s # r /\ req'[s] = "owed" => req[s] = "owed"
      BY <1>3, <2>2, Zenon
    <2>4. m_pending'[h] = p
      BY <2>1, <2>2, Zenon
    <2>5. p \in Registered
      BY <2>1, Zenon DEF Registered
    <2>6. Owners(p) \subseteq Owners(p)' /\ r \in Owners(p)'
      BY <2>1, Zenon DEF Owners
    <2>7. Kept(p)
      BY <2>5, Zenon DEF Kept
    <2> QED BY <2>1, <2>3, <2>4, <2>6, <2>7, AccountedSubmit, ZenonT(30)
  <1>6. ASSUME NEW r \in Request, NEW h \in Hash, NEW block, NEW bytes,
               HandoffAuthenticatedTip(r, h, block, bytes)
        PROVE  Accounted'
    <2>1. /\ r = m_next_sequence /\ JobsLessened(Request \ {r})
          /\ job'[r].hash = h
      BY <1>6, HandoffJobs, Zenon
    <2>2. \A s \in Request : s # r /\ req'[s] = "owed" => req[s] = "owed"
      BY <1>6, HandoffJobs, Zenon
    <2>3. PICK gone : m_pending' = [k \in Hash |->
                                     IF k = h THEN r
                                     ELSE IF m_pending[k] \in gone THEN None
                                     ELSE m_pending[k]]
      BY <1>6, Zenon DEF HandoffAuthenticatedTip
    <2>4. m_pending'[h] = r
      BY <2>3, Zenon
    <2>5. r \in Owners(r)' /\ job[r].hash = None
      BY <1>2, <2>1, Zenon DEF Owners
    <2> QED BY <2>1, <2>2, <2>4, <2>5, AccountedSubmit, ZenonT(30)
  <1>7. CASE Submit
    <2>1. Sizes \subseteq Nat /\ TRUE \in BOOLEAN /\ FALSE \in BOOLEAN
      BY Zenon
    <2> QED BY <1>4, <1>5, <1>6, <1>7, <2>1, ZenonT(30) DEF Submit
  <1> QED BY <1>1, <1>7, Zenon

(* Nothing is left when the threads of a node that replays have been       *)
(* joined, but what Stop took: their jobs are all handed back.             *)
LEMMA JoinedLeavesOrphans ==
    ASSUME Inv, ThreadsOK, PoolOK, ~mirror, StopJoined, NEW p \in Request, Kept(p)
    PROVE  p \in orphaned
  <1>1. Stopped /\ \A w \in Worker : worker[w].pc \in {"none", "exit"}
    BY Zenon DEF StopJoined, Stopped
  <1>2. m_queue = {} /\ m_awaiting_quorum = {}
    BY <1>1, Zenon DEF PoolOK
  <1>3. \A w \in Worker : worker[w].pc \notin Busy /\ worker[w].expired = {}
    BY <1>1, Zenon DEF ThreadsOK, Busy
  <1>4. \A h \in Hash : m_pending[h] = None
    BY <1>2, <1>3, ZenonT(30) DEF Inv, Placed
  <1>5. p \notin Registered
    BY <1>4, Zenon DEF Registered
  <1> QED BY <1>3, <1>5, Zenon DEF Kept

(* Nobody waits once Stop has returned. *)
LEMMA StoppedStep ==
    ASSUME Inv, ThreadsOK, PoolOK, Accounted, StoppedReplayerAnswersAll, Next
    PROVE  StoppedReplayerAnswersAll'
  <1>1. UNCHANGED mirror
    BY NextThreads, Zenon DEF ThreadsKept
  <1>2. CASE StopJoined
    <2> SUFFICES ASSUME ~mirror, NEW r \in Request, req'[r] = "owed" PROVE FALSE
      BY <1>1, Zenon DEF StoppedReplayerAnswersAll, Owed
    <2>1. req' = Answer(orphaned, "retryable")
      BY <1>2, Zenon DEF StopJoined
    <2>2. req[r] = "owed" /\ \A p \in orphaned : r \notin Owners(p)
      BY <2>1, Zenon DEF Answer
    <2>3. PICK p \in Request : r \in Owners(p) /\ Kept(p)
      BY <2>2, Zenon DEF Accounted, Owed
    <2> QED BY <1>2, <2>2, <2>3, JoinedLeavesOrphans, ZenonT(30)
  <1>3. CASE Stop
    BY <1>3, Zenon DEF Stop, StoppedReplayerAnswersAll
  <1>4. CASE UNCHANGED stopping
    <2>1. CASE m_stopped = "done"
      <3>1. ~Submit
        BY <2>1, NextStopping, Zenon DEF Stopped
      <3>2. NoneOwed
        BY <3>1, StepOwes, Zenon
      <3> QED BY <1>1, <2>1, <3>2, ZenonT(30) DEF NoneOwed, StoppedReplayerAnswersAll, Owed
    <2>2. CASE m_stopped # "done"
      BY <1>4, <2>2, Zenon DEF StoppedReplayerAnswersAll, stopping
    <2> QED BY <2>1, <2>2, Zenon
  <1> QED BY <1>2, <1>3, <1>4, NextStopping, ZenonT(30)

(* Every caller who is owed an answer has a live job, and no job is lost:  *)
(* it is registered, with a thread that expires it, or with Stop.          *)
THEOREM AnswersAccountedFor == Spec => [](ThreadsOK /\ PoolOK /\ Accounted)
  <1>1. Init => ThreadsOK /\ PoolOK /\ Accounted
    <2> SUFFICES ASSUME Init PROVE ThreadsOK /\ PoolOK /\ Accounted
      BY Zenon
    <2>1. ThreadsOK
      BY Zenon DEF Init, ThreadsOK, At
    <2>2. PoolOK
      BY Zenon DEF Init, PoolOK, Stopped
    <2>3. Accounted
      BY NoJobFacts, Zenon DEF Init, Accounted, Owed
    <2> QED BY <2>1, <2>2, <2>3, ZenonT(30)
  <1>2. ThreadsOK /\ PoolOK /\ Accounted /\ UNCHANGED vars
          => (ThreadsOK /\ PoolOK /\ Accounted)'
    <2> SUFFICES ASSUME ThreadsOK, PoolOK, Accounted, UNCHANGED vars
                 PROVE  (ThreadsOK /\ PoolOK /\ Accounted)'
      BY Zenon
    <2>1. ThreadsOK'
      BY Zenon DEF ThreadsOK, vars
    <2>2. PoolOK'
      BY Zenon DEF PoolOK, Stopped, vars, pool, stopping
    <2>3. Accounted'
      BY Zenon DEF Accounted, Owed, Owners, Kept, Registered, vars, callers, pool, stopping
    <2> QED BY <2>1, <2>2, <2>3, ZenonT(30)
  <1>3. Inv /\ ParkedUnpaid /\ ThreadsOK /\ PoolOK /\ Accounted /\ Next
          => (ThreadsOK /\ PoolOK /\ Accounted)'
    BY NextThreads, NextPool, AccountedStep, ZenonT(30) DEF ThreadsKept
  <1> QED BY <1>1, <1>2, <1>3, InvariantHolds, PTL DEF Spec

(* When Stop has returned on a node that replays, every caller has been    *)
(* told: by the thread that ran the job, or by Stop after the joins.       *)
THEOREM StopAnswersAll == Spec => []StoppedReplayerAnswersAll
  <1>1. Init => StoppedReplayerAnswersAll
    BY Zenon DEF Init, StoppedReplayerAnswersAll
  <1>2. StoppedReplayerAnswersAll /\ UNCHANGED vars => StoppedReplayerAnswersAll'
    BY DEF StoppedReplayerAnswersAll, Owed, vars, callers, stopping
  <1>3. Inv /\ ThreadsOK /\ PoolOK /\ Accounted /\ StoppedReplayerAnswersAll /\ Next
          => StoppedReplayerAnswersAll'
    BY StoppedStep, Zenon
  <1> QED BY <1>1, <1>2, <1>3, InvariantHolds, AnswersAccountedFor, PTL DEF Spec
-----------------------------------------------------------------------------
(* Cut replays.                                                            *)

(* A thread that saw the stop flag saw it raised, and a replay that        *)
(* refused a valid block without a failure is a coupled one, cut by a      *)
(* latch it was exposed to.                                                *)
CutsOK ==
    \A w \in Worker :
        LET l == worker[w]
        IN  /\ l.shutting_down => Stopped
            /\ l.pc = "complete" /\ l.failure = "none" /\ ~l.ok /\ l.hash \in Valid
               => /\ Coupled(l.hash) /\ job[l.pending].cancelled
                  /\ l.protect_body_replay => l.shutting_down

(* A thread reaches complete by a replay, or with a positive verdict, and  *)
(* copies the stop flag.                                                   *)
Reaches(w) ==
    \/ worker'[w] = worker[w]
    \/ \E missing \in BOOLEAN : Replay(w, missing)
    \/ /\ worker'[w].pc = "complete" => worker'[w].ok
       /\ worker'[w].shutting_down => worker[w].shutting_down \/ Stopped

(* Every step moves the threads like that. *)
LEMMA NextReaches ==
    ASSUME Inv, Next, NEW v \in Worker
    PROVE  Reaches(v)
  <1>1. worker \in [Worker -> Local]
    BY Zenon DEF Inv, Types
  <1>2. ASSUME UNCHANGED worker PROVE Reaches(v)
    BY <1>2, Zenon DEF Reaches
  <1>3. ASSUME NEW w \in Worker, NEW l, worker' = [worker EXCEPT ![w] = l],
               l.pc = "complete" => l.ok,
               l.shutting_down => worker[w].shutting_down \/ Stopped
        PROVE  Reaches(v)
    <2>1. v # w => worker'[v] = worker[v]
      BY <1>1, <1>3, Zenon
    <2>2. worker'[w] = l
      BY <1>1, <1>3, Zenon
    <2> QED BY <1>3, <2>1, <2>2, Zenon DEF Reaches
  <1>4. ASSUME NEW w \in Worker, worker' = [worker EXCEPT ![w] = At("loop")]
        PROVE  Reaches(v)
    <2>1. At("loop").pc # "complete" /\ ~At("loop").shutting_down
      BY Zenon DEF At
    <2> QED BY <1>3, <1>4, <2>1, Zenon
  <1>5. ASSUME NEW w \in Worker, NEW pc, pc # "complete", Goto(w, pc)
        PROVE  Reaches(v)
    <2> DEFINE l == [worker[w] EXCEPT !.pc = pc]
    <2>1. worker' = [worker EXCEPT ![w] = l]
      BY <1>1, <1>5, Zenon DEF Goto
    <2>2. l.pc # "complete" /\ l.shutting_down = worker[w].shutting_down
      BY <1>1, <1>5, Zenon DEF Local
    <2> HIDE DEF l
    <2> QED BY <1>3, <2>1, <2>2, Zenon
  <1>6. ASSUME NEW w \in Worker, FinishRetryable(w) PROVE Reaches(v)
    BY <1>4, <1>6, Zenon DEF FinishRetryable
  <1>7. ASSUME NEW w \in Worker, WorkerStep(w) PROVE Reaches(v)
    <2>1. ASSUME NEW late, Scan(w, late) PROVE Reaches(v)
      <3>1. CASE TakeExpired(w, late)
        <4> DEFINE ps == {m_pending[h] : h \in Expired(late)}
                   l == [worker[w] EXCEPT !.pc = "expire", !.expired = ps]
        <4>1. worker' = [worker EXCEPT ![w] = l]
          BY <1>1, <3>1, Zenon DEF TakeExpired
        <4>2. l.pc # "complete" /\ l.shutting_down = worker[w].shutting_down
          BY <1>1, Zenon DEF Local
        <4> HIDE DEF l
        <4> QED BY <1>3, <4>1, <4>2, Zenon
      <3>2. CASE Goto(w, IF Stopped THEN "exit" ELSE "take")
        <4>1. (IF Stopped THEN "exit" ELSE "take") # "complete"
          BY Zenon
        <4> QED BY <1>5, <3>2, <4>1, Zenon
      <3> QED BY <2>1, <3>1, <3>2, Zenon DEF Scan
    <2>2. CASE FinishExpired(w)
      <3> DEFINE pc(p) == IF worker[w].expired # {p} THEN "expire"
                          ELSE IF Stopped THEN "exit" ELSE "loop"
      <3>1. PICK p \in worker[w].expired :
              worker' = [worker EXCEPT ![w].expired = @ \ {p}, ![w].pc = pc(p)]
        BY <2>2, Zenon DEF FinishExpired
      <3>2. pc(p) # "complete"
        BY Zenon
      <3> HIDE DEF pc
      <3> DEFINE l == [worker[w] EXCEPT !.expired = @ \ {p}, !.pc = pc(p)]
      <3>3. worker' = [worker EXCEPT ![w] = l]
        BY <1>1, <3>1, Zenon
      <3>4. l.pc # "complete" /\ l.shutting_down = worker[w].shutting_down
        BY <1>1, <3>2, Zenon DEF Local
      <3> HIDE DEF l
      <3> QED BY <1>3, <3>3, <3>4, Zenon
    <2>3. ASSUME NEW tip, Take(w, tip) PROVE Reaches(v)
      <3>1. CASE Goto(w, IF Stopped THEN "exit" ELSE "loop")
        <4>1. (IF Stopped THEN "exit" ELSE "loop") # "complete"
          BY Zenon
        <4> QED BY <1>5, <3>1, <4>1, Zenon
      <3>2. ASSUME NEW p,
                   worker' = [worker EXCEPT
                     ![w].pc = "start", ![w].pending = p,
                     ![w].hash = job[p].hash,
                     ![w].tip_extending = TipExtending(job[p].hash, tip)]
            PROVE  Reaches(v)
        <4> DEFINE l == [worker[w] EXCEPT !.pc = "start", !.pending = p,
                           !.hash = job[p].hash,
                           !.tip_extending = TipExtending(job[p].hash, tip)]
        <4>1. worker' = [worker EXCEPT ![w] = l]
          BY <1>1, <3>2, Zenon
        <4>2. l.pc # "complete" /\ l.shutting_down = worker[w].shutting_down
          BY <1>1, Zenon DEF Local
        <4> HIDE DEF l
        <4> QED BY <1>3, <4>1, <4>2, Zenon
      <3> QED BY <2>3, <3>1, <3>2, Zenon DEF Take
    <2>4. CASE Start(w)
      <3> DEFINE pc == IF TrustedExactReplay(worker[w].hash) THEN "trusted"
                       ELSE "acquire"
                 t == worker[w].tip_extending /\ TrustedExactReplay(worker[w].hash)
                 b == ProtectsBodyReplay(worker[w].pending)
                 l == [worker[w] EXCEPT !.pc = pc, !.tip_extending = t,
                                        !.shutting_down = Stopped,
                                        !.protect_body_replay = b]
      <3>1. pc # "complete"
        BY Zenon
      <3> HIDE DEF pc, t, b
      <3>2. l.pc = pc /\ l.shutting_down = Stopped
        BY <1>1, Zenon DEF Local
      <3>3. CASE worker' = [worker EXCEPT ![w] = l]
        <4> HIDE DEF l
        <4> QED BY <1>3, <3>1, <3>2, <3>3, Zenon
      <3>4. FinishRetryable(w) \/ worker' = [worker EXCEPT ![w] = l]
        BY <1>1, <2>4, Zenon DEF Start, pc, t, b
      <3> QED BY <1>6, <3>3, <3>4, Zenon
    <2>5. ASSUME NEW granted, Acquire(w, granted) PROVE Reaches(v)
      <3>1. "replay" # "complete"
        BY Zenon
      <3> QED BY <1>5, <1>6, <2>5, <3>1, Zenon DEF Acquire
    <2>6. ASSUME NEW missing \in BOOLEAN, Replay(w, missing) PROVE Reaches(v)
      <3>1. v # w => worker'[v] = worker[v]
        BY <1>1, <2>6, Zenon DEF Replay
      <3> QED BY <2>6, <3>1, Zenon DEF Reaches
    <2>7. ASSUME NEW above, Trusted(w, above) PROVE Reaches(v)
      <3> DEFINE l == [worker[w] EXCEPT !.pc = "complete", !.tip_extending = FALSE,
                                        !.ok = TRUE]
                 m == [worker[w] EXCEPT !.pc = "park", !.tip_extending = FALSE]
      <3>1. l.ok /\ l.shutting_down = worker[w].shutting_down
        BY <1>1, Zenon DEF Local
      <3>2. m.pc # "complete" /\ m.shutting_down = worker[w].shutting_down
        BY <1>1, Zenon DEF Local
      <3>3. \/ FinishRetryable(w)
            \/ worker' = [worker EXCEPT ![w] = l]
            \/ worker' = [worker EXCEPT ![w] = m]
        BY <1>1, <2>7, Zenon DEF Trusted
      <3> HIDE DEF l, m
      <3> QED BY <1>3, <1>6, <3>1, <3>2, <3>3, Zenon
    <2>8. CASE Park(w)
      <3>1. "recheck" # "complete"
        BY Zenon
      <3> QED BY <1>5, <1>6, <2>8, <3>1, Zenon DEF Park
    <2>9. CASE Recheck(w)
      BY <1>4, <2>9, Zenon DEF Recheck
    <2>10. CASE Complete(w)
      BY <1>4, <2>10, Zenon DEF Complete
    <2> QED BY <1>7, <2>1, <2>2, <2>3, <2>4, <2>5, <2>6, <2>7, <2>8, <2>9, <2>10,
               ZenonT(30) DEF WorkerStep
  <1>8. CASE Submit
    <2>1. ASSUME NEW queued, StartThread(queued) PROVE Reaches(v)
      BY <1>2, <1>4, <2>1, Zenon DEF StartThread
    <2>2. ASSUME NEW s, NEW h, NEW block, NEW priority, NEW bytes, NEW cancelled,
                 Enqueue(s, h, block, priority, bytes, cancelled)
          PROVE  Reaches(v)
      BY <2>1, <2>2, Zenon DEF Enqueue
    <2>3. ASSUME NEW s, NEW h, NEW priority, NEW bytes, Join(s, h, priority, bytes)
          PROVE  Reaches(v)
      BY <1>2, <2>3, Zenon DEF Join
    <2>4. ASSUME NEW s, NEW h, NEW block, NEW bytes,
                 HandoffAuthenticatedTip(s, h, block, bytes)
          PROVE  Reaches(v)
      BY <2>1, <2>4, Zenon DEF HandoffAuthenticatedTip
    <2> QED BY <1>8, <2>2, <2>3, <2>4, ZenonT(30) DEF Submit
  <1>9. ASSUME NEW hs, CancelIf(hs) PROVE Reaches(v)
    BY <1>2, <1>9, Zenon DEF CancelIf
  <1>10. ASSUME NEW p, LifecycleCancels(p) PROVE Reaches(v)
    BY <1>2, <1>10, Zenon DEF LifecycleCancels
  <1>11. ASSUME NEW w, SchedulerPreempts(w) PROVE Reaches(v)
    BY <1>2, <1>11, Zenon DEF SchedulerPreempts
  <1>12. ASSUME NEW h, AttestationStep(h) PROVE Reaches(v)
    BY <1>2, <1>12, Zenon DEF AttestationStep, MmAttest, WakeParked,
       SubmitMatMulAttestations
  <1>13. CASE Stop \/ StopJoined
    BY <1>2, <1>13, Zenon DEF Stop, StopJoined
  <1> QED BY <1>7, <1>8, <1>9, <1>10, <1>11, <1>12, <1>13, ZenonT(30) DEF Next

(* A step raises latches, or destroys the job. *)
LatchKept(p) == job'[p] = NoJob \/ (job[p].cancelled => job'[p].cancelled)

(* Nobody joins a cancelled job, and nobody replaces it. *)
LEMMA NextLatches ==
    ASSUME Inv, ParkedUnpaid, Next, NEW p \in Request, job[p].hash # None
    PROVE  LatchKept(p)
  <1>1. p # m_next_sequence
    BY DEF Inv, Types, OwnersOK
  <1>2. ASSUME NEW S, p \in S, JobsLessened(S) PROVE LatchKept(p)
    BY <1>2, Zenon DEF LatchKept, JobsLessened, Released, Lessened
  <1>3. CASE ~Submit
    BY <1>2, <1>3, StepLessens, Zenon
  <1>4. ASSUME NEW r \in Request, NEW h \in Hash, NEW block \in BOOLEAN,
               NEW priority, NEW bytes, NEW cancelled,
               Enqueue(r, h, block, priority, bytes, cancelled)
        PROVE  LatchKept(p)
    <2>1. r = m_next_sequence /\ JobsLessened(Request \ {r})
      BY <1>4, EnqueueJobs, ZenonT(30)
    <2> QED BY <1>1, <1>2, <2>1, Zenon
  <1>5. ASSUME NEW r \in Request, NEW h \in Hash, NEW priority, NEW bytes,
               Join(r, h, priority, bytes)
        PROVE  LatchKept(p)
    <2>1. CASE m_pending[h] = p
      BY <1>5, <2>1, Zenon DEF Join, LatchKept
    <2>2. CASE m_pending[h] # p
      BY <1>5, <2>2, Zenon DEF Join, Inv, Types, LatchKept
    <2> QED BY <2>1, <2>2, Zenon
  <1>6. ASSUME NEW r \in Request, NEW h \in Hash, NEW block, NEW bytes,
               HandoffAuthenticatedTip(r, h, block, bytes)
        PROVE  LatchKept(p)
    <2>1. r = m_next_sequence /\ JobsLessened(Request \ {r})
      BY <1>6, HandoffJobs, Zenon
    <2> QED BY <1>1, <1>2, <2>1, Zenon
  <1>7. CASE Submit
    <2>1. TRUE \in BOOLEAN /\ FALSE \in BOOLEAN
      BY Zenon
    <2> QED BY <1>4, <1>5, <1>6, <1>7, <2>1, Zenon DEF Submit
  <1> QED BY <1>3, <1>7, Zenon

(* The latch of a job that a thread holds before and after a step stays    *)
(* raised.                                                                 *)
LEMMA LatchStays ==
    ASSUME Inv, Inv', ParkedUnpaid, Next, NEW w \in Worker,
           worker[w].pc \in Busy, worker'[w].pc \in Busy,
           worker'[w].pending = worker[w].pending,
           job[worker[w].pending].cancelled
    PROVE  job'[worker[w].pending].cancelled
  <1>1. PICK p \in Request : p = worker[w].pending
    BY HeldJob, Zenon
  <1>2. job[p].hash # None
    BY <1>1, HeldJob, Zenon
  <1>3. job'[p].running /\ ~NoJob.running
    BY <1>1, Zenon DEF Inv, HeldOK, NoJob
  <1>4. LatchKept(p)
    BY <1>2, NextLatches, Zenon
  <1> QED BY <1>1, <1>3, <1>4, Zenon DEF LatchKept

(* What a replay leaves to its thread. *)
LEMMA ReplayCuts ==
    ASSUME Inv, NEW w \in Worker, NEW missing, Replay(w, missing)
    PROVE  LET p == worker[w].pending
               l == worker'[w]
           IN  /\ l.pc = "complete" /\ l.pending = p /\ l.hash = worker[w].hash
               /\ l.protect_body_replay = worker[w].protect_body_replay
               /\ l.shutting_down = worker[w].shutting_down
               /\ UNCHANGED <<job, nMatMulRCCoupledHeight, m_stopped>>
               /\ l.failure = "none" /\ ~l.ok /\ l.hash \in Valid
                  => /\ Coupled(l.hash) /\ job[p].cancelled
                     /\ l.protect_body_replay => l.shutting_down
               /\ \A h \in Hash :
                    memo'[h] = "invalid" /\ memo[h] # "invalid"
                    => /\ h = worker[w].hash /\ l.failure = "none" /\ ~l.ok
                       /\ job[p].cancelled =>
                            job[p].body_joined /\ ~worker[w].shutting_down
  <1> DEFINE p == worker[w].pending
  <1>1. worker[w].pc \in Busy
    BY Zenon DEF Replay, Busy
  <1>2. job[p].hash = worker[w].hash /\ worker[w].hash \in Hash
    BY <1>1, HeldJob, Zenon
  <1>3. /\ worker \in [Worker -> Local] /\ worker[w] \in Local
        /\ memo \in [Hash -> {"none", "valid", "invalid"}]
    BY Zenon DEF Inv, Types
  <1> DEFINE suppress(out) == \/ out.failure # "none"
                              \/ /\ job[p].cancelled
                                 /\ \/ ~ProtectsBodyReplay(p)
                                    \/ worker[w].shutting_down
             new(out) == IF out.ok THEN "valid" ELSE "invalid"
  <1>4. PICK out \in Outcomes(w) :
          /\ worker' = [worker EXCEPT ![w].pc = "complete", ![w].ok = out.ok,
                                      ![w].failure = out.failure]
          /\ memo' = IF suppress(out) \/ (missing /\ ~out.ok)
                     THEN memo
                     ELSE [memo EXCEPT ![job[p].hash] = new(out)]
    BY Zenon DEF Replay
  <1> DEFINE good == job[p].hash \in Valid
  <1>5. \/ out = [ok |-> good, failure |-> "none"]
        \/ out = [ok |-> FALSE, failure |-> "device"]
        \/ out = [ok |-> FALSE, failure |-> "cancelled"]
        \/ /\ out = [ok |-> FALSE, failure |-> "none"]
           /\ Coupled(worker[w].hash) /\ job[p].cancelled /\ LatchExposed(w)
    BY <1>2, Zenon DEF Outcomes
  <1>6. out.failure = "none" /\ ~out.ok /\ worker[w].hash \in Valid
        => Coupled(worker[w].hash) /\ job[p].cancelled /\ LatchExposed(w)
    <2>1. CASE out = [ok |-> good, failure |-> "none"]
      BY <1>2, <2>1, Zenon
    <2>2. CASE out = [ok |-> FALSE, failure |-> "device"]
      BY <2>2, Zenon
    <2>3. CASE out = [ok |-> FALSE, failure |-> "cancelled"]
      BY <2>3, Zenon
    <2> QED BY <1>5, <2>1, <2>2, <2>3, Zenon
  <1>7. /\ worker'[w].pc = "complete" /\ worker'[w].pending = p
        /\ worker'[w].hash = worker[w].hash
        /\ worker'[w].ok = out.ok /\ worker'[w].failure = out.failure
        /\ worker'[w].protect_body_replay = worker[w].protect_body_replay
        /\ worker'[w].shutting_down = worker[w].shutting_down
    BY <1>3, <1>4, Zenon DEF Local
  <1>8. UNCHANGED <<job, nMatMulRCCoupledHeight, m_stopped>>
    BY Zenon DEF Replay, callers, config, stopping
  <1>9. ASSUME NEW h \in Hash, memo'[h] = "invalid", memo[h] # "invalid"
        PROVE  /\ h = worker[w].hash /\ out.failure = "none" /\ ~out.ok
               /\ job[p].cancelled => job[p].body_joined /\ ~worker[w].shutting_down
    <2>1. /\ ~suppress(out)
          /\ memo' = [memo EXCEPT ![job[p].hash] = new(out)]
      BY <1>4, <1>9, Zenon
    <2>2. h = worker[w].hash /\ new(out) = "invalid"
      BY <1>2, <1>3, <1>9, <2>1, Zenon
    <2> QED BY <2>1, <2>2, Zenon DEF ProtectsBodyReplay
  <1> HIDE DEF p
  <1> QED BY <1>6, <1>7, <1>8, <1>9, Zenon DEF LatchExposed, p

(* Handing a request in touches neither the configuration nor the memo. *)
LEMMA SubmitLeaves ==
    ASSUME Submit PROVE UNCHANGED <<config, memo>>
  <1>1. ASSUME NEW r, NEW h, NEW block, NEW priority, NEW bytes, NEW cancelled,
               Enqueue(r, h, block, priority, bytes, cancelled)
        PROVE  UNCHANGED <<config, memo>>
    BY <1>1, Zenon DEF Enqueue
  <1>2. ASSUME NEW r, NEW h, NEW priority, NEW bytes, Join(r, h, priority, bytes)
        PROVE  UNCHANGED <<config, memo>>
    BY <1>2, Zenon DEF Join
  <1>3. ASSUME NEW r, NEW h, NEW block, NEW bytes,
               HandoffAuthenticatedTip(r, h, block, bytes)
        PROVE  UNCHANGED <<config, memo>>
    BY <1>3, Zenon DEF HandoffAuthenticatedTip
  <1> QED BY <1>1, <1>2, <1>3, ZenonT(30) DEF Submit

(* The configuration is read, never written. *)
LEMMA NextConfig ==
    ASSUME Next PROVE UNCHANGED config
  <1>1. ASSUME NEW w, WorkerStep(w) PROVE UNCHANGED config
    BY <1>1, Zenon DEF WorkerStep, Scan, FinishExpired, Take, Start, Acquire, Replay,
                       Trusted, Park, Recheck, Complete
  <1>2. CASE Submit
    BY <1>2, SubmitLeaves, Zenon
  <1>3. ASSUME NEW hs, CancelIf(hs) PROVE UNCHANGED config
    BY <1>3, Zenon DEF CancelIf
  <1>4. ASSUME NEW p, LifecycleCancels(p) PROVE UNCHANGED config
    BY <1>4, Zenon DEF LifecycleCancels
  <1>5. ASSUME NEW w, SchedulerPreempts(w) PROVE UNCHANGED config
    BY <1>5, Zenon DEF SchedulerPreempts
  <1>6. ASSUME NEW h, AttestationStep(h) PROVE UNCHANGED config
    BY <1>6, Zenon DEF AttestationStep, MmAttest, WakeParked,
       SubmitMatMulAttestations
  <1>7. CASE Stop \/ StopJoined
    BY <1>7, Zenon DEF Stop, StopJoined
  <1> QED BY <1>1, <1>2, <1>3, <1>4, <1>5, <1>6, <1>7, ZenonT(30) DEF Next

(* Every step keeps what is known of cut replays. *)
LEMMA CutsStep ==
    ASSUME Inv, Inv', ParkedUnpaid, CutsOK, Next
    PROVE  CutsOK'
  <1>1. Stopped => Stopped'
    BY NextStopping, Zenon DEF Stopped, stopping, Stop, StopJoined
  <1>2. nMatMulRCCoupledHeight' = nMatMulRCCoupledHeight
    BY NextConfig, Zenon DEF config
  <1> SUFFICES ASSUME NEW v \in Worker
               PROVE  LET l == worker'[v]
                      IN  /\ l.shutting_down => Stopped'
                          /\ l.pc = "complete" /\ l.failure = "none" /\ ~l.ok
                             /\ l.hash \in Valid
                             => /\ Coupled(l.hash) /\ job'[l.pending].cancelled
                                /\ l.protect_body_replay => l.shutting_down
    BY <1>2, Zenon DEF CutsOK, Coupled
  <1>3. CASE worker'[v] = worker[v]
    <2>1. worker[v].shutting_down => Stopped'
      BY <1>1, Zenon DEF CutsOK
    <2> SUFFICES ASSUME worker[v].pc = "complete", worker[v].failure = "none",
                        ~worker[v].ok, worker[v].hash \in Valid
                 PROVE  /\ Coupled(worker[v].hash)
                        /\ job'[worker[v].pending].cancelled
                        /\ worker[v].protect_body_replay => worker[v].shutting_down
      BY <1>3, <2>1, Zenon
    <2>2. worker[v].pc \in Busy /\ worker'[v].pc \in Busy
      BY <1>3, Zenon DEF Busy
    <2>3. /\ Coupled(worker[v].hash) /\ job[worker[v].pending].cancelled
          /\ worker[v].protect_body_replay => worker[v].shutting_down
      BY Zenon DEF CutsOK
    <2>4. worker'[v].pending = worker[v].pending
      BY <1>3, Zenon
    <2>5. job'[worker[v].pending].cancelled
      BY <2>2, <2>3, <2>4, LatchStays, Zenon
    <2> QED BY <2>3, <2>5, Zenon
  <1>4. ASSUME NEW missing, Replay(v, missing)
        PROVE  LET l == worker'[v]
               IN  /\ l.shutting_down => Stopped'
                   /\ l.pc = "complete" /\ l.failure = "none" /\ ~l.ok
                      /\ l.hash \in Valid
                      => /\ Coupled(l.hash) /\ job'[l.pending].cancelled
                         /\ l.protect_body_replay => l.shutting_down
    <2>1. worker'[v].shutting_down => Stopped'
      BY <1>1, <1>4, ReplayCuts, Zenon DEF CutsOK
    <2> QED BY <1>4, <2>1, ReplayCuts, Zenon
  <1>5. CASE /\ worker'[v].pc = "complete" => worker'[v].ok
             /\ worker'[v].shutting_down => worker[v].shutting_down \/ Stopped
    BY <1>1, <1>5, Zenon DEF CutsOK
  <1> QED BY <1>3, <1>4, <1>5, NextReaches, Zenon DEF Reaches

(* A replay that ends in a negative verdict on a valid block has been cut. *)
THEOREM OnlyCutsAreUnsound == Spec => []CutsOK
  <1>1. Init => CutsOK
    <2> SUFFICES ASSUME Init, NEW w \in Worker
                 PROVE  ~worker[w].shutting_down /\ worker[w].pc # "complete"
      BY Zenon DEF CutsOK
    <2>1. worker[w] = At("none")
      BY Zenon DEF Init
    <2>2. At("none").pc # "complete" /\ ~At("none").shutting_down
      BY Zenon DEF At
    <2> QED BY <2>1, <2>2, Zenon
  <1>2. CutsOK /\ UNCHANGED vars => CutsOK'
    BY Zenon DEF CutsOK, Coupled, Stopped, vars, callers, config, stopping
  <1>3. Inv /\ Inv' /\ ParkedUnpaid /\ CutsOK /\ Next => CutsOK'
    BY CutsStep, Zenon
  <1> QED BY <1>1, <1>2, <1>3, InvariantHolds, PTL DEF Spec

(* Only a replay writes a negative memo. *)
LEMMA NegativeMemo ==
    ASSUME Inv, Next, NEW h \in Hash, memo'[h] = "invalid", memo[h] # "invalid"
    PROVE  \E w \in Worker : \E missing \in BOOLEAN : Replay(w, missing)
  <1>1. memo' # memo
    BY Zenon
  <1>2. ASSUME NEW w \in Worker, WorkerStep(w)
        PROVE  \E missing \in BOOLEAN : Replay(w, missing)
    <2>1. ASSUME NEW above, Trusted(w, above) PROVE FALSE
      <3>1. memo' = [memo EXCEPT ![worker[w].hash] = "valid"]
        BY <1>1, <2>1, Zenon DEF Trusted
      <3> QED BY <3>1, Zenon DEF Inv, Types
    <2> QED BY <1>1, <1>2, <2>1, ZenonT(30) DEF WorkerStep, Scan, FinishExpired, Take, Start,
               Acquire, Park, Recheck, Complete
  <1>3. ~Submit
    BY <1>1, SubmitLeaves, Zenon
  <1>4. ASSUME NEW hs, CancelIf(hs) PROVE FALSE
    BY <1>1, <1>4, Zenon DEF CancelIf
  <1>5. ASSUME NEW p, LifecycleCancels(p) PROVE FALSE
    BY <1>1, <1>5, Zenon DEF LifecycleCancels
  <1>6. ASSUME NEW w, SchedulerPreempts(w) PROVE FALSE
    BY <1>1, <1>6, Zenon DEF SchedulerPreempts
  <1>7. ASSUME NEW k, AttestationStep(k) PROVE FALSE
    BY <1>1, <1>7, Zenon DEF AttestationStep, MmAttest, WakeParked,
       SubmitMatMulAttestations
  <1>8. ~Stop /\ ~StopJoined
    BY <1>1, Zenon DEF Stop, StopJoined
  <1> QED BY <1>2, <1>3, <1>4, <1>5, <1>6, <1>7, <1>8, ZenonT(30) DEF Next

(* What makes a running node hand a replay with a body back. *)
LEMMA BodyHandedBack ==
    ASSUME Inv, CutsOK, Next, ~Stopped, NEW w \in Worker,
           worker[w].pc \in {"start", "replay", "complete"},
           job[worker[w].pending].body_joined,
           req[worker[w].pending] = "owed", req'[worker[w].pending] = "retryable"
    PROVE  \/ worker[w].failure = "device"
           \/ worker[w].failure = "cancelled" /\ ~worker[w].protect_body_replay
  <1> DEFINE p == worker[w].pending
  <1>0. worker[w].pc \in Busy
    BY Zenon DEF Busy
  <1>1. /\ p \in Request /\ job[p].hash # None /\ p # None
        /\ m_pending[worker[w].hash] = p /\ worker[w].hash \in Hash
        /\ p \in Owners(p) /\ job[p].hash = worker[w].hash
    BY <1>0, HeldJob, Zenon DEF Owners
  <1>2. ASSUME NEW q \in Request, p \in Owners(q) PROVE q = p
    <2>1. \A r \in job[q].followers : job[r].hash = None
      BY <1>2, Zenon DEF Inv, OwnersOK
    <2> QED BY <1>1, <1>2, <2>1, Zenon DEF Owners
  <1> HIDE DEF p
  <1>3. req[p] = "owed" /\ req'[p] = "retryable"
    BY Zenon DEF p
  <1>4. ASSUME NEW ps, NEW answer, req' = Answer(ps, answer)
        PROVE  answer = "retryable" /\ \E q \in ps : p \in Owners(q)
    <2>1. Answer(ps, answer)[p] = (IF \E q \in ps : p \in Owners(q)
                                   THEN answer ELSE req[p])
      BY <1>1, Zenon DEF Answer
    <2>2. Answer(ps, answer)[p] = "retryable"
      BY <1>3, <1>4, Zenon
    <2> QED BY <1>3, <2>1, <2>2, Zenon
  <1>5. ASSUME NEW v \in Worker, worker[v].pc \in Busy, p \in Owners(worker[v].pending)
        PROVE  v = w
    <2>1. worker[v].pending \in Request /\ job[worker[v].pending].hash # None
          /\ job[worker[v].pending].hash = worker[v].hash
      BY <1>5, HeldJob, Zenon
    <2>2. worker[v].pending = p
      BY <1>2, <1>5, <2>1, Zenon
    <2>3. worker[v].hash = worker[w].hash
      BY <1>1, <2>1, <2>2, Zenon
    <2> QED BY <1>0, <1>5, <2>3, Zenon DEF Inv, HeldOnce
  <1>6. req' # req
    BY <1>3, Zenon
  <1>7. ASSUME NEW v \in Worker, FinishRetryable(v), worker[v].pc \in Busy
        PROVE  v = w
    BY <1>4, <1>5, <1>7 DEF FinishRetryable
  <1>8. ASSUME NEW v \in Worker, WorkerStep(v) PROVE Complete(w)
    <2>1. ASSUME NEW late, Scan(v, late) PROVE FALSE
      BY <1>6, <2>1, Zenon DEF Scan, callers
    <2>2. CASE FinishExpired(v)
      <3>1. PICK q \in worker[v].expired : req' = Answer({q}, "retryable")
        BY <2>2, Zenon DEF FinishExpired
      <3>2. p \in Owners(q)
        BY <1>4, <3>1
      <3>3. Unregistered(q) /\ q \in Request
        BY Zenon DEF Inv, GoneOK, Types, Local
      <3>4. q = p
        BY <1>2, <3>2, <3>3, Zenon
      <3> QED BY <1>1, <3>3, <3>4, Zenon DEF Unregistered
    <2>3. ASSUME NEW tip, Take(v, tip) PROVE FALSE
      BY <1>6, <2>3, Zenon DEF Take
    <2>4. CASE Start(v)
      <3>1. FinishRetryable(v) /\ job[worker[v].pending].cancelled
            /\ ~ProtectsBodyReplay(worker[v].pending)
        BY <1>6, <2>4, Zenon DEF Start, callers
      <3>2. v = w
        BY <1>7, <2>4, <3>1, Zenon DEF Start, Busy
      <3> QED BY <3>1, <3>2, Zenon DEF ProtectsBodyReplay
    <2>5. ASSUME NEW granted, Acquire(v, granted) PROVE FALSE
      BY <1>6, <1>7, <2>5, Zenon DEF Acquire, callers, Busy
    <2>6. ASSUME NEW missing, Replay(v, missing) PROVE FALSE
      BY <1>6, <2>6, Zenon DEF Replay, callers
    <2>7. ASSUME NEW above, Trusted(v, above) PROVE FALSE
      BY <1>6, <1>7, <2>7, Zenon DEF Trusted, callers, Busy
    <2>8. CASE Park(v)
      BY <1>6, <1>7, <2>8, Zenon DEF Park, Busy
    <2>9. CASE Recheck(v)
      BY <1>6, <2>9, Zenon DEF Recheck, callers
    <2>10. CASE Complete(v)
      <3>1. PICK answer : req' = Answer({worker[v].pending}, answer)
        BY <2>10, Zenon DEF Complete
      <3>2. p \in Owners(worker[v].pending)
        BY <1>4, <3>1
      <3>3. v = w
        BY <1>5, <2>10, <3>2, Zenon DEF Complete, Busy
      <3> QED BY <2>10, <3>3, Zenon
    <2> QED BY <1>8, <2>1, <2>2, <2>3, <2>4, <2>5, <2>6, <2>7, <2>8, <2>9, <2>10,
               ZenonT(30) DEF WorkerStep
  <1>9. ASSUME Complete(w)
        PROVE  \/ worker[w].failure = "device"
               \/ worker[w].failure = "cancelled" /\ ~worker[w].protect_body_replay
    <2> DEFINE retryable == \/ worker[w].failure # "none"
                            \/ /\ job[p].cancelled
                               /\ ~ProtectsBodyReplay(p) \/ (Stopped /\ ~worker[w].ok)
               answer == IF retryable THEN "retryable"
                         ELSE IF worker[w].ok THEN "accepted" ELSE "rejected"
    <2>1. req' = Answer({p}, answer)
      BY <1>9, Zenon DEF Complete, p
    <2>2. answer = "retryable" => retryable
      BY Zenon
    <2> HIDE DEF answer
    <2>3. retryable
      BY <1>4, <2>1, <2>2, Zenon
    <2>4. worker[w].failure # "none"
      BY <2>3, Zenon DEF ProtectsBodyReplay, p
    <2>5. worker[w].failure \in {"none", "device", "cancelled"}
      BY Zenon DEF Inv, Types, Local
    <2> QED BY <2>4, <2>5, Zenon DEF Inv, LocalOK, CutsOK
  <1>10. ~StopJoined
    BY Zenon DEF StopJoined, Stopped
  <1>11. CASE Submit
    <2>1. ASSUME NEW s, NEW h, NEW block, NEW bytes,
                 HandoffAuthenticatedTip(s, h, block, bytes)
          PROVE  FALSE
      <3> DEFINE gone(q) == {q} \ {r \in Request : job[r].running}
      <3>1. PICK source \in HandoffSources(h) :
              req' = [Answer(gone(source), "dropped") EXCEPT ![s] = "owed"]
        BY <2>1, Zenon DEF HandoffAuthenticatedTip
      <3> DEFINE a == Answer(gone(source), "dropped")
      <3>2. req'[p] = "owed" \/ req'[p] = a[p]
        BY <1>1, <3>1, Zenon DEF Answer
      <3>3. a[p] = "owed" \/ a[p] = "dropped"
        BY <1>1, <1>3, AnswerFacts
      <3> HIDE DEF a
      <3> QED BY <1>3, <3>2, <3>3, Zenon
    <2>2. ASSUME NEW s, req' = [req EXCEPT ![s] = "owed"] PROVE FALSE
      BY <1>1, <1>3, <2>2, Zenon DEF Inv, Types
    <2>3. ASSUME NEW s, NEW h, NEW block, NEW priority, NEW bytes, NEW cancelled,
                 Enqueue(s, h, block, priority, bytes, cancelled)
          PROVE  FALSE
      BY <2>2, <2>3, Zenon DEF Enqueue
    <2>4. ASSUME NEW s, NEW h, NEW priority, NEW bytes, Join(s, h, priority, bytes)
          PROVE  FALSE
      BY <2>2, <2>4, Zenon DEF Join
    <2> QED BY <1>11, <2>1, <2>3, <2>4, ZenonT(30) DEF Submit
  <1>12. ASSUME NEW hs, CancelIf(hs) PROVE FALSE
    <2>1. PICK ps : req' = Answer(ps, "dropped")
      BY <1>12, Zenon DEF CancelIf
    <2> QED BY <1>4, <2>1
  <1>13. ASSUME NEW q, LifecycleCancels(q) PROVE FALSE
    BY <1>6, <1>13, Zenon DEF LifecycleCancels
  <1>14. ASSUME NEW v, SchedulerPreempts(v) PROVE FALSE
    BY <1>6, <1>14, Zenon DEF SchedulerPreempts
  <1>15. ASSUME NEW h, AttestationStep(h) PROVE FALSE
    BY <1>6, <1>15, Zenon DEF AttestationStep, MmAttest, WakeParked,
       SubmitMatMulAttestations, callers
  <1>16. ~Stop
    BY <1>6, Zenon DEF Stop
  <1> QED BY <1>8, <1>9, <1>10, <1>11, <1>12, <1>13, <1>14, <1>15, <1>16,
             ZenonT(30) DEF Next

(* While the node runs, a job that holds a body when it is answered is     *)
(* told retryable_failure only for a device failure or for a cut that came *)
(* before the body joined: never because the latch was raised later, and   *)
(* never by the thread that is about to start it.                          *)
THEOREM LatchSparesBodies == Spec => LatchSparesBody
  <1>1. ASSUME Inv, CutsOK, Next, NEW w \in Worker, NEW p \in Request,
               ~Stopped, worker[w].pending = p,
               worker[w].pc \in {"start", "replay", "complete"},
               job[p].body_joined, Owed(p), req'[p] = "retryable"
        PROVE  \/ worker[w].failure = "device"
               \/ worker[w].failure = "cancelled" /\ ~worker[w].protect_body_replay
    BY <1>1, BodyHandedBack, Zenon DEF Owed
  <1>2. Inv /\ CutsOK /\ [Next]_vars =>
          [\A w \in Worker : \A p \in Request :
              /\ ~Stopped
              /\ worker[w].pending = p
              /\ worker[w].pc \in {"start", "replay", "complete"}
              /\ job[p].body_joined
              /\ Owed(p) /\ req'[p] = "retryable"
              => \/ worker[w].failure = "device"
                 \/ /\ worker[w].failure = "cancelled"
                    /\ ~worker[w].protect_body_replay]_req
    BY <1>1, Zenon DEF vars, callers
  <1> QED BY <1>2, InvariantHolds, OnlyCutsAreUnsound, PTL DEF Spec, LatchSparesBody

(* What VerdictSound says of a step. *)
Sound ==
    /\ \A h \in Hash :
         /\ memo'[h] = "valid" => h \in Valid
         /\ memo'[h] = "invalid" /\ memo[h] # "invalid" /\ h \in Valid =>
              \E w \in Worker : worker[w].hash = h /\ CutCoupled(w)
    /\ \A p \in Live : \A r \in Owners(p) : Owed(r) =>
         /\ req'[r] = "accepted" => job[p].hash \in Valid
         /\ req'[r] = "rejected" /\ job[p].hash \in Valid =>
              \E w \in Worker : worker[w].pending = p /\ CutCoupled(w)

(* A positive verdict, kept or told, is the block's own; a negative one is *)
(* too, unless a body joined a coupled replay that the latch had cut.      *)
THEOREM VerdictsSound == Spec => VerdictSound
  <1>1. ASSUME Inv, CutsOK, Next,
               NEW p \in Live, NEW r \in Owners(p), Owed(r),
               req'[r] \in {"accepted", "rejected"}
        PROVE  /\ req'[r] = "accepted" => job[p].hash \in Valid
               /\ req'[r] = "rejected" /\ job[p].hash \in Valid =>
                    \E w \in Worker : worker[w].pending = p /\ CutCoupled(w)
    <2>1. r \in Request
      BY <1>1, Zenon DEF Owners, Live, Inv, Types, Job
    <2>2. Told(r)
      BY <1>1, <2>1, StepTells, Zenon DEF Owed
    <2>3. PICK w \in Worker : Complete(w) /\ r \in Owners(worker[w].pending)
      BY <1>1, <2>2, Zenon DEF Told
    <2> DEFINE q == worker[w].pending
    <2>4. worker[w].pc = "complete" /\ worker[w].pc \in Busy
      BY <2>3, Zenon DEF Complete, Busy
    <2>5. /\ q \in Request /\ job[q].hash # None /\ job[q].hash = worker[w].hash
      BY <1>1, <2>4, HeldJob, Zenon
    <2>6. q \in Live
      BY <2>5, NoJobFacts, Zenon DEF Live
    <2>7. p = q
      BY <1>1, <2>3, <2>6, OneOwner, Zenon
    <2> DEFINE retryable == \/ worker[w].failure # "none"
                            \/ /\ job[q].cancelled
                               /\ ~ProtectsBodyReplay(q) \/ (Stopped /\ ~worker[w].ok)
               answer == IF retryable THEN "retryable"
                         ELSE IF worker[w].ok THEN "accepted" ELSE "rejected"
    <2>8. req' = Answer({q}, answer)
      BY <2>3, Zenon DEF Complete
    <2>9. /\ answer = "accepted" => worker[w].failure = "none" /\ worker[w].ok
          /\ answer = "rejected" => ~retryable /\ ~worker[w].ok
      BY Zenon
    <2> HIDE DEF answer
    <2>10. req'[r] = answer
      BY <1>1, <2>1, <2>8, AnswerFacts DEF Owed
    <2>11. req'[r] = "accepted" => job[p].hash \in Valid
      BY <1>1, <2>4, <2>5, <2>7, <2>9, <2>10, Zenon DEF Inv, LocalOK
    <2>12. ASSUME req'[r] = "rejected", job[p].hash \in Valid PROVE CutCoupled(w)
      <3>1. ~retryable /\ ~worker[w].ok /\ worker[w].failure = "none"
        BY <2>9, <2>10, <2>12, Zenon
      <3>2. worker[w].hash \in Valid
        BY <2>5, <2>7, <2>12, Zenon
      <3>3. /\ Coupled(worker[w].hash) /\ job[q].cancelled
            /\ worker[w].protect_body_replay => worker[w].shutting_down
            /\ worker[w].shutting_down => Stopped
        BY <1>1, <2>4, <3>1, <3>2, Zenon DEF CutsOK
      <3>4. job[q].body_joined /\ ~Stopped
        BY <3>1, <3>3, Zenon DEF ProtectsBodyReplay
      <3> QED BY <2>4, <3>3, <3>4, Zenon DEF CutCoupled
    <2> QED BY <2>7, <2>11, <2>12, Zenon
  <1>2. ASSUME Inv, CutsOK, Next, NEW h \in Hash, h \in Valid,
               memo'[h] = "invalid", memo[h] # "invalid"
        PROVE  \E w \in Worker : worker[w].hash = h /\ CutCoupled(w)
    <2>1. PICK w \in Worker : \E missing \in BOOLEAN : Replay(w, missing)
      BY <1>2, NegativeMemo, Zenon
    <2>2. PICK missing \in BOOLEAN : Replay(w, missing)
      BY <2>1, Zenon
    <2>3. /\ h = worker[w].hash
          /\ Coupled(worker[w].hash) /\ job[worker[w].pending].cancelled
          /\ worker[w].protect_body_replay => worker[w].shutting_down
          /\ job[worker[w].pending].body_joined /\ ~worker[w].shutting_down
      <3> DEFINE q == worker[w].pending
      <3>1. /\ h = worker[w].hash
            /\ worker'[w].failure = "none" /\ ~worker'[w].ok
            /\ worker'[w].hash = worker[w].hash
            /\ worker'[w].protect_body_replay = worker[w].protect_body_replay
            /\ worker'[w].shutting_down = worker[w].shutting_down
            /\ job[q].cancelled => job[q].body_joined /\ ~worker[w].shutting_down
        BY <1>2, <2>2, ReplayCuts, ZenonT(30)
      <3>2. /\ Coupled(worker'[w].hash) /\ job[q].cancelled
            /\ worker'[w].protect_body_replay => worker'[w].shutting_down
        BY <1>2, <2>2, <3>1, ReplayCuts, ZenonT(30)
      <3> QED BY <3>1, <3>2, Zenon
    <2>4. worker[w].pc = "replay"
      BY <2>2, Zenon DEF Replay
    <2> QED BY <2>3, <2>4, Zenon DEF CutCoupled
  <1>3. Inv /\ Inv' /\ CutsOK /\ [Next]_vars => [Sound]_<<req, memo>>
    <2> SUFFICES ASSUME Inv, Inv', CutsOK, Next PROVE Sound
      BY Zenon DEF vars, callers
    <2>1. \A h \in Hash : memo'[h] = "valid" => h \in Valid
      BY Zenon DEF Inv, QuorumOK
    <2> QED BY <1>1, <1>2, <2>1, ZenonT(30) DEF Sound
  <1> QED BY <1>3, InvariantHolds, OnlyCutsAreUnsound, PTL
          DEF Spec, VerdictSound, Sound
=============================================================================
