----------------------- MODULE ParallelReingestProofs -----------------------
(***************************************************************************)
(* Proofs about ParallelReingest for every number of workers, checkpoint   *)
(* interval and request.                                                   *)
(***************************************************************************)
EXTENDS ParallelReingest, FiniteSetTheorems, TLAPS

(* The part of IInv about the ledgers that were sent. *)
SentInv == \A l \in req.from..(subRangeFrom - 1) : l # 1 => Accounted(l)

-----------------------------------------------------------------------------
(* Batches.                                                                *)

(* A batch has at least one ledger. *)
LEMMA BatchPositive ==
    ASSUME req \in Request
    PROVE  BatchSize \in Nat \ {0}
  <1> USE ParallelAssumption
  <1> DEFINE n == Cardinality(Workers)
             rangeSize == req.to - req.from
             wanted == IF req.size = 0 \/ rangeSize \div req.size < n
                       THEN rangeSize \div n ELSE req.size
             size == IF wanted < Interval THEN Interval ELSE wanted
  <1>1. n \in Nat \ {0}
    BY FS_CardinalityType, FS_EmptySet
  <1>2. rangeSize \in Int /\ req.size \in Nat
    BY DEF Request
  <1>3. wanted \in Int
    <2> HIDE DEF n, rangeSize
    <2> QED BY <1>1, <1>2
  <1>4. size \in Nat /\ size >= Interval
    <2> HIDE DEF wanted
    <2> QED BY <1>3
  <1>5. size \div Interval \in Nat /\ size \div Interval >= 1
    <2> HIDE DEF size
    <2> QED BY <1>4
  <1>6. (size \div Interval) * Interval \in Nat \ {0}
    <2> DEFINE q == size \div Interval
    <2>1. q \in Nat /\ q >= 1
      BY <1>5
    <2> HIDE DEF q
    <2>2. q * Interval \in Nat /\ q * Interval >= 1
      BY <2>1
    <2> QED BY <2>2 DEF q
  <1> QED BY <1>6 DEF BatchSize, calculateParallelLedgerBatchSize

(* The batch that is sent next starts at subRangeFrom and stays in the range. *)
LEMMA SubRangeBounds ==
    ASSUME TypeOK, subRangeFrom < req.to
    PROVE  SubRangeTo \in Nat /\ subRangeFrom <= SubRangeTo /\ SubRangeTo <= req.to
  <1>1. req \in Request /\ subRangeFrom \in Nat
    BY ParallelAssumption DEF TypeOK
  <1>2. BatchSize \in Nat \ {0} /\ req.to \in Nat
    BY <1>1, BatchPositive DEF Request
  <1> QED BY <1>1, <1>2 DEF SubRangeTo

(* The types of req's fields, cited in most steps. *)
LEMMA ReqType ==
    ASSUME TypeOK
    PROVE  req \in Request /\ req.from \in Nat \ {0} /\ req.to \in Nat \ {0}
  BY ParallelAssumption DEF TypeOK, Request

-----------------------------------------------------------------------------
(* Steps.                                                                  *)

(* ReingestRange starts with nothing sent. *)
LEMMA InitInv == Init => IInv
  <1> SUFFICES ASSUME Init PROVE IInv
    OBVIOUS
  <1>1. req \in Request /\ req.from \in Nat \ {0} /\ req.to \in Nat \ {0}
    BY ParallelAssumption DEF Init, Request
  <1>2. TypeOK
    BY <1>1 DEF Init, TypeOK, Ranges
  <1>3. JobInv /\ CallerInv /\ DisjointJobs /\ RestartPointSound
    BY <1>1 DEF Init, JobInv, CallerInv, DisjointJobs, RestartPointSound, Working
  <1>4. \A l \in req.from..(subRangeFrom - 1) : l # 1 => Accounted(l)
    BY <1>1 DEF Init
  <1> QED BY <1>2, <1>3, <1>4 DEF IInv

(* A job is sent: the ledgers it adds are with the worker that takes it. *)
LEMMA SendJobStep ==
    ASSUME IInv, NEW w \in Workers, SendJob(w)
    PROVE  IInv'
  <1>1. /\ TypeOK /\ JobInv /\ CallerInv /\ DisjointJobs /\ RestartPointSound /\ SentInv
        /\ req.from \in Nat \ {0} /\ req.to \in Nat \ {0} /\ subRangeFrom \in Nat \ {0}
        /\ pc = "queue" /\ subRangeFrom < req.to /\ worker[w] = "select"
    BY ReqType DEF IInv, SentInv, SendJob, TypeOK
  <1>2. SubRangeTo \in Nat /\ subRangeFrom <= SubRangeTo /\ SubRangeTo <= req.to
    BY <1>1, SubRangeBounds
  <1>3. /\ UNCHANGED <<req, pc, stop, lowestRangeErr, result, reingested>>
        /\ subRangeFrom' = SubRangeTo + 1
        /\ worker'[w] = "work" /\ job'[w].from = subRangeFrom /\ job'[w].to = SubRangeTo
        /\ pos'[w] = FirstLedger(subRangeFrom)
        /\ \A v \in Workers : v # w => worker'[v] = worker[v] /\ job'[v] = job[v] /\ pos'[v] = pos[v]
    BY <1>1 DEF SendJob, TypeOK
  <1>4. FirstLedger(subRangeFrom) \in Nat /\ subRangeFrom <= FirstLedger(subRangeFrom)
    BY <1>1 DEF FirstLedger
  <1>5. TypeOK'
    <2>1. [from |-> subRangeFrom, to |-> SubRangeTo] \in Ranges
      BY <1>1, <1>2 DEF Ranges
    <2>2. worker' \in [Workers -> {"none", "select", "work", "failed", "reported", "exited"}]
      BY <1>1 DEF SendJob, TypeOK
    <2>3. job' \in [Workers -> Ranges]
      BY <1>1, <2>1 DEF SendJob, TypeOK
    <2>4. pos' \in [Workers -> Nat]
      BY <1>1, <1>4 DEF SendJob, TypeOK
    <2> QED BY <1>1, <1>2, <1>3, <2>2, <2>3, <2>4 DEF TypeOK
  <1>6. \A v \in Workers : job[v].from \in Nat /\ job[v].to \in Nat /\ pos[v] \in Nat
    BY <1>1 DEF TypeOK, Ranges
  <1>7. JobInv'
    BY <1>1, <1>2, <1>3, <1>4, <1>6 DEF JobInv, CallerInv, Working
  <1>8. CallerInv'
    BY <1>1, <1>2, <1>3 DEF CallerInv, TypeOK
  <1>9. DisjointJobs'
    BY <1>1, <1>2, <1>3, <1>6 DEF DisjointJobs, JobInv, CallerInv, Working
  <1>10. RestartPointSound'
    BY <1>1, <1>3 DEF RestartPointSound
  <1>11. ASSUME NEW l \in (req.from..(subRangeFrom - 1))', l # 1 PROVE Accounted(l)'
    <2>1. l \in req.from..SubRangeTo
      BY <1>1, <1>2, <1>3
    <2>2. CASE l >= subRangeFrom
      <3>1. pos'[w] <= l
        BY <1>1, <1>3, <1>11, <2>1, <2>2 DEF FirstLedger
      <3> QED BY <1>2, <1>3, <2>1, <3>1 DEF Accounted, Working
    <2>3. CASE l < subRangeFrom
      <3>1. Accounted(l)
        BY <1>1, <1>11, <2>1, <2>3 DEF SentInv
      <3> QED BY <1>1, <1>3, <3>1 DEF Accounted, Working
    <2> QED BY <1>1, <2>1, <2>2, <2>3
  <1> QED BY <1>5, <1>7, <1>8, <1>9, <1>10, <1>11 DEF IInv

(* The parts of IInv, with the types that arithmetic needs. *)
LEMMA Parts ==
    ASSUME IInv
    PROVE  /\ TypeOK /\ JobInv /\ CallerInv /\ DisjointJobs /\ RestartPointSound /\ SentInv
           /\ req.from \in Nat \ {0} /\ req.to \in Nat \ {0} /\ subRangeFrom \in Nat \ {0}
           /\ lowestRangeErr \in Nat
           /\ \A v \in Workers : job[v].from \in Nat /\ job[v].to \in Nat /\ pos[v] \in Nat
  BY ReqType DEF IInv, SentInv, TypeOK, Ranges

(* Steps of one worker that gives no ledger up: it changes where it is, not its
   job, and it keeps on working or had nothing to do. *)
LEMMA WorkerMoves ==
    ASSUME IInv, NEW w \in Workers, NEW s \in {"select", "failed", "exited"},
           worker' = [worker EXCEPT ![w] = s],
           UNCHANGED <<req, subRangeFrom, job, pos, lowestRangeErr, result, reingested>>,
           Working(w) => s = "failed" \/ pos[w] > job[w].to,
           s = "failed" => Working(w)
    PROVE  /\ worker' \in [Workers -> {"none", "select", "work", "failed", "reported", "exited"}]
           /\ JobInv' /\ DisjointJobs' /\ RestartPointSound' /\ SentInv'
  <1> USE Parts
  <1>1. worker'[w] = s /\ \A v \in Workers : v # w => worker'[v] = worker[v]
    BY DEF TypeOK
  <1>2. worker' \in [Workers -> {"none", "select", "work", "failed", "reported", "exited"}]
    BY DEF TypeOK
  <1>3. \A v \in Workers : Working(v)' => Working(v)
    BY <1>1 DEF Working
  <1>4. JobInv'
    BY <1>3 DEF JobInv
  <1>5. DisjointJobs'
    BY <1>3 DEF DisjointJobs
  <1>6. RestartPointSound'
    BY DEF RestartPointSound
  <1>7. ASSUME NEW l \in Nat, Accounted(l) PROVE Accounted(l)'
    <2>1. CASE \E v \in Workers : Working(v) /\ pos[v] <= l /\ l <= job[v].to
      <3>1. PICK v \in Workers : Working(v) /\ pos[v] <= l /\ l <= job[v].to
        BY <2>1
      <3>2. Working(v)'
        BY <1>1, <3>1 DEF Working
      <3> QED BY <3>1, <3>2 DEF Accounted
    <2> QED BY <1>7, <2>1 DEF Accounted
  <1>8. SentInv'
    BY <1>7 DEF SentInv
  <1> QED BY <1>2, <1>4, <1>5, <1>6, <1>8

(* Workers that are started, that stop, that finish or fail a job, or that exit. *)
LEMMA WorkerSteps ==
    ASSUME IInv, NEW w \in Workers,
           CreateWorker(w) \/ WorkerStops(w) \/ ReingestDone(w) \/ ReingestFails(w) \/ CloseStop(w)
    PROVE  IInv'
  <1>1. /\ worker' \in [Workers -> {"none", "select", "work", "failed", "reported", "exited"}]
        /\ JobInv' /\ DisjointJobs' /\ RestartPointSound' /\ SentInv'
    <2>1. CASE CreateWorker(w) \/ WorkerStops(w)
      BY <2>1, WorkerMoves DEF CreateWorker, WorkerStops, Working
    <2>2. CASE ReingestDone(w) \/ ReingestFails(w)
      BY <2>2, WorkerMoves DEF ReingestDone, ReingestFails, Working
    <2>3. CASE CloseStop(w)
      BY <2>3, WorkerMoves DEF CloseStop, Working
    <2> QED BY <2>1, <2>2, <2>3
  <1>2. TypeOK'
    BY <1>1, Parts
    DEF TypeOK, CreateWorker, WorkerStops, ReingestDone, ReingestFails, CloseStop
  <1>3. CallerInv'
    <2> USE Parts
    <2>1. CASE CreateWorker(w)
      BY <2>1 DEF CreateWorker, CallerInv, TypeOK
    <2>2. CASE WorkerStops(w) \/ ReingestDone(w) \/ ReingestFails(w)
      BY <2>2 DEF WorkerStops, ReingestDone, ReingestFails, CallerInv, TypeOK
    <2>3. CASE CloseStop(w)
      BY <2>3 DEF CloseStop, CallerInv, TypeOK
    <2> QED BY <2>1, <2>2, <2>3
  <1> QED BY <1>1, <1>2, <1>3 DEF IInv, SentInv

(* A ledger is reingested by the worker that holds it. *)
LEMMA LedgerStep ==
    ASSUME IInv, NEW w \in Workers, ReingestLedger(w)
    PROVE  IInv'
  <1> USE Parts
  <1>1. /\ UNCHANGED <<req, pc, subRangeFrom, worker, job, stop, lowestRangeErr, result>>
        /\ reingested' = reingested \cup {pos[w]} /\ worker[w] = "work"
        /\ pos'[w] = pos[w] + 1 /\ \A v \in Workers : v # w => pos'[v] = pos[v]
        /\ pos' \in [Workers -> Nat]
    BY DEF ReingestLedger, TypeOK
  <1>2. TypeOK'
    BY <1>1 DEF TypeOK
  <1>3. JobInv' /\ CallerInv' /\ DisjointJobs'
    BY <1>1 DEF JobInv, CallerInv, DisjointJobs, Working
  <1>4. RestartPointSound'
    BY <1>1 DEF RestartPointSound
  <1>5. ASSUME NEW l \in Nat, Accounted(l) PROVE Accounted(l)'
    BY <1>1, <1>5 DEF Accounted, Working
  <1>6. SentInv'
    BY <1>1, <1>5 DEF SentInv
  <1> QED BY <1>2, <1>3, <1>4, <1>6 DEF IInv, SentInv

(* A failed job lowers the restart point to its first ledger. *)
LEMMA ReportStep ==
    ASSUME IInv, NEW w \in Workers, ReportError(w)
    PROVE  IInv'
  <1> USE Parts
  <1>1. /\ UNCHANGED <<req, pc, subRangeFrom, job, pos, stop, result, reingested>>
        /\ worker[w] = "failed" /\ worker'[w] = "reported"
        /\ \A v \in Workers : v # w => worker'[v] = worker[v]
        /\ worker' \in [Workers -> {"none", "select", "work", "failed", "reported", "exited"}]
    BY DEF ReportError, TypeOK
  <1>2. /\ req.from <= job[w].from /\ job[w].from <= pos[w] /\ job[w].from < subRangeFrom
        /\ job[w].from # 0
    BY <1>1 DEF JobInv, Working
  <1>3. /\ lowestRangeErr' \in Nat \ {0} /\ lowestRangeErr' <= job[w].from
        /\ lowestRangeErr # 0 => lowestRangeErr' <= lowestRangeErr
    BY <1>2 DEF ReportError
  <1>4. TypeOK'
    BY <1>1, <1>3 DEF TypeOK
  <1>5. JobInv' /\ DisjointJobs'
    BY <1>1 DEF JobInv, DisjointJobs, Working
  <1>6. CallerInv'
    BY <1>1, <1>2, <1>3 DEF CallerInv
  <1>7. RestartPointSound'
    BY <1>1 DEF RestartPointSound, CallerInv
  <1>8. ASSUME NEW l \in Nat, Accounted(l) PROVE Accounted(l)'
    BY <1>1, <1>2, <1>3, <1>8 DEF Accounted, Working
  <1>9. SentInv'
    BY <1>1, <1>8 DEF SentInv
  <1> QED BY <1>4, <1>5, <1>6, <1>7, <1>9 DEF IInv, SentInv

(* The caller returns when every worker has exited: no ledger is with a worker. *)
LEMMA CallerSteps ==
    ASSUME IInv, CreateFails \/ LeaveLoop \/ Return
    PROVE  IInv'
  <1> USE Parts
  <1>1. UNCHANGED <<req, subRangeFrom, worker, job, pos, lowestRangeErr, reingested>>
    BY DEF CreateFails, LeaveLoop, Return
  <1>2. TypeOK'
    BY <1>1 DEF CreateFails, LeaveLoop, Return, TypeOK
  <1>3. JobInv' /\ DisjointJobs' /\ SentInv'
    BY <1>1 DEF JobInv, DisjointJobs, SentInv, Accounted, Working
  <1>4. CallerInv'
    BY <1>1 DEF CreateFails, LeaveLoop, Return, CallerInv
  <1>5. RestartPointSound'
    <2>1. CASE CreateFails \/ LeaveLoop
      BY <1>1, <2>1 DEF CreateFails, LeaveLoop, RestartPointSound
    <2>2. CASE Return
      <3>1. \A l \in req.from..(subRangeFrom - 1) :
               l # 1 => l \in reingested \/ (lowestRangeErr # 0 /\ lowestRangeErr <= l)
        BY <2>2 DEF Return, SentInv, Accounted, Working
      <3>2. lowestRangeErr <= subRangeFrom /\ (subRangeFrom >= req.to \/ lowestRangeErr # 0)
        BY <2>2 DEF Return, CallerInv
      <3> QED BY <1>1, <2>2, <3>1, <3>2 DEF Return, RestartPointSound
    <2> QED BY <2>1, <2>2
  <1> QED BY <1>2, <1>3, <1>4, <1>5 DEF IInv, SentInv

-----------------------------------------------------------------------------
(* The theorems.                                                           *)

(* IInv is an invariant for every set of workers, interval and request. *)
THEOREM Invariance == Spec => []IInv
  <1>1. IInv /\ [Next]_vars => IInv'
    <2> SUFFICES ASSUME IInv, [Next]_vars PROVE IInv'
      OBVIOUS
    <2>1. CASE UNCHANGED vars
      BY <2>1 DEF vars, IInv, TypeOK, JobInv, CallerInv, DisjointJobs, RestartPointSound, Accounted, Working
    <2>2. CASE Next
      BY <2>2, SendJobStep, WorkerSteps, LedgerStep, ReportStep, CallerSteps DEF Next, Caller, Work
    <2> QED BY <2>1, <2>2
  <1> QED BY <1>1, InitInv, PTL DEF Spec

(* The restart range that ReingestRange recommends leaves no gap below it, whatever
   jobs failed and in whatever order the workers reported (lowestRangeErr). *)
THEOREM RestartCorrect == Spec => []RestartPointSound
  <1>1. IInv => RestartPointSound
    BY DEF IInv
  <1> QED BY <1>1, Invariance, PTL

(* No two workers ever hold the same ledger (the cut into batches). *)
THEOREM JobsCorrect == Spec => []DisjointJobs
  <1>1. IInv => DisjointJobs
    BY DEF IInv
  <1> QED BY <1>1, Invariance, PTL
=============================================================================
