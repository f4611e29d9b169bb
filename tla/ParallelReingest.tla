-------------------------- MODULE ParallelReingest --------------------------
(***************************************************************************)
(* ParallelSystems.ReingestRange                                           *)
(* (services/aurora/internal/ingest/parallel.go): the range is cut into    *)
(* batches that worker goroutines take from an unbuffered channel.  The    *)
(* caller, the workers, the mutex and the stop channel they share are      *)
(* interleaved; sending and receiving a job is one step.  The retries      *)
(* inside System.ReingestRange, and what it writes, are in Ingestion.      *)
(***************************************************************************)
EXTENDS Integers, FiniteSets

CONSTANTS
    Workers,   \* the worker goroutines, each with a system of its own
    Interval,  \* historyCheckpointLedgerInterval and minBatchSize (64)
    Requests   \* [from, to, size]: the ranges and job sizes asked for

Request == [from : Nat \ {0}, to : Nat \ {0}, size : Nat]

ASSUME ParallelAssumption ==
    /\ Workers # {} /\ IsFiniteSet(Workers)
    /\ Interval \in Nat \ {0}
    /\ Requests \subseteq Request

VARIABLES
    req,            \* the arguments of ReingestRange
    pc,             \* where the caller is
    subRangeFrom,   \* first ledger that has not been sent to a worker
    worker,         \* worker[w]: where worker w is
    job,            \* job[w]: the range w received last
    pos,            \* pos[w]: the ledger of job[w] that is next
    stop,           \* the stop channel is closed
    lowestRangeErr, \* first ledger of the lowest failed range, 0 for none
    result,         \* what ReingestRange returned
    reingested      \* ledgers reingested so far

vars == <<req, pc, subRangeFrom, worker, job, pos, stop, lowestRangeErr, result, reingested>>

Ranges == [from : Nat, to : Nat]

TypeOK ==
    /\ req \in Requests
    /\ pc \in {"create", "queue", "wait", "returned"}
    /\ subRangeFrom \in Nat \ {0}
    /\ worker \in [Workers -> {"none", "select", "work", "failed", "reported", "exited"}]
    /\ job \in [Workers -> Ranges]
    /\ pos \in [Workers -> Nat]
    /\ stop \in BOOLEAN
    /\ lowestRangeErr \in Nat
    /\ result \in {"none", "ok", "error", "noSystem"}
    /\ reingested \subseteq Nat

(* A range smaller than the workers' share, and the remainder of a batch, are
   rounded to whole checkpoints.  (rangeSize wraps around when the range is empty;
   no batch is cut then.) *)
calculateParallelLedgerBatchSize(rangeSize, suggestion, workerCount) ==
    LET wanted == IF suggestion = 0 \/ rangeSize \div suggestion < workerCount
                  THEN rangeSize \div workerCount ELSE suggestion
        batchSize == IF wanted < Interval THEN Interval ELSE wanted
    IN (batchSize \div Interval) * Interval

BatchSize == calculateParallelLedgerBatchSize(req.to - req.from, req.size, Cardinality(Workers))

Init ==
    /\ req \in Requests
    /\ pc = "create"
    /\ subRangeFrom = req.from
    /\ worker = [w \in Workers |-> "none"]
    /\ job = [w \in Workers |-> [from |-> 0, to |-> 0]]
    /\ pos = [w \in Workers |-> 0]
    /\ stop = FALSE
    /\ lowestRangeErr = 0
    /\ result = "none"
    /\ reingested = {}

-----------------------------------------------------------------------------
(* The caller.                                                             *)

(* A system is created and its worker started. *)
CreateWorker(w) ==
    /\ pc = "create" /\ worker[w] = "none"
    /\ worker' = [worker EXCEPT ![w] = "select"]
    /\ pc' = IF \E v \in Workers \ {w} : worker[v] = "none" THEN "create" ELSE "queue"
    /\ UNCHANGED <<req, subRangeFrom, job, pos, stop, lowestRangeErr, result, reingested>>

(* systemFactory fails: ReingestRange returns, the workers started are left in
   their select. *)
CreateFails ==
    /\ pc = "create"
    /\ pc' = "returned" /\ result' = "noSystem"
    /\ UNCHANGED <<req, subRangeFrom, worker, job, pos, stop, lowestRangeErr, reingested>>

(* Both ends belong to a batch; the last one is cut at toLedger. *)
SubRangeTo ==
    LET to == subRangeFrom + (BatchSize - 1) IN IF to > req.to THEN req.to ELSE to

(* System.ReingestRange starts at ledger 2 when asked for ledger 1. *)
FirstLedger(from) == IF from = 1 THEN 2 ELSE from

(* Mutant of SendJob: the next batch starts where this one ends. *)
SendJobOverlapping(w) ==
    /\ pc = "queue" /\ subRangeFrom < req.to /\ worker[w] = "select"
    /\ worker' = [worker EXCEPT ![w] = "work"]
    /\ job' = [job EXCEPT ![w] = [from |-> subRangeFrom, to |-> SubRangeTo]]
    /\ pos' = [pos EXCEPT ![w] = FirstLedger(subRangeFrom)]
    /\ subRangeFrom' = SubRangeTo
    /\ UNCHANGED <<req, pc, stop, lowestRangeErr, result, reingested>>

(* A job goes to a worker in its select; also when stop is closed already, since
   select chooses among what is ready. *)
SendJob(w) ==
    /\ pc = "queue" /\ subRangeFrom < req.to /\ worker[w] = "select"
    /\ worker' = [worker EXCEPT ![w] = "work"]
    /\ job' = [job EXCEPT ![w] = [from |-> subRangeFrom, to |-> SubRangeTo]]
    /\ pos' = [pos EXCEPT ![w] = FirstLedger(subRangeFrom)]
    /\ subRangeFrom' = SubRangeTo + 1
    /\ UNCHANGED <<req, pc, stop, lowestRangeErr, result, reingested>>

(* The loop ends, or is left because stop is closed; stop is closed once. *)
LeaveLoop ==
    /\ pc = "queue"
    /\ subRangeFrom >= req.to \/ stop
    /\ pc' = "wait" /\ stop' = TRUE
    /\ UNCHANGED <<req, subRangeFrom, worker, job, pos, lowestRangeErr, result, reingested>>

(* wg.Wait, then the error with the recommended restart range, if any. *)
Return ==
    /\ pc = "wait"
    /\ \A w \in Workers : worker[w] = "exited"
    /\ pc' = "returned"
    /\ result' = IF lowestRangeErr # 0 THEN "error" ELSE "ok"
    /\ UNCHANGED <<req, subRangeFrom, worker, job, pos, stop, lowestRangeErr, reingested>>

-----------------------------------------------------------------------------
(* runReingestWorker and the goroutine around it.                          *)

WorkerStops(w) ==
    /\ worker[w] = "select" /\ stop
    /\ worker' = [worker EXCEPT ![w] = "exited"]
    /\ UNCHANGED <<req, pc, subRangeFrom, job, pos, stop, lowestRangeErr, result, reingested>>

(* System.ReingestRange without force: one transaction for each ledger. *)
ReingestLedger(w) ==
    /\ worker[w] = "work" /\ pos[w] <= job[w].to
    /\ reingested' = reingested \cup {pos[w]}
    /\ pos' = [pos EXCEPT ![w] = @ + 1]
    /\ UNCHANGED <<req, pc, subRangeFrom, worker, job, stop, lowestRangeErr, result>>

ReingestDone(w) ==
    /\ worker[w] = "work" /\ pos[w] > job[w].to
    /\ worker' = [worker EXCEPT ![w] = "select"]
    /\ UNCHANGED <<req, pc, subRangeFrom, job, pos, stop, lowestRangeErr, result, reingested>>

(* System.ReingestRange fails, before or after some of its ledgers. *)
ReingestFails(w) ==
    /\ worker[w] = "work" /\ pos[w] <= job[w].to
    /\ worker' = [worker EXCEPT ![w] = "failed"]
    /\ UNCHANGED <<req, pc, subRangeFrom, job, pos, stop, lowestRangeErr, result, reingested>>

(* Mutant of ReportError: the first error reported is kept. *)
ReportFirstError(w) ==
    /\ worker[w] = "failed"
    /\ worker' = [worker EXCEPT ![w] = "reported"]
    /\ lowestRangeErr' = IF lowestRangeErr = 0 THEN job[w].from ELSE lowestRangeErr
    /\ UNCHANGED <<req, pc, subRangeFrom, job, pos, stop, result, reingested>>

(* lowestRangeErr is updated under its mutex. *)
ReportError(w) ==
    /\ worker[w] = "failed"
    /\ worker' = [worker EXCEPT ![w] = "reported"]
    /\ lowestRangeErr' = IF lowestRangeErr = 0 \/ lowestRangeErr > job[w].from
                         THEN job[w].from ELSE lowestRangeErr
    /\ UNCHANGED <<req, pc, subRangeFrom, job, pos, stop, result, reingested>>

(* Mutant of CloseStop: the failed worker exits without closing stop. *)
ExitWithoutStop(w) ==
    /\ worker[w] = "reported"
    /\ worker' = [worker EXCEPT ![w] = "exited"]
    /\ UNCHANGED <<req, pc, subRangeFrom, job, pos, stop, lowestRangeErr, result, reingested>>

(* stopOnce closes the channel, the deferred wg.Done runs. *)
CloseStop(w) ==
    /\ worker[w] = "reported"
    /\ worker' = [worker EXCEPT ![w] = "exited"]
    /\ stop' = TRUE
    /\ UNCHANGED <<req, pc, subRangeFrom, job, pos, lowestRangeErr, result, reingested>>

-----------------------------------------------------------------------------
Caller == (\E w \in Workers : CreateWorker(w) \/ SendJob(w)) \/ LeaveLoop \/ Return

Work(w) ==
    WorkerStops(w) \/ ReingestLedger(w) \/ ReingestDone(w) \/ ReportError(w) \/ CloseStop(w)

Next ==
    \/ Caller \/ CreateFails
    \/ \E w \in Workers : Work(w) \/ ReingestFails(w)

Spec == Init /\ [][Next]_vars

(* Goroutines are scheduled: the caller and every worker go on when they can. *)
FairSpec == Spec /\ WF_vars(Caller) /\ \A w \in Workers : WF_vars(Work(w))

-----------------------------------------------------------------------------
(* Properties.                                                             *)

(* No ledger below the recommended restart range is missing: every job sent
   before was processed, whatever other jobs failed and in whatever order ("this
   is where the user needs to start again to prevent the gaps").  Without an error
   the same holds up to toLedger, which itself is left out.  (Ledger 1 is
   pregenerated.) *)
RestartPointSound ==
    result \in {"ok", "error"} =>
        \A l \in req.from..((IF result = "error" THEN lowestRangeErr ELSE req.to) - 1) :
            l # 1 => l \in reingested

(* Two workers never work on the same ledger, and none works outside the range:
   parallel transactions do not meet on the same rows. *)
Working(w) == worker[w] \in {"work", "failed"}

DisjointJobs ==
    \A v, w \in Workers :
        Working(v) /\ Working(w) =>
            /\ job[w].from >= req.from /\ job[w].to <= req.to
            /\ v # w => job[v].to < job[w].from \/ job[w].to < job[v].from

(* ReingestRange returns, and then no job is under way any more, unless the
   systems could not be created: the caller and the workers never wait for each
   other. *)
Terminates ==
    <>(pc = "returned" /\ (result # "noSystem" => \A w \in Workers : worker[w] = "exited"))

(* The command reingests the closed interval [from, to] when it succeeds. *)
ClosedInterval ==
    result = "ok" => \A l \in req.from..req.to : l # 1 => l \in reingested

-----------------------------------------------------------------------------
(* The inductive invariant behind RestartPointSound and DisjointJobs.      *)

(* A ledger that was sent is reingested, still with its worker, or not below the
   restart point. *)
Accounted(l) ==
    \/ l \in reingested
    \/ \E w \in Workers : Working(w) /\ pos[w] <= l /\ l <= job[w].to
    \/ lowestRangeErr # 0 /\ lowestRangeErr <= l

JobInv ==
    \A w \in Workers : Working(w) =>
        /\ req.from <= job[w].from /\ job[w].from <= pos[w]
        /\ job[w].to < subRangeFrom /\ job[w].to <= req.to /\ job[w].from < subRangeFrom

(* The loop is only left early after an error was recorded. *)
CallerInv ==
    /\ subRangeFrom >= req.from
    /\ lowestRangeErr <= subRangeFrom
    /\ \A w \in Workers : worker[w] = "reported" => lowestRangeErr # 0
    /\ pc = "queue" /\ stop => lowestRangeErr # 0
    /\ pc = "wait" => subRangeFrom >= req.to \/ lowestRangeErr # 0
    /\ pc = "create" => ~stop /\ \A w \in Workers : worker[w] \in {"none", "select"}
    /\ result \in {"ok", "error"} => pc = "returned" /\ \A w \in Workers : worker[w] = "exited"

IInv ==
    /\ TypeOK /\ JobInv /\ CallerInv /\ DisjointJobs /\ RestartPointSound
    /\ \A l \in req.from..(subRangeFrom - 1) : l # 1 => Accounted(l)
=============================================================================
