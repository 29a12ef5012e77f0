----------------------------- MODULE WorkerPool -----------------------------
(***************************************************************************)
(* Worker processes (workers/runner.py) over the job queue.  A process     *)
(* recovers expired leases once, when run() starts; then it claims a job,  *)
(* starts a heartbeat task for it, runs the handler and reports the        *)
(* outcome in a transaction of its own.  A rejected heartbeat ends the     *)
(* heartbeat task, never the handler, so a worker that has lost its lease  *)
(* goes on.  A process may crash between any two steps and be started      *)
(* again; a database error outside the handler ends it as a crash does.    *)
(***************************************************************************)
EXTENDS JobQueue

CONSTANT MaxCrashes    \* bound: crashes of worker processes

ASSUME PoolAssumption == MaxCrashes \in Nat

\* What a worker has claimed when it has no ClaimedJob.
NoJob == 0

VARIABLES
  pc,        \* pc[w]: where process w is in run / run_once
  claimed,   \* claimed[w]: id of the ClaimedJob in memory
  attempt,   \* attempt[w]: its attempt_count
  beat,      \* beat[w]: the heartbeat task
  stopping,  \* stopping[w]: stop_event
  crashes

workerVars == <<pc, claimed, attempt, beat, stopping, crashes>>
vars == <<jobs, workerVars>>

\* "returned" and "raised": the handler is over, the transaction that reports
\* it is not.
WorkerState == {"down", "starting", "idle", "handling", "returned", "raised"}

Holding(w) == pc[w] \in {"handling", "returned", "raised"}

PoolTypeOK ==
  /\ JobsTypeOK
  /\ pc \in [Worker -> WorkerState]
  /\ claimed \in [Worker -> Job \cup {NoJob}]
  /\ attempt \in [Worker -> 0 .. MaxAttempts]
  /\ beat \in [Worker -> {"off", "on", "rejected", "broken"}]
  /\ stopping \in [Worker -> BOOLEAN]
  /\ crashes \in 0 .. MaxCrashes

Init ==
  /\ JobsInit
  /\ pc = [w \in Worker |-> "down"]
  /\ claimed = [w \in Worker |-> NoJob]
  /\ attempt = [w \in Worker |-> 0]
  /\ beat = [w \in Worker |-> "off"]
  /\ stopping = [w \in Worker |-> FALSE]
  /\ crashes = 0

-----------------------------------------------------------------------------
\* Clients of the queue, and time.
Client ==
  /\ \E j \in Job : Enqueue(j) \/ RequestCancel(j)
  /\ UNCHANGED workerVars

Clock ==
  /\ Tick \/ \E j \in Job : RetryDue(j)
  /\ UNCHANGED workerVars

\* The process is started (again).
Start(w) ==
  /\ pc[w] = "down"
  /\ pc' = [pc EXCEPT ![w] = "starting"]
  /\ UNCHANGED <<jobs, claimed, attempt, beat, stopping, crashes>>

\* run() begins with the only call of recover_expired_leases.
Recover(w) ==
  /\ pc[w] = "starting"
  /\ RecoverExpired
  /\ pc' = [pc EXCEPT ![w] = "idle"]
  /\ UNCHANGED <<claimed, attempt, beat, stopping, crashes>>

\* Mutant of ClaimNext: attempt_count is read before it is incremented.
ClaimNextStale(w) ==
  /\ pc[w] = "idle"
  /\ ~ stopping[w]
  /\ \E j \in Job :
       /\ Claim(w, j)
       /\ claimed' = [claimed EXCEPT ![w] = j]
       /\ attempt' = [attempt EXCEPT ![w] = jobs[j].attempt_count]
  /\ pc' = [pc EXCEPT ![w] = "handling"]
  /\ beat' = [beat EXCEPT ![w] = "on"]
  /\ UNCHANGED <<stopping, crashes>>

\* run_once: claim in a transaction, then start the heartbeat task.
ClaimNext(w) ==
  /\ pc[w] = "idle"
  /\ ~ stopping[w]
  /\ \E j \in Job :
       /\ Claim(w, j)
       /\ claimed' = [claimed EXCEPT ![w] = j]
       /\ attempt' = [attempt EXCEPT ![w] = jobs[j].attempt_count + 1]
  /\ pc' = [pc EXCEPT ![w] = "handling"]
  /\ beat' = [beat EXCEPT ![w] = "on"]
  /\ UNCHANGED <<stopping, crashes>>

HandlerReturns(w) ==
  /\ pc[w] = "handling"
  /\ pc' = [pc EXCEPT ![w] = "returned"]
  /\ UNCHANGED <<jobs, claimed, attempt, beat, stopping, crashes>>

\* The handler raises, or there is none for the job type.
HandlerRaises(w) ==
  /\ pc[w] = "handling"
  /\ pc' = [pc EXCEPT ![w] = "raised"]
  /\ UNCHANGED <<jobs, claimed, attempt, beat, stopping, crashes>>

\* The heartbeat task is cancelled and awaited: an error it died of comes out
\* of run_once and ends the process.
Forget(w) ==
  /\ pc' = [pc EXCEPT ![w] = IF beat[w] = "broken" THEN "down" ELSE "idle"]
  /\ claimed' = [claimed EXCEPT ![w] = NoJob]
  /\ attempt' = [attempt EXCEPT ![w] = 0]
  /\ beat' = [beat EXCEPT ![w] = "off"]
  /\ stopping' = [stopping EXCEPT ![w] = @ /\ beat[w] # "broken"]
  /\ UNCHANGED crashes

\* The report of a worker that no longer owns the job is rejected and logged.
ReportSuccess(w) ==
  /\ pc[w] = "returned"
  /\ \/ Succeed(w, claimed[w])
     \/ ~ MaySucceed(w, claimed[w]) /\ UNCHANGED jobs
  /\ Forget(w)

ReportFailure(w) ==
  /\ pc[w] = "raised"
  /\ \/ Fail(w, claimed[w])
     \/ ~ MayFail(w, claimed[w]) /\ UNCHANGED jobs
  /\ Forget(w)

\* One turn of the heartbeat task.
Heartbeat(w) ==
  /\ beat[w] = "on"
  /\ \/ Renew(w, claimed[w]) /\ UNCHANGED beat
     \/ /\ ~ MayRenew(w, claimed[w])
        /\ beat' = [beat EXCEPT ![w] = "rejected"]
        /\ UNCHANGED jobs
  /\ UNCHANGED <<pc, claimed, attempt, stopping, crashes>>

\* The transaction of a heartbeat fails: the task dies and nobody looks at it
\* before the handler is over.
HeartbeatError(w) ==
  /\ beat[w] = "on"
  /\ beat' = [beat EXCEPT ![w] = "broken"]
  /\ UNCHANGED <<jobs, pc, claimed, attempt, stopping, crashes>>

\* SIGTERM or SIGINT: the process ends when it is idle.
SignalStop(w) ==
  /\ pc[w] # "down"
  /\ stopping' = [stopping EXCEPT ![w] = TRUE]
  /\ UNCHANGED <<jobs, pc, claimed, attempt, beat, crashes>>

Stop(w) ==
  /\ pc[w] = "idle"
  /\ stopping[w]
  /\ pc' = [pc EXCEPT ![w] = "down"]
  /\ stopping' = [stopping EXCEPT ![w] = FALSE]
  /\ UNCHANGED <<jobs, claimed, attempt, beat, crashes>>

\* The process dies: what it held in memory is gone, its lease stays.
Crash(w) ==
  /\ pc[w] # "down"
  /\ crashes < MaxCrashes
  /\ pc' = [pc EXCEPT ![w] = "down"]
  /\ claimed' = [claimed EXCEPT ![w] = NoJob]
  /\ attempt' = [attempt EXCEPT ![w] = 0]
  /\ beat' = [beat EXCEPT ![w] = "off"]
  /\ stopping' = [stopping EXCEPT ![w] = FALSE]
  /\ crashes' = crashes + 1
  /\ UNCHANGED jobs

WorkerStep(w) ==
  \/ Start(w) \/ Recover(w) \/ ClaimNext(w)
  \/ HandlerReturns(w) \/ HandlerRaises(w)
  \/ ReportSuccess(w) \/ ReportFailure(w)
  \/ Heartbeat(w) \/ HeartbeatError(w)
  \/ SignalStop(w) \/ Stop(w) \/ Crash(w)

Next == Client \/ Clock \/ \E w \in Worker : WorkerStep(w)

Spec == Init /\ [][Next]_vars

-----------------------------------------------------------------------------
(***************************************************************************)
(* Safety.                                                                 *)
(***************************************************************************)

\* The row of a job is in one piece whatever path led to it: exactly a running
\* job has an owner, only a running one has lease left, and a queued job has
\* an attempt left - claim skips a job without one, so it would sit in the
\* queue for ever.
RowsConsistent ==
  \A j \in Job :
    /\ Running(j) <=> jobs[j].lease_owner # NoWorker
    /\ jobs[j].lease > 0 => Running(j)
    /\ jobs[j].status = "queued" => CanRetry(jobs[j])

\* attempt_count is a fencing token: two workers may be inside handlers of one
\* job at a time (a lease ran out under a slow handler), but never for the same
\* attempt of it.
AttemptsFence ==
  \A v, w \in Worker :
    v # w /\ Holding(v) /\ Holding(w) /\ claimed[v] = claimed[w]
      => attempt[v] # attempt[w]

\* A worker that finds its id in lease_owner when it reports is the one the last
\* claim was for: comparing owners is as good as comparing attempts.
OwnerHoldsLastAttempt ==
  \A w \in Worker :
    Holding(w) /\ OwnedBy(claimed[w], w)
      => attempt[w] = jobs[claimed[w]].attempt_count

\* A job is taken from its owner only by the owner's own report or after its
\* lease has run out: no start of another worker, cancellation or late report
\* disturbs an unexpired lease.
KeepsUnexpiredLease ==
  \A j \in Job, w \in Worker :
    OwnedBy(j, w) /\ jobs[j].lease > 0
      => \/ OwnedBy(j, w)'
         \/ pc[w] \in {"returned", "raised"} /\ claimed[w] = j /\ ~ Holding(w)'

UnexpiredLeaseIsKept == [][KeepsUnexpiredLease]_vars

\* A job succeeds only in the step in which the handler of its last attempt,
\* having returned, is reported.
EarnsSuccess ==
  \A j \in Job :
    jobs[j].status # "succeeded" /\ jobs'[j].status = "succeeded"
      => \E w \in Worker : /\ pc[w] = "returned" /\ claimed[w] = j
                           /\ attempt[w] = jobs[j].attempt_count

SuccessIsEarned == [][EarnsSuccess]_vars

\* The pool implements the lifecycle a client of the queue relies on.
Lifecycle == INSTANCE JobLifecycle WITH
  phase <- [j \in Job |-> jobs[j].status],
  tried <- [j \in Job |-> jobs[j].attempt_count]

LifecycleSpec == Lifecycle!LifecycleSpec

-----------------------------------------------------------------------------
(***************************************************************************)
(* Liveness.  The event loop keeps running the tasks of a live process,    *)
(* handlers end (every call they make has a timeout), the clock goes on    *)
(* and a process that is down is started again.  A stop signal does not    *)
(* hit every start before the worker has reached its loop, and a worker    *)
(* that again and again finds a job to claim claims one (SF).  Nothing     *)
(* makes a client act, a process crash or an operator stop one.            *)
(***************************************************************************)
Fairness ==
  /\ \A w \in Worker :
       /\ WF_vars(Start(w)) /\ WF_vars(Recover(w)) /\ WF_vars(Stop(w))
       /\ SF_vars(Recover(w) /\ ~ stopping[w])
       /\ SF_vars(ClaimNext(w))
       /\ WF_vars(HandlerReturns(w) \/ HandlerRaises(w))
       /\ WF_vars(ReportSuccess(w)) /\ WF_vars(ReportFailure(w))
  /\ WF_vars(Tick /\ UNCHANGED workerVars)
  /\ \A j \in Job : WF_vars(RetryDue(j) /\ UNCHANGED workerVars)

FairSpec == Spec /\ Fairness

\* Operators, or deployments, that stop every process again and again.
RollingRestarts ==
  FairSpec /\ \A w \in Worker : WF_vars(SignalStop(w))

\* Every job that was enqueued ends, whatever crashes and is retried, and so none waits in
\* the queue for ever; only finitely many jobs are enqueued.
EveryJobEnds ==
  \A j \in Job : jobs[j].status = "queued" ~> jobs[j].status \in Terminal
=============================================================================
