-------------------------- MODULE WorkerPool_proofs --------------------------
(***************************************************************************)
(* What TLAPS proves of WorkerPool for every number of workers, jobs,      *)
(* attempts and crashes.                                                   *)
(***************************************************************************)
EXTENDS WorkerPool, JobQueue_proofs

\* A process inside a handler has a job and an attempt that was begun; one that
\* is not has no heartbeat task.
HandlersConsistent ==
  \A w \in Worker :
    IF Holding(w)
    THEN claimed[w] \in Job /\ attempt[w] \in 1 .. jobs[claimed[w]].attempt_count
    ELSE beat[w] = "off"

\* The inductive invariant.
PoolInv ==
  /\ PoolTypeOK
  /\ AbsentIsFresh
  /\ RowsConsistent
  /\ HandlersConsistent
  /\ AttemptsFence
  /\ OwnerHoldsLastAttempt

\* The invariant holds before any process has started.
LEMMA PoolInit == Init => PoolInv
  <1> SUFFICES ASSUME Init PROVE PoolInv OBVIOUS
  <1>1. /\ JobsTypeOK
        /\ \A j \in Job : /\ jobs[j].status = "absent"
                          /\ jobs[j].attempt_count = 0
                          /\ jobs[j].lease_owner = NoWorker
                          /\ jobs[j].lease = 0
    BY InitRows DEF Init
  <1>2. \A w \in Worker : ~ Holding(w) /\ beat[w] = "off"
    BY DEF Init, Holding
  <1>3. PoolTypeOK
    BY <1>1, QueueAssumption, PoolAssumption DEF Init, PoolTypeOK, WorkerState
  <1> QED BY <1>1, <1>2, <1>3 DEF PoolInv, AbsentIsFresh, RowsConsistent, Running,
       HandlersConsistent, AttemptsFence, OwnerHoldsLastAttempt

\* Clients and the clock leave the workers alone and no row loses an attempt.
LEMMA ClientStep ==
  ASSUME PoolInv, Client
  PROVE  PoolInv'
  <1> PICK j \in Job : Enqueue(j) \/ RequestCancel(j) BY DEF Client
  <1> USE DEF PoolInv, PoolTypeOK
  <1>1. /\ JobsTypeOK' /\ SameRows({j})
        /\ \/ /\ jobs[j].status = "absent" /\ jobs'[j].status = "queued"
              /\ jobs'[j].attempt_count = 0
              /\ jobs'[j].lease_owner = NoWorker /\ jobs'[j].lease = 0
           \/ /\ \/ jobs[j].status = "queued" /\ jobs'[j].status = "cancelled"
                 \/ jobs[j].status = "running" /\ jobs'[j].status = "running"
              /\ jobs'[j].attempt_count = jobs[j].attempt_count
              /\ jobs'[j].lease_owner = jobs[j].lease_owner
              /\ jobs'[j].lease = jobs[j].lease
    BY EnqueueRow, CancelRow
  <1>2. \A i \in Job : jobs'[i].attempt_count = jobs[i].attempt_count
    BY <1>1 DEF AbsentIsFresh, SameRows
  <1>3. PoolTypeOK' BY <1>1 DEF Client, workerVars
  <1>4. AbsentIsFresh' /\ RowsConsistent'
    BY <1>1, QueueAssumption DEF AbsentIsFresh, RowsConsistent, Running, CanRetry, SameRows
  <1>5. HandlersConsistent'
    BY <1>2 DEF HandlersConsistent, Holding, Client, workerVars
  <1>6. AttemptsFence' BY DEF AttemptsFence, Holding, Client, workerVars
  <1>7. OwnerHoldsLastAttempt'
    BY <1>1, <1>2 DEF OwnerHoldsLastAttempt, HandlersConsistent, OwnedBy, Running, Holding,
                      SameRows, Client, workerVars
  <1> QED BY <1>3, <1>4, <1>5, <1>6, <1>7

\* The clock takes lease from rows and makes retries due, nothing else.
LEMMA ClockStep ==
  ASSUME PoolInv, Clock
  PROVE  PoolInv'
  <1> USE DEF PoolInv, PoolTypeOK
  <1>1. /\ JobsTypeOK'
        /\ \A j \in Job : /\ jobs'[j].status = jobs[j].status
                          /\ jobs'[j].attempt_count = jobs[j].attempt_count
                          /\ jobs'[j].lease_owner = jobs[j].lease_owner
                          /\ jobs'[j].lease <= jobs[j].lease
    BY ClockRows DEF Clock
  <1>2. \A j \in Job : jobs[j].lease \in Nat /\ jobs'[j].lease \in Nat
    BY <1>1, QueueAssumption DEF JobsTypeOK, JobRow
  <1>3. PoolTypeOK' BY <1>1 DEF Clock, workerVars
  <1>4. AbsentIsFresh' /\ RowsConsistent'
    BY <1>1, <1>2 DEF AbsentIsFresh, RowsConsistent, Running, CanRetry
  <1>5. HandlersConsistent'
    BY <1>1 DEF HandlersConsistent, Holding, Clock, workerVars
  <1>6. AttemptsFence' BY DEF AttemptsFence, Holding, Clock, workerVars
  <1>7. OwnerHoldsLastAttempt'
    BY <1>1 DEF OwnerHoldsLastAttempt, HandlersConsistent, OwnedBy, Running, Holding,
                Clock, workerVars
  <1> QED BY <1>3, <1>4, <1>5, <1>6, <1>7

\* The recovery at the start of a process takes rows from owners, never attempts
\* from handlers.
LEMMA RecoverStep ==
  ASSUME PoolInv, NEW w \in Worker, Recover(w)
  PROVE  PoolInv'
  <1> USE DEF PoolInv, PoolTypeOK
  <1>1. /\ JobsTypeOK'
        /\ \A j \in Job :
             IF Expired(j)
             THEN /\ jobs'[j].status = IF jobs[j].attempt_count < MaxAttempts
                                       THEN "queued" ELSE "failed"
                  /\ jobs'[j].attempt_count = jobs[j].attempt_count
                  /\ jobs'[j].lease_owner = NoWorker /\ jobs'[j].lease = 0
             ELSE jobs'[j] = jobs[j]
    BY RecoverRows DEF Recover
  <1>2. \A j \in Job : jobs'[j].attempt_count = jobs[j].attempt_count
    BY <1>1
  <1>3. PoolTypeOK' BY <1>1 DEF Recover, WorkerState
  <1>4. AbsentIsFresh' /\ RowsConsistent'
    BY <1>1, QueueAssumption DEF AbsentIsFresh, RowsConsistent, Running, Expired, CanRetry
  <1>5. \A v \in Worker : Holding(v)' <=> Holding(v)
    BY DEF Recover, Holding
  <1>6. HandlersConsistent'
    BY <1>2, <1>5 DEF HandlersConsistent, Recover
  <1>7. AttemptsFence' BY <1>5 DEF AttemptsFence, Recover
  <1>8. OwnerHoldsLastAttempt'
    BY <1>1, <1>2, <1>5, QueueAssumption
    DEF OwnerHoldsLastAttempt, HandlersConsistent, OwnedBy, Running, Recover
  <1> QED BY <1>3, <1>4, <1>6, <1>7, <1>8

\* A claim begins an attempt that no handler has been inside before.
LEMMA ClaimStep ==
  ASSUME PoolInv, NEW w \in Worker, ClaimNext(w)
  PROVE  PoolInv'
  <1> USE DEF PoolInv, PoolTypeOK
  <1> PICK j \in Job : /\ Claim(w, j)
                       /\ claimed' = [claimed EXCEPT ![w] = j]
                       /\ attempt' = [attempt EXCEPT ![w] = jobs[j].attempt_count + 1]
    BY DEF ClaimNext
  <1>1. /\ JobsTypeOK' /\ SameRows({j})
        /\ jobs[j].status = "queued" /\ jobs'[j].status = "running"
        /\ jobs[j].attempt_count < MaxAttempts
        /\ jobs'[j].attempt_count = jobs[j].attempt_count + 1
        /\ jobs'[j].lease_owner = w /\ jobs'[j].lease = LeaseTicks
    BY ClaimRow
  <1>2. \A i \in Job : jobs[i].attempt_count \in Nat /\ jobs'[i].attempt_count \in 0 .. MaxAttempts
    BY <1>1, QueueAssumption DEF JobsTypeOK, JobRow
  <1>3. \A i \in Job : jobs'[i].attempt_count >= jobs[i].attempt_count
    BY <1>1, <1>2 DEF SameRows
  <1>4. /\ ~ Holding(w) /\ Holding(w)'
        /\ claimed'[w] = j /\ attempt'[w] = jobs'[j].attempt_count
        /\ \A v \in Worker \ {w} : /\ Holding(v)' <=> Holding(v)
                                   /\ claimed'[v] = claimed[v]
                                   /\ attempt'[v] = attempt[v] /\ beat'[v] = beat[v]
    BY <1>1 DEF ClaimNext, Holding
  <1>5. PoolTypeOK'
    BY <1>1, <1>2 DEF ClaimNext, WorkerState
  <1>6. AbsentIsFresh' /\ RowsConsistent'
    BY <1>1, QueueAssumption DEF AbsentIsFresh, RowsConsistent, Running, CanRetry, SameRows
  <1>7. \A v \in Worker : Holding(v) => attempt[v] \in Nat /\ attempt[v] >= 1
                                        /\ attempt[v] <= jobs[claimed[v]].attempt_count
    BY <1>2 DEF HandlersConsistent
  <1>8. HandlersConsistent'
    BY <1>1, <1>2, <1>3, <1>4 DEF HandlersConsistent
  <1>9. AttemptsFence'
    BY <1>1, <1>2, <1>4, <1>7 DEF AttemptsFence
  <1>10. OwnerHoldsLastAttempt'
    BY <1>1, <1>4 DEF OwnerHoldsLastAttempt, HandlersConsistent, OwnedBy, Running, SameRows
  <1> QED BY <1>5, <1>6, <1>8, <1>9, <1>10

\* The report of the owner is that of the last attempt; any other changes nothing.
LEMMA ReportStep ==
  ASSUME PoolInv, NEW w \in Worker, ReportSuccess(w) \/ ReportFailure(w)
  PROVE  PoolInv'
  <1> USE DEF PoolInv, PoolTypeOK
  <1> DEFINE j == claimed[w]
  <1>1. Holding(w) /\ j \in Job /\ attempt[w] \in 1 .. jobs[j].attempt_count
    BY DEF ReportSuccess, ReportFailure, Holding, HandlersConsistent
  <1>2. attempt[w] \in 0 .. MaxAttempts OBVIOUS
  <1> HIDE DEF j
  <1>3. \/ jobs' = jobs
        \/ /\ JobsTypeOK' /\ SameRows({j}) /\ OwnedBy(j, w)
           /\ jobs'[j].attempt_count = jobs[j].attempt_count
           /\ jobs'[j].lease_owner = NoWorker /\ jobs'[j].lease = 0
           /\ \/ jobs'[j].status = "succeeded"
              \/ jobs'[j].status = IF jobs[j].attempt_count < MaxAttempts
                                   THEN "queued" ELSE "failed"
    <2>1. CASE ReportSuccess(w)
      <3>1. Succeed(w, j) \/ jobs' = jobs
        BY <2>1 DEF ReportSuccess, j
      <3> QED BY <1>1, <1>2, <3>1, SucceedRow
    <2>2. CASE ReportFailure(w)
      <3>1. Fail(w, j) \/ jobs' = jobs
        BY <2>2 DEF ReportFailure, j
      <3> QED BY <1>1, <3>1, FailRow
    <2> QED BY <2>1, <2>2
  <1>4. Forget(w) BY DEF ReportSuccess, ReportFailure
  <1>5. /\ ~ Holding(w)' /\ beat'[w] = "off"
        /\ \A v \in Worker \ {w} : /\ Holding(v)' <=> Holding(v)
                                   /\ claimed'[v] = claimed[v]
                                   /\ attempt'[v] = attempt[v] /\ beat'[v] = beat[v]
    BY <1>4 DEF Forget, Holding
  <1>6. \A i \in Job : jobs'[i].attempt_count = jobs[i].attempt_count
    BY <1>3 DEF SameRows
  <1>7. 0 \in 0 .. MaxAttempts BY QueueAssumption
  <1>8. PoolTypeOK'
    BY <1>3, <1>4, <1>7 DEF Forget, WorkerState, JobsTypeOK
  <1>9. AbsentIsFresh' /\ RowsConsistent'
    BY <1>3, QueueAssumption
    DEF AbsentIsFresh, RowsConsistent, Running, OwnedBy, CanRetry, SameRows
  <1>10. HandlersConsistent'
    BY <1>5, <1>6 DEF HandlersConsistent
  <1>11. AttemptsFence' BY <1>5 DEF AttemptsFence
  <1>12. OwnerHoldsLastAttempt'
    BY <1>3, <1>5, <1>6
    DEF OwnerHoldsLastAttempt, HandlersConsistent, OwnedBy, Running, SameRows
  <1> QED BY <1>8, <1>9, <1>10, <1>11, <1>12

\* A heartbeat renews the lease of its owner or changes no row.
LEMMA HeartbeatStep ==
  ASSUME PoolInv, NEW w \in Worker, Heartbeat(w)
  PROVE  PoolInv'
  <1> USE DEF PoolInv, PoolTypeOK
  <1> DEFINE j == claimed[w]
  <1>1. Holding(w) /\ j \in Job
    BY DEF Heartbeat, HandlersConsistent
  <1> HIDE DEF j
  <1>2. \/ jobs' = jobs
        \/ /\ JobsTypeOK' /\ SameRows({j}) /\ OwnedBy(j, w)
           /\ jobs'[j].status = jobs[j].status
           /\ jobs'[j].attempt_count = jobs[j].attempt_count
           /\ jobs'[j].lease_owner = jobs[j].lease_owner
    BY <1>1, RenewRow DEF Heartbeat, j
  <1>3. \A i \in Job : /\ jobs'[i].attempt_count = jobs[i].attempt_count
                       /\ jobs'[i].status = jobs[i].status
                       /\ jobs'[i].lease_owner = jobs[i].lease_owner
    BY <1>2 DEF SameRows
  <1>4. PoolTypeOK' BY <1>2 DEF Heartbeat, JobsTypeOK
  <1>5. AbsentIsFresh' /\ RowsConsistent'
    BY <1>2, <1>3 DEF AbsentIsFresh, RowsConsistent, Running, OwnedBy, CanRetry, SameRows
  <1>6. HandlersConsistent'
    BY <1>1, <1>3 DEF HandlersConsistent, Holding, Heartbeat
  <1>7. AttemptsFence' BY DEF AttemptsFence, Holding, Heartbeat
  <1>8. OwnerHoldsLastAttempt'
    BY <1>3 DEF OwnerHoldsLastAttempt, HandlersConsistent, OwnedBy, Running, Holding, Heartbeat
  <1> QED BY <1>4, <1>5, <1>6, <1>7, <1>8

\* The steps of a process that change no row, and claim nothing.
LEMMA QuietStep ==
  ASSUME PoolInv, NEW w \in Worker,
         \/ Start(w) \/ HandlerReturns(w) \/ HandlerRaises(w) \/ HeartbeatError(w)
         \/ SignalStop(w) \/ Stop(w) \/ Crash(w)
  PROVE  PoolInv'
  <1> USE DEF PoolInv, PoolTypeOK
  <1>1. jobs' = jobs
    BY DEF Start, HandlerReturns, HandlerRaises, HeartbeatError, SignalStop, Stop, Crash
  <1>2. \A v \in Worker :
          IF Holding(v)'
          THEN Holding(v) /\ claimed'[v] = claimed[v] /\ attempt'[v] = attempt[v]
          ELSE beat'[v] = "off"
    BY DEF Start, HandlerReturns, HandlerRaises, HeartbeatError, SignalStop, Stop, Crash,
           Holding, HandlersConsistent
  <1>3. PoolTypeOK'
    <2>1. JobsTypeOK' BY <1>1 DEF JobsTypeOK
    <2>2. CASE Crash(w)
      <3>1. 0 \in 0 .. MaxAttempts /\ crashes + 1 \in 0 .. MaxCrashes
        BY <2>2, QueueAssumption, PoolAssumption DEF Crash
      <3> QED BY <2>1, <2>2, <3>1 DEF Crash, WorkerState
    <2>3. CASE Start(w) \/ Stop(w) \/ SignalStop(w)
      BY <2>1, <2>3 DEF Start, Stop, SignalStop, WorkerState
    <2>4. CASE HandlerReturns(w) \/ HandlerRaises(w) \/ HeartbeatError(w)
      BY <2>1, <2>4 DEF HandlerReturns, HandlerRaises, HeartbeatError, WorkerState
    <2> QED BY <2>2, <2>3, <2>4
  <1>4. AbsentIsFresh' /\ RowsConsistent'
    BY <1>1 DEF AbsentIsFresh, RowsConsistent, Running, CanRetry
  <1>5. HandlersConsistent' BY <1>1, <1>2 DEF HandlersConsistent
  <1>6. AttemptsFence' BY <1>2 DEF AttemptsFence
  <1>7. OwnerHoldsLastAttempt'
    BY <1>1, <1>2 DEF OwnerHoldsLastAttempt, OwnedBy, Running
  <1> QED BY <1>3, <1>4, <1>5, <1>6, <1>7

\* Every step of the pool keeps the invariant.
LEMMA PoolStep == PoolInv /\ [Next]_vars => PoolInv'
  <1> SUFFICES ASSUME PoolInv, [Next]_vars PROVE PoolInv' OBVIOUS
  <1>1. CASE Client BY <1>1, ClientStep
  <1>2. CASE Clock BY <1>2, ClockStep
  <1>3. CASE \E w \in Worker : WorkerStep(w)
    BY <1>3, RecoverStep, ClaimStep, ReportStep, HeartbeatStep, QuietStep DEF WorkerStep
  <1>4. CASE UNCHANGED vars
    BY <1>4 DEF vars, workerVars, PoolInv, PoolTypeOK, JobsTypeOK, AbsentIsFresh,
         RowsConsistent, HandlersConsistent, AttemptsFence, OwnerHoldsLastAttempt,
         Running, OwnedBy, Holding, CanRetry
  <1> QED BY <1>1, <1>2, <1>3, <1>4 DEF Next

-----------------------------------------------------------------------------
\* The inductive invariant holds of every reachable state.
THEOREM PoolInvariance == Spec => []PoolInv
  <1>1. Init => PoolInv BY PoolInit
  <1>2. PoolInv /\ [Next]_vars => PoolInv' BY PoolStep
  <1> QED BY <1>1, <1>2, PTL DEF Spec

\* Type correctness: no counter of the table or of a process leaves its range.
THEOREM PoolTypeCorrect == Spec => []PoolTypeOK
  <1>1. PoolInv => PoolTypeOK BY DEF PoolInv
  <1> QED BY <1>1, PoolInvariance, PTL

\* The rows stay consistent, so no job waits in the queue without an attempt left.
THEOREM RowsStayConsistent == Spec => []RowsConsistent
  <1>1. PoolInv => RowsConsistent BY DEF PoolInv
  <1> QED BY <1>1, PoolInvariance, PTL

\* No two workers are ever inside handlers for the same attempt of a job.
THEOREM AttemptsAreFenced == Spec => []AttemptsFence
  <1>1. PoolInv => AttemptsFence BY DEF PoolInv
  <1> QED BY <1>1, PoolInvariance, PTL

\* Whoever owns a job when it reports is at the job's last attempt.
THEOREM OwnersAreLast == Spec => []OwnerHoldsLastAttempt
  <1>1. PoolInv => OwnerHoldsLastAttempt BY DEF PoolInv
  <1> QED BY <1>1, PoolInvariance, PTL

-----------------------------------------------------------------------------
\* Which rows a report may change, and how.
LEMMA ReportRows ==
  ASSUME PoolInv, NEW w \in Worker, ReportSuccess(w) \/ ReportFailure(w)
  PROVE  /\ Holding(w) /\ claimed[w] \in Job
         /\ pc[w] \in {"returned", "raised"} /\ ~ Holding(w)'
         /\ \/ jobs' = jobs
            \/ /\ SameRows({claimed[w]}) /\ OwnedBy(claimed[w], w)
               /\ jobs'[claimed[w]].attempt_count = jobs[claimed[w]].attempt_count
               /\ \/ jobs'[claimed[w]].status = "succeeded" /\ pc[w] = "returned"
                  \/ jobs'[claimed[w]].status = IF jobs[claimed[w]].attempt_count < MaxAttempts
                                               THEN "queued" ELSE "failed"
  <1> USE DEF PoolInv, PoolTypeOK
  <1> DEFINE j == claimed[w]
  <1>1. Holding(w) /\ j \in Job /\ attempt[w] \in 0 .. MaxAttempts
    BY DEF ReportSuccess, ReportFailure, Holding, HandlersConsistent
  <1>2. pc[w] \in {"returned", "raised"} /\ ~ Holding(w)'
    BY DEF ReportSuccess, ReportFailure, Forget, Holding
  <1> HIDE DEF j
  <1>3. CASE ReportSuccess(w)
    <2>1. pc[w] = "returned" /\ (Succeed(w, j) \/ jobs' = jobs)
      BY <1>3 DEF ReportSuccess, j
    <2> QED BY <1>1, <1>2, <2>1, SucceedRow DEF j
  <1>4. CASE ReportFailure(w)
    <2>1. Fail(w, j) \/ jobs' = jobs
      BY <1>4 DEF ReportFailure, j
    <2> QED BY <1>1, <1>2, <2>1, FailRow DEF j
  <1> QED BY <1>3, <1>4

\* A job is taken from its owner only by its own report or after its lease.
THEOREM LeasesAreKept == Spec => UnexpiredLeaseIsKept
  <1>1. ASSUME PoolInv, Next PROVE KeepsUnexpiredLease
    <2> SUFFICES ASSUME NEW j \in Job, NEW w \in Worker,
                        OwnedBy(j, w), jobs[j].lease > 0
                 PROVE  \/ OwnedBy(j, w)'
                        \/ /\ pc[w] \in {"returned", "raised"} /\ claimed[w] = j
                           /\ ~ Holding(w)'
      BY DEF KeepsUnexpiredLease
    <2> USE <1>1 DEF PoolInv, PoolTypeOK
    <2>1. CASE Client
      <3> PICK i \in Job : Enqueue(i) \/ RequestCancel(i) BY <2>1 DEF Client
      <3>1. /\ SameRows({i})
            /\ \/ jobs[i].status = "absent"
               \/ jobs[i].status = "queued"
               \/ /\ jobs'[i].status = "running"
                  /\ jobs'[i].lease_owner = jobs[i].lease_owner
        BY EnqueueRow, CancelRow
      <3> QED BY <3>1 DEF OwnedBy, Running, SameRows
    <2>2. CASE Clock
      BY <2>2, ClockRows DEF Clock, OwnedBy, Running
    <2>3. ASSUME NEW v \in Worker, Recover(v) PROVE OwnedBy(j, w)'
      <3>1. ~ Expired(j) BY QueueAssumption DEF Expired, JobsTypeOK, JobRow
      <3>2. jobs'[j] = jobs[j] BY <2>3, <3>1, RecoverRows DEF Recover
      <3> QED BY <3>2 DEF OwnedBy, Running
    <2>4. ASSUME NEW v \in Worker, ClaimNext(v) PROVE OwnedBy(j, w)'
      <3> PICK i \in Job : Claim(v, i) BY <2>4 DEF ClaimNext
      <3>1. SameRows({i}) /\ jobs[i].status = "queued" BY ClaimRow
      <3> QED BY <3>1 DEF OwnedBy, Running, SameRows
    <2>5. ASSUME NEW v \in Worker, ReportSuccess(v) \/ ReportFailure(v)
          PROVE  \/ OwnedBy(j, w)'
                 \/ /\ pc[w] \in {"returned", "raised"} /\ claimed[w] = j
                    /\ ~ Holding(w)'
      BY <2>5, ReportRows DEF OwnedBy, Running, SameRows
    <2>6. ASSUME NEW v \in Worker, Heartbeat(v) PROVE OwnedBy(j, w)'
      <3>1. claimed[v] \in Job BY <2>6 DEF Heartbeat, HandlersConsistent
      <3>2. jobs' = jobs \/ Renew(v, claimed[v]) BY <2>6 DEF Heartbeat
      <3>3. /\ jobs'[j].status = jobs[j].status
            /\ jobs'[j].lease_owner = jobs[j].lease_owner
        BY <3>1, <3>2, RenewRow DEF SameRows
      <3> QED BY <3>3 DEF OwnedBy, Running
    <2>7. ASSUME NEW v \in Worker,
                 \/ Start(v) \/ HandlerReturns(v) \/ HandlerRaises(v)
                 \/ HeartbeatError(v) \/ SignalStop(v) \/ Stop(v) \/ Crash(v)
          PROVE  OwnedBy(j, w)'
      <3>1. jobs' = jobs
        BY <2>7 DEF Start, HandlerReturns, HandlerRaises, HeartbeatError, SignalStop,
                    Stop, Crash
      <3> QED BY <3>1 DEF OwnedBy, Running
    <2> QED BY <1>1, <2>1, <2>2, <2>3, <2>4, <2>5, <2>6, <2>7 DEF Next, WorkerStep
  <1>2. PoolInv /\ [Next]_vars => [KeepsUnexpiredLease]_vars BY <1>1
  <1> QED BY <1>2, PoolInvariance, PTL DEF Spec, UnexpiredLeaseIsKept

\* A job succeeds only when the handler of its last attempt has returned.
THEOREM SuccessesAreEarned == Spec => SuccessIsEarned
  <1>1. ASSUME PoolInv, Next PROVE EarnsSuccess
    <2> SUFFICES ASSUME NEW j \in Job, jobs[j].status # "succeeded",
                        jobs'[j].status = "succeeded"
                 PROVE  \E w \in Worker : /\ pc[w] = "returned" /\ claimed[w] = j
                                          /\ attempt[w] = jobs[j].attempt_count
      BY DEF EarnsSuccess
    <2> USE <1>1 DEF PoolInv, PoolTypeOK
    <2>1. ~ Client
      <3> SUFFICES ASSUME Client PROVE FALSE OBVIOUS
      <3> PICK i \in Job : Enqueue(i) \/ RequestCancel(i) BY DEF Client
      <3>1. SameRows({i}) /\ jobs'[i].status # "succeeded" BY EnqueueRow, CancelRow
      <3> QED BY <3>1 DEF SameRows
    <2>2. ~ Clock BY ClockRows DEF Clock
    <2>3. ASSUME NEW w \in Worker, Recover(w) PROVE FALSE
      BY <2>3, RecoverRows DEF Recover
    <2>4. ASSUME NEW w \in Worker, ClaimNext(w) PROVE FALSE
      <3> PICK i \in Job : Claim(w, i) BY <2>4 DEF ClaimNext
      <3> QED BY ClaimRow DEF SameRows
    <2>5. ASSUME NEW w \in Worker, ReportSuccess(w) \/ ReportFailure(w)
          PROVE  pc[w] = "returned" /\ claimed[w] = j /\ attempt[w] = jobs[j].attempt_count
      BY <2>5, ReportRows DEF SameRows, OwnerHoldsLastAttempt
    <2>6. ASSUME NEW w \in Worker, Heartbeat(w) PROVE FALSE
      <3>1. claimed[w] \in Job BY <2>6 DEF Heartbeat, HandlersConsistent
      <3>2. jobs' = jobs \/ Renew(w, claimed[w]) BY <2>6 DEF Heartbeat
      <3> QED BY <3>1, <3>2, RenewRow DEF SameRows
    <2>7. ASSUME NEW w \in Worker,
                 \/ Start(w) \/ HandlerReturns(w) \/ HandlerRaises(w)
                 \/ HeartbeatError(w) \/ SignalStop(w) \/ Stop(w) \/ Crash(w)
          PROVE  FALSE
      BY <2>7 DEF Start, HandlerReturns, HandlerRaises, HeartbeatError, SignalStop,
                  Stop, Crash
    <2> QED BY <1>1, <2>1, <2>2, <2>3, <2>4, <2>5, <2>6, <2>7 DEF Next, WorkerStep
  <1>2. PoolInv /\ [Next]_vars => [EarnsSuccess]_vars BY <1>1
  <1> QED BY <1>2, PoolInvariance, PTL DEF Spec, SuccessIsEarned

-----------------------------------------------------------------------------
(***************************************************************************)
(* The pool implements JobLifecycle.                                       *)
(***************************************************************************)

\* How the rows of a step look through the refinement mapping.
LEMMA MappedRows ==
  ASSUME JobsTypeOK, JobsTypeOK', NEW j \in Job, SameRows({j})
  PROVE  /\ [i \in Job |-> jobs'[i].status]
              = [[i \in Job |-> jobs[i].status] EXCEPT ![j] = jobs'[j].status]
         /\ [i \in Job |-> jobs'[i].attempt_count]
              = [[i \in Job |-> jobs[i].attempt_count] EXCEPT ![j] = jobs'[j].attempt_count]
  BY DEF SameRows

\* Every step of the pool is a step of the lifecycle or changes nothing of it: an
\* attempt is begun only from the queue and while attempts are left, ended only by
\* the owner or by recovery, and what has ended stays ended.
THEOREM PoolImplementsLifecycle == Spec => LifecycleSpec
  <1> DEFINE phase == [j \in Job |-> jobs[j].status]
             tried == [j \in Job |-> jobs[j].attempt_count]
  <1>1. Init => Lifecycle!LifecycleInit
    BY InitRows DEF Init, Lifecycle!LifecycleInit
  <1>2. ASSUME PoolInv, PoolInv', [Next]_vars
        PROVE  Lifecycle!LifecycleNext \/ UNCHANGED Lifecycle!lifecycleVars
    <2> USE <1>2 DEF PoolInv, PoolTypeOK
    <2>0. CASE /\ \A j \in Job : /\ jobs'[j].status = jobs[j].status
                                /\ jobs'[j].attempt_count = jobs[j].attempt_count
      BY <2>0 DEF Lifecycle!lifecycleVars
    <2>1. CASE Client
      <3> PICK j \in Job : Enqueue(j) \/ RequestCancel(j) BY <2>1 DEF Client
      <3>1. /\ SameRows({j})
            /\ jobs'[j].attempt_count = jobs[j].attempt_count
            /\ \/ jobs[j].status = "absent" /\ jobs'[j].status = "queued"
               \/ jobs[j].status = "queued" /\ jobs'[j].status = "cancelled"
               \/ jobs[j].status = "running" /\ jobs'[j].status = "running"
        BY EnqueueRow, CancelRow DEF AbsentIsFresh
      <3>2. tried' = tried BY <3>1 DEF SameRows
      <3>3. phase' = [phase EXCEPT ![j] = jobs'[j].status]
        BY <3>1, MappedRows
      <3>4. CASE jobs[j].status = "absent" /\ jobs'[j].status = "queued"
        <4>1. Lifecycle!Submit(j) BY <3>2, <3>3, <3>4 DEF Lifecycle!Submit
        <4> QED BY <4>1 DEF Lifecycle!LifecycleNext
      <3>5. CASE jobs[j].status = "queued" /\ jobs'[j].status = "cancelled"
        <4>1. Lifecycle!Cancel(j) BY <3>2, <3>3, <3>5 DEF Lifecycle!Cancel
        <4> QED BY <4>1 DEF Lifecycle!LifecycleNext
      <3>6. CASE jobs[j].status = "running" /\ jobs'[j].status = "running"
        BY <2>0, <3>1, <3>6 DEF SameRows
      <3> QED BY <3>1, <3>4, <3>5, <3>6
    <2>2. CASE Clock
      BY <2>0, <2>2, ClockRows DEF Clock
    <2>3. ASSUME NEW w \in Worker, Recover(w) PROVE Lifecycle!LifecycleNext
      <3> PICK J \in SUBSET Job : J = {j \in Job : Expired(j)} OBVIOUS
      <3>1. Lifecycle!Abandon(J)
        BY <2>3, RecoverRows DEF Recover, Lifecycle!Abandon, Expired, Running
      <3> QED BY <3>1 DEF Lifecycle!LifecycleNext
    <2>4. ASSUME NEW w \in Worker, ClaimNext(w) PROVE Lifecycle!LifecycleNext
      <3> PICK j \in Job : Claim(w, j) BY <2>4 DEF ClaimNext
      <3>1. /\ SameRows({j})
            /\ jobs[j].status = "queued" /\ jobs'[j].status = "running"
            /\ jobs[j].attempt_count < MaxAttempts
            /\ jobs'[j].attempt_count = jobs[j].attempt_count + 1
        BY ClaimRow
      <3>2. /\ phase' = [phase EXCEPT ![j] = "running"]
            /\ tried' = [tried EXCEPT ![j] = jobs[j].attempt_count + 1]
        BY <3>1, MappedRows
      <3>3. Lifecycle!Begin(j) BY <3>1, <3>2 DEF Lifecycle!Begin
      <3> QED BY <3>3 DEF Lifecycle!LifecycleNext
    <2>5. ASSUME NEW w \in Worker, ReportSuccess(w) \/ ReportFailure(w), jobs' # jobs
          PROVE  Lifecycle!LifecycleNext
      <3>1. claimed[w] \in Job BY <2>5, ReportRows
      <3> PICK j \in Job : j = claimed[w] BY <3>1
      <3>3. /\ SameRows({j}) /\ jobs[j].status = "running"
            /\ jobs'[j].attempt_count = jobs[j].attempt_count
            /\ \/ jobs'[j].status = "succeeded"
               \/ jobs'[j].status = IF jobs[j].attempt_count < MaxAttempts
                                    THEN "queued" ELSE "failed"
        BY <2>5, ReportRows DEF OwnedBy, Running
      <3>4. CASE jobs'[j].status = "succeeded"
        <4>1. Lifecycle!Complete(j)
          BY <3>1, <3>3, <3>4, MappedRows DEF Lifecycle!Complete
        <4> QED BY <3>1, <4>1 DEF Lifecycle!LifecycleNext
      <3>5. CASE jobs'[j].status = IF jobs[j].attempt_count < MaxAttempts
                                   THEN "queued" ELSE "failed"
        <4>1. Lifecycle!Abandon({j})
          BY <3>1, <3>3, <3>5 DEF Lifecycle!Abandon, SameRows
        <4> QED BY <3>1, <4>1 DEF Lifecycle!LifecycleNext
      <3> QED BY <3>3, <3>4, <3>5
    <2>6. ASSUME NEW w \in Worker, Heartbeat(w)
          PROVE  UNCHANGED Lifecycle!lifecycleVars
      <3>1. claimed[w] \in Job BY <2>6 DEF Heartbeat, HandlersConsistent
      <3>2. jobs' = jobs \/ Renew(w, claimed[w]) BY <2>6 DEF Heartbeat
      <3>3. \A j \in Job : /\ jobs'[j].status = jobs[j].status
                           /\ jobs'[j].attempt_count = jobs[j].attempt_count
        BY <3>1, <3>2, RenewRow DEF SameRows
      <3> QED BY <2>0, <3>3 DEF Lifecycle!lifecycleVars
    <2>7. CASE jobs' = jobs BY <2>0, <2>7
    <2>8. ASSUME NEW w \in Worker,
                 \/ Start(w) \/ HandlerReturns(w) \/ HandlerRaises(w)
                 \/ HeartbeatError(w) \/ SignalStop(w) \/ Stop(w) \/ Crash(w)
          PROVE  jobs' = jobs
      BY <2>8 DEF Start, HandlerReturns, HandlerRaises, HeartbeatError, SignalStop,
                  Stop, Crash
    <2> QED BY <1>2, <2>1, <2>2, <2>3, <2>4, <2>5, <2>6, <2>7, <2>8
      DEF Next, WorkerStep, vars
  <1>3. PoolInv /\ PoolInv' /\ [Next]_vars
          => [Lifecycle!LifecycleNext]_(Lifecycle!lifecycleVars)
    BY <1>2
  <1> QED BY <1>1, <1>3, PoolInvariance, PTL
    DEF Spec, LifecycleSpec, Lifecycle!LifecycleSpec
=============================================================================
