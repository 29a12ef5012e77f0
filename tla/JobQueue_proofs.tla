-------------------------- MODULE JobQueue_proofs --------------------------
(***************************************************************************)
(* What the operations of the job queue do to its rows, whatever the       *)
(* numbers of jobs, workers, priorities and attempts.  The lemmas describe *)
(* one operation each; WorkerPool_proofs builds on them.                   *)
(***************************************************************************)
EXTENDS JobQueue, TLAPS

\* A row that was never enqueued has seen no attempt.
AbsentIsFresh == \A j \in Job : jobs[j].status = "absent" => jobs[j].attempt_count = 0

\* The rest of a row stays as it was.
SameRows(J) == \A i \in Job \ J : jobs'[i] = jobs[i]

\* Initially every row is absent, unowned and fresh.
LEMMA InitRows ==
  ASSUME JobsInit
  PROVE  /\ JobsTypeOK
         /\ \A j \in Job : /\ jobs[j].status = "absent"
                           /\ jobs[j].attempt_count = 0
                           /\ jobs[j].lease_owner = NoWorker
                           /\ jobs[j].lease = 0
  <1>1. \A j \in Job : \E p \in Priority : jobs[j] = NewRow(p, "absent")
    BY DEF JobsInit
  <1>2. \A p \in Priority : /\ NewRow(p, "absent") \in JobRow
                            /\ NewRow(p, "absent").status = "absent"
                            /\ NewRow(p, "absent").attempt_count = 0
                            /\ NewRow(p, "absent").lease_owner = NoWorker
                            /\ NewRow(p, "absent").lease = 0
    BY QueueAssumption DEF NewRow, JobRow, Status
  <1>3. DOMAIN jobs = Job /\ jobs = [j \in Job |-> jobs[j]]
    BY DEF JobsInit
  <1> QED BY <1>1, <1>2, <1>3 DEF JobsTypeOK

\* enqueue turns an absent row into a fresh queued one.
LEMMA EnqueueRow ==
  ASSUME JobsTypeOK, NEW j \in Job, Enqueue(j)
  PROVE  /\ JobsTypeOK' /\ SameRows({j})
         /\ jobs[j].status = "absent" /\ jobs'[j].status = "queued"
         /\ jobs'[j].attempt_count = 0
         /\ jobs'[j].lease_owner = NoWorker /\ jobs'[j].lease = 0
  BY QueueAssumption DEF Enqueue, JobsTypeOK, JobRow, NewRow, Status, SameRows

\* claim begins the next attempt.
LEMMA ClaimRow ==
  ASSUME JobsTypeOK, NEW w \in Worker, NEW j \in Job, Claim(w, j)
  PROVE  /\ JobsTypeOK' /\ SameRows({j})
         /\ jobs[j].status = "queued" /\ jobs'[j].status = "running"
         /\ jobs[j].attempt_count < MaxAttempts
         /\ jobs'[j].attempt_count = jobs[j].attempt_count + 1
         /\ jobs'[j].lease_owner = w /\ jobs'[j].lease = LeaseTicks
  <1> DEFINE row == Begun(jobs[j], w)
  <1>1. jobs[j] \in JobRow BY DEF JobsTypeOK
  <1>2. jobs[j].attempt_count < MaxAttempts /\ jobs[j].status = "queued"
    BY DEF Claim, Claimable, CanRetry
  <1>3. /\ jobs[j].attempt_count + 1 \in 0 .. MaxAttempts
        /\ LeaseTicks \in 0 .. LeaseTicks
    BY <1>1, <1>2, QueueAssumption DEF JobRow
  <1>4. /\ row \in JobRow /\ row.status = "running"
        /\ row.attempt_count = jobs[j].attempt_count + 1
        /\ row.lease_owner = w /\ row.lease = LeaseTicks
    BY <1>1, <1>3 DEF Begun, JobRow, Status
  <1>5. jobs' = [jobs EXCEPT ![j] = row]
    BY DEF Claim
  <1> HIDE DEF row
  <1> QED BY <1>2, <1>4, <1>5 DEF JobsTypeOK, SameRows

\* heartbeat changes the lease of the row only.
LEMMA RenewRow ==
  ASSUME JobsTypeOK, NEW w \in Worker, NEW j \in Job, Renew(w, j)
  PROVE  /\ JobsTypeOK' /\ SameRows({j})
         /\ OwnedBy(j, w)
         /\ jobs'[j].status = jobs[j].status
         /\ jobs'[j].attempt_count = jobs[j].attempt_count
         /\ jobs'[j].lease_owner = jobs[j].lease_owner
  BY QueueAssumption DEF Renew, MayRenew, JobsTypeOK, JobRow, SameRows

\* succeed ends the owner's running job.
LEMMA SucceedRow ==
  ASSUME JobsTypeOK, NEW w \in Worker, NEW j \in Job, Succeed(w, j)
  PROVE  /\ JobsTypeOK' /\ SameRows({j})
         /\ OwnedBy(j, w) /\ jobs'[j].status = "succeeded"
         /\ jobs'[j].attempt_count = jobs[j].attempt_count
         /\ jobs'[j].lease_owner = NoWorker /\ jobs'[j].lease = 0
  <1> DEFINE row == Done(jobs[j])
  <1>1. jobs[j] \in JobRow /\ 0 \in 0 .. LeaseTicks
    BY QueueAssumption DEF JobsTypeOK
  <1>2. /\ row \in JobRow /\ row.status = "succeeded"
        /\ row.attempt_count = jobs[j].attempt_count
        /\ row.lease_owner = NoWorker /\ row.lease = 0
    BY <1>1 DEF Done, JobRow, Status
  <1>3. jobs' = [jobs EXCEPT ![j] = row] /\ OwnedBy(j, w)
    BY DEF Succeed, MaySucceed
  <1> HIDE DEF row
  <1> QED BY <1>2, <1>3 DEF JobsTypeOK, SameRows

\* A row given back is queued or failed, as attempts are left or not, and
\* unowned.
LEMMA RequeuedRow ==
  ASSUME NEW row \in JobRow, NEW next \in {"null", "later", "due"}
  PROVE  /\ Requeued(row, next) \in JobRow
         /\ Requeued(row, next).status = IF row.attempt_count < MaxAttempts
                                         THEN "queued" ELSE "failed"
         /\ Requeued(row, next).attempt_count = row.attempt_count
         /\ Requeued(row, next).lease_owner = NoWorker
         /\ Requeued(row, next).lease = 0
  <1>1. 0 \in 0 .. LeaseTicks BY QueueAssumption
  <1>2. CASE row.attempt_count < MaxAttempts
    BY <1>1, <1>2 DEF Requeued, CanRetry, JobRow, Status
  <1>3. CASE ~ (row.attempt_count < MaxAttempts)
    BY <1>1, <1>3 DEF Requeued, CanRetry, JobRow, Status
  <1> QED BY <1>2, <1>3

\* fail gives the owner's job back.
LEMMA FailRow ==
  ASSUME JobsTypeOK, NEW w \in Worker, NEW j \in Job, Fail(w, j)
  PROVE  /\ JobsTypeOK' /\ SameRows({j})
         /\ OwnedBy(j, w)
         /\ jobs'[j].status = IF jobs[j].attempt_count < MaxAttempts
                              THEN "queued" ELSE "failed"
         /\ jobs'[j].attempt_count = jobs[j].attempt_count
         /\ jobs'[j].lease_owner = NoWorker /\ jobs'[j].lease = 0
  <1> DEFINE row == IF CanRetry(jobs[j]) THEN Requeued(jobs[j], "later")
                    ELSE GivenUp(jobs[j])
  <1>1. jobs[j] \in JobRow BY DEF JobsTypeOK
  <1>2. /\ row \in JobRow
        /\ row.status = IF jobs[j].attempt_count < MaxAttempts THEN "queued" ELSE "failed"
        /\ row.attempt_count = jobs[j].attempt_count
        /\ row.lease_owner = NoWorker /\ row.lease = 0
    <2> DEFINE back == Requeued(jobs[j], "later")
    <2>1. /\ back \in JobRow
          /\ back.status = IF jobs[j].attempt_count < MaxAttempts THEN "queued" ELSE "failed"
          /\ back.attempt_count = jobs[j].attempt_count
          /\ back.lease_owner = NoWorker /\ back.lease = 0
      BY <1>1, RequeuedRow
    <2> HIDE DEF back
    <2>2. [back EXCEPT !.next_attempt = "null"] \in JobRow
      BY <2>1 DEF JobRow
    <2> QED BY <2>1, <2>2 DEF GivenUp, back, JobRow
  <1>3. jobs' = [jobs EXCEPT ![j] = row] /\ OwnedBy(j, w)
    BY DEF Fail, MayFail
  <1> HIDE DEF row
  <1> QED BY <1>2, <1>3 DEF JobsTypeOK, SameRows

\* request_cancel ends a queued job and only marks a running one.
LEMMA CancelRow ==
  ASSUME JobsTypeOK, NEW j \in Job, RequestCancel(j)
  PROVE  /\ JobsTypeOK' /\ SameRows({j})
         /\ \/ jobs[j].status = "queued" /\ jobs'[j].status = "cancelled"
            \/ jobs[j].status = "running" /\ jobs'[j].status = "running"
         /\ jobs'[j].attempt_count = jobs[j].attempt_count
         /\ jobs'[j].lease_owner = jobs[j].lease_owner
         /\ jobs'[j].lease = jobs[j].lease
  <1> DEFINE row == Cancelled(jobs[j])
  <1>1. jobs[j] \in JobRow /\ jobs[j].status \in {"queued", "running"}
    BY DEF JobsTypeOK, RequestCancel
  <1>2. /\ row \in JobRow
        /\ row.status = IF jobs[j].status = "queued" THEN "cancelled" ELSE jobs[j].status
        /\ row.attempt_count = jobs[j].attempt_count
        /\ row.lease_owner = jobs[j].lease_owner /\ row.lease = jobs[j].lease
    BY <1>1 DEF Cancelled, JobRow, Status
  <1>3. jobs' = [jobs EXCEPT ![j] = row]
    BY DEF RequestCancel
  <1> HIDE DEF row
  <1> QED BY <1>1, <1>2, <1>3 DEF JobsTypeOK, SameRows

\* The recovery of expired leases gives back exactly the expired rows.
LEMMA RecoverRows ==
  ASSUME JobsTypeOK, RecoverExpired
  PROVE  /\ JobsTypeOK'
         /\ \A j \in Job :
              IF Expired(j)
              THEN /\ jobs'[j].status = IF jobs[j].attempt_count < MaxAttempts
                                        THEN "queued" ELSE "failed"
                   /\ jobs'[j].attempt_count = jobs[j].attempt_count
                   /\ jobs'[j].lease_owner = NoWorker /\ jobs'[j].lease = 0
              ELSE jobs'[j] = jobs[j]
  <1>1. \A j \in Job : jobs[j] \in JobRow BY DEF JobsTypeOK
  <1>2. \A j \in Job :
          /\ Requeued(jobs[j], "due") \in JobRow
          /\ Requeued(jobs[j], "due").status = IF jobs[j].attempt_count < MaxAttempts
                                               THEN "queued" ELSE "failed"
          /\ Requeued(jobs[j], "due").attempt_count = jobs[j].attempt_count
          /\ Requeued(jobs[j], "due").lease_owner = NoWorker
          /\ Requeued(jobs[j], "due").lease = 0
    BY <1>1, RequeuedRow
  <1> QED BY <1>1, <1>2 DEF RecoverExpired, JobsTypeOK

\* Time changes leases and retry times only.
LEMMA ClockRows ==
  ASSUME JobsTypeOK, Tick \/ \E j \in Job : RetryDue(j)
  PROVE  /\ JobsTypeOK'
         /\ \A j \in Job : /\ jobs'[j].status = jobs[j].status
                           /\ jobs'[j].attempt_count = jobs[j].attempt_count
                           /\ jobs'[j].lease_owner = jobs[j].lease_owner
                           /\ jobs'[j].lease <= jobs[j].lease
  <1>1. \A j \in Job : jobs[j] \in JobRow /\ jobs[j].lease \in 0 .. LeaseTicks
    BY DEF JobsTypeOK, JobRow
  <1>2. CASE Tick
    BY <1>1, <1>2, QueueAssumption DEF Tick, JobsTypeOK, JobRow
  <1>3. CASE \E j \in Job : RetryDue(j)
    BY <1>1, <1>3, QueueAssumption DEF RetryDue, JobsTypeOK, JobRow
  <1> QED BY <1>2, <1>3
=============================================================================
