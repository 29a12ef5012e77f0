------------------------------ MODULE JobQueue ------------------------------
(***************************************************************************)
(* The durable job queue: the PostgreSQL table jobs and the operations of  *)
(* SqlAlchemyJobQueue on it.  Every operation is one transaction (the unit *)
(* of work commits on exit), hence one action.                             *)
(*                                                                         *)
(* Time is abstracted twice.  A lease is the number of clock ticks left    *)
(* before lease_expires_at (0: it has passed); Tick lets the clock pass    *)
(* for every lease at once.  next_attempt_at is NULL, still ahead          *)
(* ("later") or reached ("due").                                           *)
(*                                                                         *)
(* The operations leave the workers' own state alone: WorkerPool calls     *)
(* them from the worker loop.                                              *)
(***************************************************************************)
EXTENDS Naturals

CONSTANTS
  MaxJobs,      \* bound: jobs ever enqueued
  Worker,       \* worker ids
  Priority,     \* priorities in use
  MaxAttempts,  \* max_attempts of every job
  LeaseTicks,   \* length of a lease, in clock ticks
  NoWorker      \* lease_owner IS NULL

ASSUME QueueAssumption ==
  /\ MaxJobs \in Nat
  /\ Priority \subseteq Nat
  /\ MaxAttempts \in Nat \ {0}
  /\ LeaseTicks \in Nat \ {0}
  /\ NoWorker \notin Worker

VARIABLE jobs   \* the rows of the table jobs

\* Jobs are numbered in the order of created_at.
Job == 1 .. MaxJobs

Status == {"absent", "queued", "running", "succeeded", "failed", "cancelled"}

Terminal == {"succeeded", "failed", "cancelled"}

\* checkpoint_json, which succeed and fail may store and no worker reads, is left out.
JobRow ==
  [status           : Status,
   priority         : Priority,
   attempt_count    : 0 .. MaxAttempts,
   lease_owner      : Worker \cup {NoWorker},
   lease            : 0 .. LeaseTicks,
   next_attempt     : {"null", "later", "due"},
   cancel_requested : BOOLEAN]

JobsTypeOK == jobs \in [Job -> JobRow]

NewRow(p, s) ==
  [status |-> s, priority |-> p, attempt_count |-> 0, lease_owner |-> NoWorker,
   lease |-> 0, next_attempt |-> "null", cancel_requested |-> FALSE]

JobsInit == jobs \in [Job -> {NewRow(p, "absent") : p \in Priority}]

Running(j) == jobs[j].status = "running"

OwnedBy(j, w) == Running(j) /\ jobs[j].lease_owner = w

\* Mutant of CanRetry: one attempt too many.
CanRetryOnceMore(row) == row.attempt_count <= MaxAttempts

CanRetry(row) == row.attempt_count < MaxAttempts

-----------------------------------------------------------------------------
\* enqueue: the row is inserted with the table's defaults.
Enqueue(j) ==
  /\ jobs[j].status = "absent"
  /\ \A i \in Job : i < j => jobs[i].status # "absent"
  /\ jobs' = [jobs EXCEPT ![j] = NewRow(@.priority, "queued")]

Claimable(j) ==
  /\ jobs[j].status = "queued"
  /\ jobs[j].next_attempt # "later"
  /\ CanRetry(jobs[j])

\* ORDER BY priority DESC, next_attempt_at NULLS FIRST, created_at.  Two
\* reached retry times may be in either order.
Precedes(i, j) ==
  \/ jobs[i].priority > jobs[j].priority
  \/ /\ jobs[i].priority = jobs[j].priority
     /\ jobs[i].next_attempt = "null"
     /\ jobs[j].next_attempt = "null" => i < j

\* What claim makes of a row.
Begun(row, w) ==
  [row EXCEPT !.status = "running", !.lease_owner = w, !.lease = LeaseTicks,
              !.attempt_count = @ + 1]

\* claim takes effect when its SELECT ... FOR UPDATE SKIP LOCKED locks the row:
\* from then on no other claim sees it.  cancel_requested_at is not looked at.
Claim(w, j) ==
  /\ Claimable(j)
  /\ \A i \in Job \ {j} : Claimable(i) => ~ Precedes(i, j)
  /\ jobs' = [jobs EXCEPT ![j] = Begun(@, w)]

\* heartbeat renews a lease that has not run out yet.
MayRenew(w, j) == OwnedBy(j, w) /\ jobs[j].lease > 0

Renew(w, j) ==
  /\ MayRenew(w, j)
  /\ jobs' = [jobs EXCEPT ![j].lease = LeaseTicks]

\* Mutant of MaySucceed: the owner is not compared.
MaySucceedUnowned(w, j) == Running(j)

\* succeed asks for the owner only, not for an unexpired lease.
MaySucceed(w, j) == OwnedBy(j, w)

\* What succeed makes of a row.
Done(row) ==
  [row EXCEPT !.status = "succeeded", !.lease_owner = NoWorker, !.lease = 0]

Succeed(w, j) ==
  /\ MaySucceed(w, j)
  /\ jobs' = [jobs EXCEPT ![j] = Done(@)]

\* Mutants of Requeued: lease_owner is not reset; the attempt is not counted.
RequeuedOwned(row, next) ==
  [row EXCEPT
    !.status       = IF CanRetry(row) THEN "queued" ELSE "failed",
    !.next_attempt = IF CanRetry(row) THEN next ELSE @,
    !.lease        = 0]

RequeuedRefunded(row, next) ==
  [row EXCEPT
    !.status        = IF CanRetry(row) THEN "queued" ELSE "failed",
    !.attempt_count = IF CanRetry(row) THEN @ - 1 ELSE @,
    !.next_attempt  = IF CanRetry(row) THEN next ELSE @,
    !.lease_owner   = NoWorker,
    !.lease         = 0]

\* What fail and the recovery of an expired lease make of a row: back to the
\* queue while attempts are left, failed otherwise.
Requeued(row, next) ==
  [row EXCEPT
    !.status       = IF CanRetry(row) THEN "queued" ELSE "failed",
    !.next_attempt = IF CanRetry(row) THEN next ELSE @,
    !.lease_owner  = NoWorker,
    !.lease        = 0]

MayFail(w, j) == OwnedBy(j, w)

\* fail clears next_attempt_at when no attempt is left; the retry delay is
\* positive, so a requeued job is not claimable at once.
GivenUp(row) == [Requeued(row, "later") EXCEPT !.next_attempt = "null"]

Fail(w, j) ==
  /\ MayFail(w, j)
  /\ jobs' = [jobs EXCEPT ![j] =
                IF CanRetry(jobs[j]) THEN Requeued(@, "later") ELSE GivenUp(@)]

\* Mutant of Cancelled: a running job is ended as well.
CancelledAtOnce(row) == [row EXCEPT !.status = "cancelled", !.cancel_requested = TRUE]

\* request_cancel ends a queued job and marks a running one.
Cancelled(row) ==
  [row EXCEPT !.status = IF @ = "queued" THEN "cancelled" ELSE @,
              !.cancel_requested = TRUE]

RequestCancel(j) ==
  /\ jobs[j].status \in {"queued", "running"}
  /\ jobs' = [jobs EXCEPT ![j] = Cancelled(@)]

\* Mutant of Expired: the lease is not looked at.
ExpiredAnyLease(j) == Running(j)

Expired(j) == Running(j) /\ jobs[j].lease = 0

\* Mutant of RecoverExpired: without the second UPDATE, exhausted rows stay.
RecoverRetryable ==
  jobs' = [j \in Job |->
            IF Expired(j) /\ CanRetry(jobs[j]) THEN Requeued(jobs[j], "due") ELSE jobs[j]]

\* recover_expired_leases: both UPDATEs, over all expired rows.
RecoverExpired ==
  jobs' = [j \in Job |-> IF Expired(j) THEN Requeued(jobs[j], "due") ELSE jobs[j]]

-----------------------------------------------------------------------------
\* The database clock passes for every lease.
Tick ==
  /\ \E j \in Job : jobs[j].lease > 0
  /\ jobs' = [j \in Job |->
                [jobs[j] EXCEPT !.lease = IF @ > 0 THEN @ - 1 ELSE 0]]

\* A retry delay (at most 300 seconds) runs out.
RetryDue(j) ==
  /\ jobs[j].next_attempt = "later"
  /\ jobs' = [jobs EXCEPT ![j].next_attempt = "due"]
=============================================================================
