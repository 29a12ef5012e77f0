---------------------------- MODULE JobLifecycle ----------------------------
(***************************************************************************)
(* What the job queue promises to whoever enqueues a job, with no worker,  *)
(* lease or clock in sight: a job is tried at most MaxAttempts times, an   *)
(* attempt is only begun from the queue, a job is given up only after its  *)
(* last attempt, only a queued job is cancelled, and what has ended stays  *)
(* ended.  Several attempts may be abandoned in one step: the recovery of  *)
(* expired leases is one transaction.                                      *)
(***************************************************************************)
EXTENDS Naturals

CONSTANTS Job, MaxAttempts

VARIABLES
  phase,   \* phase[j]: where job j is in its life
  tried    \* tried[j]: attempts begun

lifecycleVars == <<phase, tried>>

LifecycleInit ==
  /\ phase = [j \in Job |-> "absent"]
  /\ tried = [j \in Job |-> 0]

Submit(j) ==
  /\ phase[j] = "absent"
  /\ phase' = [phase EXCEPT ![j] = "queued"]
  /\ UNCHANGED tried

Begin(j) ==
  /\ phase[j] = "queued"
  /\ tried[j] < MaxAttempts
  /\ phase' = [phase EXCEPT ![j] = "running"]
  /\ tried' = [tried EXCEPT ![j] = @ + 1]

Complete(j) ==
  /\ phase[j] = "running"
  /\ phase' = [phase EXCEPT ![j] = "succeeded"]
  /\ UNCHANGED tried

Abandon(J) ==
  /\ \A j \in J : phase[j] = "running"
  /\ phase' = [j \in Job |->
                IF j \notin J THEN phase[j]
                ELSE IF tried[j] < MaxAttempts THEN "queued" ELSE "failed"]
  /\ UNCHANGED tried

Cancel(j) ==
  /\ phase[j] = "queued"
  /\ phase' = [phase EXCEPT ![j] = "cancelled"]
  /\ UNCHANGED tried

LifecycleNext ==
  \/ \E j \in Job : Submit(j) \/ Begin(j) \/ Complete(j) \/ Cancel(j)
  \/ \E J \in SUBSET Job : Abandon(J)

LifecycleSpec == LifecycleInit /\ [][LifecycleNext]_lifecycleVars
=============================================================================
