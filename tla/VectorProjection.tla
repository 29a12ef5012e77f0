-------------------------- MODULE VectorProjection --------------------------
(***************************************************************************)
(* The projection of current chunks into the Qdrant collection of one      *)
(* embedding profile: ChunkProjectionService.run over the transactional    *)
(* outbox and status rows of ProjectionStore.  Runs are started by jobs    *)
(* (project_chunks, rebuild_vector_projection), so several workers may be  *)
(* inside runs at once, a run may die between any two of its steps, and    *)
(* documents change underneath all of them.                                *)
(*                                                                         *)
(* A chunk stands for one chunk id.  Ids are derived from the document and *)
(* the hash of its content, so a document whose old content returns gets   *)
(* the same chunks back.  A chunk is live while it belongs to the current  *)
(* version of an active document.  Vectors and payloads are left out.      *)
(***************************************************************************)
EXTENDS Naturals, FiniteSets

CONSTANTS
  Chunk,
  Worker,           \* workers that may run a projection
  Scope,            \* the chunk sets a run may cover: one vault, or all (their union)
  BatchSize,        \* projection_batch_size
  MaxAttempts,      \* max_attempts of an outbox row
  Rebuild,          \* subset of BOOLEAN: kinds of run that are started
  ContentReturns,   \* may a document return to content it had before?
  MaxRuns,          \* bound: runs started
  MaxEdits,         \* bound: changes of the live chunks
  MaxGeneration,    \* bound: generations of delete operations
  MaxCrashes        \* bound: runs that die

ASSUME ProjectionAssumption ==
  /\ Scope \subseteq SUBSET Chunk /\ UNION Scope = Chunk
  /\ BatchSize \in Nat \ {0} /\ MaxAttempts \in Nat \ {0}
  /\ Rebuild \subseteq BOOLEAN /\ ContentReturns \in BOOLEAN
  /\ MaxRuns \in Nat /\ MaxEdits \in Nat /\ MaxCrashes \in Nat
  /\ MaxGeneration \in Nat \ {0, 1}

VARIABLES
  live,       \* chunks of current versions of active documents
  lived,      \* chunks that were live at some time
  outbox,     \* projection_outbox, by idempotency key
  status,     \* projection_status, by chunk
  exists,     \* does the collection exist in Qdrant?
  points,     \* ids of the points in it
  dropped,    \* has a rebuild dropped the points and none enqueued them again?
  active,     \* alias on the collection, profile is_active
  pc,         \* pc[w]: where w is in run()
  token,      \* token[w]: rebuild_token (0: none)
  scope,      \* scope[w]: the chunks the run covers
  began,      \* began[w]: the runs there had been when its enqueue began (0: not yet)
  rows,       \* rows[w]: current_rows, the chunks its enqueue wants upserted
  seen,       \* seen[w]: current_ids, the chunks its enqueue takes for current
  upserts,    \* upserts[w]: items to upsert, or upserted and not yet marked
  deletes,    \* deletes[w]: items to delete, or deleted and not yet marked
  runs, edits, crashes

store == <<outbox, status>>
qdrant == <<exists, points, dropped>>
bounds == <<runs, edits, crashes>>
vars == <<live, lived, store, qdrant, active, pc, token, scope, began, rows, seen,
          upserts, deletes, bounds>>

\* target + object type + object id + generation + operation (+ profile and
\* rebuild token).  projection_generation of a chunk row is always 1.
UpsertKey(c, t) == [chunk |-> c, operation |-> "upsert", generation |-> 1, token |-> t]
DeleteKey(c, g) == [chunk |-> c, operation |-> "delete", generation |-> g, token |-> 0]

Key == {UpsertKey(c, t) : c \in Chunk, t \in 0 .. MaxRuns}
         \cup {DeleteKey(c, g) : c \in Chunk, g \in 2 .. MaxGeneration}

Row == [status  : {"none", "pending", "processing", "succeeded", "failed"},
        attempt : 0 .. MaxAttempts,
        leased  : BOOLEAN,             \* lease_expires_at is ahead
        due     : BOOLEAN,             \* next_attempt_at NULL or reached
        created : 0 .. MaxRuns]        \* created_at, the time its transaction began

StatusRow == [state : {"none", "pending", "current", "deleted", "failed"},
              generation : 0 .. MaxGeneration]

NoRow == [status |-> "none", attempt |-> 0, leased |-> FALSE, due |-> FALSE,
          created |-> 0]

PendingRow(w) == [NoRow EXCEPT !.status = "pending", !.due = TRUE, !.created = began[w]]

RunState == {"idle", "dropping", "ensuring", "reading", "rereading", "enqueueing", "claiming",
             "upserting", "upserted", "upsertFailed",
             "deleting", "deleted", "deleteFailed", "closing", "activating"}

TypeOK ==
  /\ live \subseteq lived /\ lived \subseteq Chunk
  /\ outbox \in [Key -> Row]
  /\ status \in [Chunk -> StatusRow]
  /\ {exists, dropped, active} \subseteq BOOLEAN /\ points \subseteq Chunk
  /\ pc \in [Worker -> RunState]
  /\ token \in [Worker -> 0 .. MaxRuns]
  /\ scope \in [Worker -> SUBSET Chunk] /\ began \in [Worker -> 0 .. MaxRuns]
  /\ rows \in [Worker -> SUBSET Chunk] /\ seen \in [Worker -> SUBSET Chunk]
  /\ upserts \in [Worker -> SUBSET Key] /\ deletes \in [Worker -> SUBSET Key]
  /\ runs \in 0 .. MaxRuns /\ edits \in 0 .. MaxEdits /\ crashes \in 0 .. MaxCrashes

\* Nothing is indexed yet, or a run has indexed the chunks there are.
Init ==
  /\ live \in SUBSET Chunk /\ lived = live
  /\ \E indexed \in {{}, live} :
       /\ outbox = [k \in Key |->
            IF \E c \in indexed : k = UpsertKey(c, 0)
            THEN [NoRow EXCEPT !.status = "succeeded", !.attempt = 1, !.due = TRUE]
            ELSE NoRow]
       /\ status = [c \in Chunk |->
            IF c \in indexed THEN [state |-> "current", generation |-> 1]
            ELSE [state |-> "none", generation |-> 0]]
       /\ exists = (indexed # {}) /\ points = indexed /\ active = (indexed # {})
  /\ dropped = FALSE
  /\ pc = [w \in Worker |-> "idle"]
  /\ token = [w \in Worker |-> 0]
  /\ scope = [w \in Worker |-> {}] /\ began = [w \in Worker |-> 0]
  /\ rows = [w \in Worker |-> {}] /\ seen = [w \in Worker |-> {}]
  /\ upserts = [w \in Worker |-> {}] /\ deletes = [w \in Worker |-> {}]
  /\ runs = 0 /\ edits = 0 /\ crashes = 0

Goto(w, state) == pc' = [pc EXCEPT ![w] = state]

\* What is left of a run in memory when it returns, raises or dies.
EndRun(w) ==
  /\ Goto(w, "idle")
  /\ token' = [token EXCEPT ![w] = 0]
  /\ scope' = [scope EXCEPT ![w] = {}] /\ began' = [began EXCEPT ![w] = 0]
  /\ rows' = [rows EXCEPT ![w] = {}] /\ seen' = [seen EXCEPT ![w] = {}]
  /\ upserts' = [upserts EXCEPT ![w] = {}] /\ deletes' = [deletes EXCEPT ![w] = {}]

-----------------------------------------------------------------------------
(***************************************************************************)
(* Documents, time and failure.                                            *)
(***************************************************************************)

\* A scan stores, re-parses, loses or drops documents: one transaction each.
Edit ==
  /\ edits < MaxEdits
  /\ \E gone \in SUBSET live, new \in SUBSET (Chunk \ live) :
       /\ Cardinality(gone) <= 1 /\ Cardinality(new) <= 1
       /\ gone \cup new # {}
       /\ ContentReturns \/ new \cap lived = {}
       /\ live' = (live \ gone) \cup new
       /\ lived' = lived \cup new
  /\ edits' = edits + 1
  /\ UNCHANGED <<store, qdrant, active, pc, token, scope, began, rows, seen, upserts, deletes,
                 runs, crashes>>

\* Outbox leases run out and retry delays pass.  Nothing but a claim looks at either, so
\* that they may do so when somebody is about to claim.
Time ==
  /\ \E w \in Worker : pc[w] = "claiming"
  /\ \E k \in Key :
       \/ outbox[k].leased /\ outbox' = [outbox EXCEPT ![k].leased = FALSE]
       \/ /\ outbox[k].status = "pending" /\ ~ outbox[k].due
          /\ outbox' = [outbox EXCEPT ![k].due = TRUE]
  /\ UNCHANGED <<live, lived, status, qdrant, active, pc, token, scope, began, rows, seen,
                 upserts, deletes, bounds>>

Crash(w) ==
  /\ pc[w] # "idle"
  /\ crashes < MaxCrashes
  /\ EndRun(w)
  /\ crashes' = crashes + 1
  /\ UNCHANGED <<live, lived, store, qdrant, active, runs, edits>>

-----------------------------------------------------------------------------
(***************************************************************************)
(* run(): up to the loop.                                                  *)
(***************************************************************************)

\* The probes of the provider have passed and the profile is registered.
Begin(w) ==
  /\ pc[w] = "idle"
  /\ runs < MaxRuns
  /\ runs' = runs + 1
  /\ \E rebuild \in Rebuild :
       /\ Goto(w, IF rebuild THEN "dropping" ELSE "ensuring")
       /\ token' = [token EXCEPT ![w] = IF rebuild THEN runs + 1 ELSE 0]
       /\ \E s \in Scope :   \* a rebuild covers every vault
            /\ rebuild => s = UNION Scope
            /\ scope' = [scope EXCEPT ![w] = s]
  /\ UNCHANGED <<live, lived, store, qdrant, active, began, rows, seen, upserts, deletes,
                 edits, crashes>>

DropCollection(w) ==
  /\ pc[w] = "dropping"
  /\ exists' = FALSE /\ points' = {} /\ dropped' = TRUE
  /\ Goto(w, "ensuring")
  /\ UNCHANGED <<live, lived, store, active, token, scope, began, rows, seen, upserts, deletes,
                 bounds>>

EnsureCollection(w) ==
  /\ pc[w] = "ensuring"
  /\ exists' = TRUE
  /\ Goto(w, "reading")
  /\ UNCHANGED <<live, lived, store, points, dropped, active, token, scope, began, rows, seen,
                 upserts, deletes, bounds>>

(***************************************************************************)
(* enqueue_current_chunks: one transaction, under READ COMMITTED.  Each    *)
(* statement sees what others have committed by then, so that the chunks   *)
(* to upsert, the chunks taken for current and the status rows may be of   *)
(* three moments.  The statements that write are one action with the query *)
(* of status rows between them: nobody sees their rows before the commit,  *)
(* and who inserts the same key waits for it.                              *)
(***************************************************************************)

\* current_query: the current chunks of the vault, or of all of them.
ReadCurrent(w) ==
  /\ pc[w] = "reading"
  /\ began' = [began EXCEPT ![w] = runs]
  /\ rows' = [rows EXCEPT ![w] = live \cap scope[w]]
  /\ seen' = [seen EXCEPT ![w] = live \cap scope[w]]
  /\ Goto(w, IF scope[w] = UNION Scope THEN "enqueueing" ELSE "rereading")
  /\ UNCHANGED <<live, lived, store, qdrant, active, token, scope, upserts, deletes, bounds>>

\* Mutant of ReadAllCurrent: what is outside the vault is not read.
ReadOwnCurrent(w) ==
  /\ pc[w] = "rereading"
  /\ Goto(w, "enqueueing")
  /\ UNCHANGED <<live, lived, store, qdrant, active, token, scope, began, rows, seen, upserts,
                 deletes, bounds>>

\* all_current_ids_query: a run of one vault reads the current chunks of all of them, as
\* status rows do not tell vaults apart.
ReadAllCurrent(w) ==
  /\ pc[w] = "rereading"
  /\ seen' = [seen EXCEPT ![w] = live]
  /\ Goto(w, "enqueueing")
  /\ UNCHANGED <<live, lived, store, qdrant, active, token, scope, began, rows, upserts,
                 deletes, bounds>>

Inserted(keys) == {k \in keys : outbox[k].status = "none"}

\* Keys of the upserts asked for; those that exist already are left as they are.
WantedUpserts(w) == {UpsertKey(c, token[w]) : c \in rows[w]}

\* The status row of c once the upserts are inserted.
StatusThen(w, c) ==
  IF \E k \in Inserted(WantedUpserts(w)) : k.chunk = c
  THEN [state |-> "pending", generation |-> 1]
  ELSE status[c]

\* Chunks with a status row that is not "deleted" and that are not taken for current.
Stale(w) == {c \in Chunk \ seen[w] : StatusThen(w, c).state \notin {"none", "deleted"}}

WantedDeletes(w) == {DeleteKey(c, StatusThen(w, c).generation + 1) : c \in Stale(w)}

Enqueue(w) ==
  /\ pc[w] = "enqueueing"
  /\ WantedDeletes(w) \subseteq Key     \* MaxGeneration
  /\ outbox' = [k \in Key |->
       IF k \in Inserted(WantedUpserts(w) \cup WantedDeletes(w)) THEN PendingRow(w)
       ELSE outbox[k]]
  /\ status' = [c \in Chunk |->
       IF \E k \in Inserted(WantedDeletes(w)) : k.chunk = c
       THEN [state |-> "pending", generation |-> StatusThen(w, c).generation + 1]
       ELSE StatusThen(w, c)]
  /\ dropped' = (dropped /\ token[w] = 0)
  /\ Goto(w, "claiming")
  /\ UNCHANGED <<live, lived, exists, points, active, token, scope, began, rows, seen, upserts,
                 deletes, bounds>>

-----------------------------------------------------------------------------
(***************************************************************************)
(* run(): the loop over claimed batches.                                   *)
(***************************************************************************)

\* Mutant of Claimable: attempts are not limited.
ClaimableForEver(k) ==
  \/ outbox[k].status = "pending" /\ outbox[k].due
  \/ outbox[k].status = "processing" /\ ~ outbox[k].leased

Claimable(k) ==
  /\ outbox[k].attempt < MaxAttempts
  /\ \/ outbox[k].status = "pending" /\ outbox[k].due
     \/ outbox[k].status = "processing" /\ ~ outbox[k].leased

\* claim_batch: the oldest claimable rows; rows of one transaction have the same
\* created_at and random ids, and so do those of transactions that no run came between.
Batches ==
  LET claimable == {k \in Key : Claimable(k)} IN
  {B \in SUBSET claimable :
     /\ \/ B = claimable /\ Cardinality(B) <= BatchSize
        \/ B # claimable /\ Cardinality(B) = BatchSize
     /\ \A k \in B, l \in claimable \ B : outbox[k].created <= outbox[l].created}

\* An upsert whose chunk is not current when it is claimed is handled as a
\* delete; a delete is a delete even when its chunk is current again.
CurrentUpsert(k) == k.operation = "upsert" /\ k.chunk \in live

ClaimBatch(w) ==
  /\ pc[w] = "claiming"
  /\ \E B \in Batches :
       /\ outbox' = [k \in Key |->
            IF k \in B THEN [outbox[k] EXCEPT !.status = "processing",
                                              !.leased = TRUE, !.attempt = @ + 1]
            ELSE outbox[k]]
       /\ LET ups == {k \in B : CurrentUpsert(k)} IN
            /\ upserts' = [upserts EXCEPT ![w] = ups]
            /\ deletes' = [deletes EXCEPT ![w] = B \ ups]
            /\ Goto(w, CASE B = {}   -> "closing"
                         [] ups # {} -> "upserting"
                         [] OTHER    -> "deleting")
  /\ UNCHANGED <<live, lived, status, qdrant, active, token, scope, began, rows, seen, bounds>>

ChunksOf(keys) == {k.chunk : k \in keys}

\* Embed, then one PUT for the batch.  It fails when the embedding does, when
\* Qdrant does, or when another run has dropped the collection; and its answer may
\* be lost after Qdrant has done it.
UpsertPoints(w) ==
  /\ pc[w] = "upserting"
  /\ \/ /\ exists
        /\ points' = points \cup ChunksOf(upserts[w])
        /\ Goto(w, "upserted")
     \/ /\ Goto(w, "upsertFailed")
        /\ points' \in {points} \cup {points \cup ChunksOf(upserts[w]) : e \in {exists} \ {FALSE}}
  /\ UNCHANGED <<live, lived, store, exists, dropped, active, token, scope, began, rows, seen,
                 upserts, deletes, bounds>>

DeletePoints(w) ==
  /\ pc[w] = "deleting"
  /\ \/ /\ exists
        /\ points' = points \ ChunksOf(deletes[w])
        /\ Goto(w, "deleted")
     \/ /\ Goto(w, "deleteFailed")
        /\ points' \in {points, points \ ChunksOf(deletes[w])}
  /\ UNCHANGED <<live, lived, store, exists, dropped, active, token, scope, began, rows, seen,
                 upserts, deletes, bounds>>

\* Mutants of Succeeded: is_current is not looked at; it is taken the wrong way
\* round.
SucceededAsAsked(k, wasCurrent) ==
  /\ outbox' = [outbox EXCEPT ![k] =
       IF @.status = "processing" THEN [@ EXCEPT !.status = "succeeded", !.leased = FALSE]
       ELSE @]
  /\ status' = [status EXCEPT ![k.chunk] =
       [state |-> IF k.operation = "upsert" THEN "current" ELSE "deleted",
        generation |-> k.generation]]

SucceededInverted(k, wasCurrent) ==
  /\ outbox' = [outbox EXCEPT ![k] =
       IF @.status = "processing" THEN [@ EXCEPT !.status = "succeeded", !.leased = FALSE]
       ELSE @]
  /\ status' = [status EXCEPT ![k.chunk] =
       [state |-> IF k.operation = "delete" \/ wasCurrent THEN "deleted" ELSE "current",
        generation |-> k.generation]]

\* mark_succeeded: the outbox row only if it is still processing, the status row
\* in any case.  wasCurrent is the item's is_current, read at the claim.
Succeeded(k, wasCurrent) ==
  /\ outbox' = [outbox EXCEPT ![k] =
       IF @.status = "processing" THEN [@ EXCEPT !.status = "succeeded", !.leased = FALSE]
       ELSE @]
  /\ status' = [status EXCEPT ![k.chunk] =
       [state |-> IF wasCurrent THEN "current" ELSE "deleted",
        generation |-> k.generation]]

MarkUpserted(w) ==
  /\ pc[w] = "upserted"
  /\ \E k \in upserts[w] :
       /\ Succeeded(k, TRUE)
       /\ upserts' = [upserts EXCEPT ![w] = @ \ {k}]
       /\ IF upserts[w] # {k} THEN UNCHANGED pc
          ELSE Goto(w, IF deletes[w] = {} THEN "claiming" ELSE "deleting")
  /\ UNCHANGED <<live, lived, qdrant, active, token, scope, began, rows, seen, deletes, bounds>>

MarkDeleted(w) ==
  /\ pc[w] = "deleted"
  /\ \E k \in deletes[w] :
       /\ Succeeded(k, FALSE)
       /\ deletes' = [deletes EXCEPT ![w] = @ \ {k}]
       /\ IF deletes[w] # {k} THEN UNCHANGED pc ELSE Goto(w, "claiming")
  /\ UNCHANGED <<live, lived, qdrant, active, token, scope, began, rows, seen, upserts, bounds>>

\* mark_failed asks neither for the status of the row nor for its owner.
Failed(k) ==
  LET retryable == outbox[k].attempt < MaxAttempts IN
  /\ outbox' = [outbox EXCEPT ![k] =
       [@ EXCEPT !.status = IF retryable THEN "pending" ELSE "failed",
                 !.due = FALSE, !.leased = FALSE]]
  /\ status' = [status EXCEPT ![k.chunk].state =
       IF retryable THEN "pending" ELSE "failed"]

\* Every item of the failed call is marked, then run() raises.  After a failed
\* upsert the deletes of the same batch are not marked at all.
MarkFailed(w) ==
  /\ \/ /\ pc[w] = "upsertFailed"
        /\ \E k \in upserts[w] :
             /\ Failed(k)
             /\ IF upserts[w] = {k} THEN EndRun(w)
                ELSE /\ upserts' = [upserts EXCEPT ![w] = @ \ {k}]
                     /\ UNCHANGED <<pc, token, scope, began, rows, seen, deletes>>
     \/ /\ pc[w] = "deleteFailed"
        /\ \E k \in deletes[w] :
             /\ Failed(k)
             /\ IF deletes[w] = {k} THEN EndRun(w)
                ELSE /\ deletes' = [deletes EXCEPT ![w] = @ \ {k}]
                     /\ UNCHANGED <<pc, token, scope, began, rows, seen, upserts>>
  /\ UNCHANGED <<live, lived, qdrant, active, bounds>>

-----------------------------------------------------------------------------
(***************************************************************************)
(* run(): after the loop.                                                  *)
(***************************************************************************)

\* Mutant of Outstanding: what was given up is left out.
OutstandingNotFailed == {k \in Key : outbox[k].status \in {"pending", "processing"}}

Outstanding == {k \in Key : outbox[k].status \in {"pending", "processing", "failed"}}

\* outstanding_counts: anything waiting or given up makes run() raise.
CountOutstanding(w) ==
  /\ pc[w] = "closing"
  /\ IF Outstanding = {}
     THEN /\ Goto(w, "activating")
          /\ UNCHANGED <<token, scope, began, rows, seen, upserts, deletes>>
     ELSE EndRun(w)
  /\ UNCHANGED <<live, lived, store, qdrant, active, bounds>>

\* switch_alias and set_active_profile; the job succeeds.
Activate(w) ==
  /\ pc[w] = "activating"
  /\ active' = TRUE
  /\ EndRun(w)
  /\ UNCHANGED <<live, lived, store, qdrant, bounds>>

RunStep(w) ==
  \/ Begin(w) \/ DropCollection(w) \/ EnsureCollection(w)
  \/ ReadCurrent(w) \/ ReadAllCurrent(w) \/ Enqueue(w)
  \/ ClaimBatch(w) \/ UpsertPoints(w) \/ DeletePoints(w)
  \/ MarkUpserted(w) \/ MarkDeleted(w) \/ MarkFailed(w)
  \/ CountOutstanding(w) \/ Activate(w) \/ Crash(w)

Next == Edit \/ Time \/ \E w \in Worker : RunStep(w)

Spec == Init /\ [][Next]_vars

-----------------------------------------------------------------------------
(***************************************************************************)
(* Properties.  Which hold depends on what happens around a run: see the   *)
(* constants Worker, Rebuild and ContentReturns of each model.             *)
(***************************************************************************)

\* A run that gets as far as switching the alias has put into Qdrant every chunk
\* it covered that is still current, whatever crashed, failed or was retried
\* before: the index behind the alias misses nothing.  (Unless a rebuild died
\* between dropping the collection and enqueueing: no later run notices.)
CompleteRunIndexesAll ==
  \A w \in Worker :
    pc[w] = "activating" /\ ~ dropped => live \cap rows[w] \subseteq points

\* ... and has taken out of Qdrant every chunk that was no longer current when
\* the run looked.
CompleteRunLeavesNoOrphan ==
  \A w \in Worker : pc[w] = "activating" => points \subseteq live \cup seen[w]

\* A delete is only ever enqueued of a chunk that is gone, though a run reads in one
\* statement which chunks are current and in a later one what has a status row: what
\* is current is not taken out of Qdrant.  (Where no content returns.)
DeletesAreOfGone ==
  \A k \in Key : k.operation = "delete" /\ outbox[k].status # "none" => k.chunk \notin live

\* A point whose chunk is no longer current is never forgotten: an operation on
\* it is outstanding or in somebody's hands, or its status row will make the next
\* enqueue insert a delete that does not exist yet.
OrphanIsRemembered ==
  \A c \in points \ live :
    \/ \E k \in Outstanding : k.chunk = c
    \/ \E w \in Worker : c \in ChunksOf(upserts[w] \cup deletes[w])
    \/ /\ status[c].state \notin {"none", "deleted"}
       /\ DeleteKey(c, status[c].generation + 1) \in Inserted(Key)
    \/ status[c].generation = MaxGeneration

\* projection_status can be believed: "current" chunks are in the collection and
\* "deleted" ones are not, even between an external write and its mark; but for a
\* chunk with another operation outstanding, and until a rebuild has enqueued what
\* it dropped.
StatusIsTrue ==
  \A c \in Chunk :
    /\ status[c].state = "current" =>
         c \in points \/ dropped \/ \E k \in Outstanding : k.chunk = c
    /\ status[c].state = "deleted" => c \notin points
=============================================================================
