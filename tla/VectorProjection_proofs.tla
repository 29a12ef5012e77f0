---------------------- MODULE VectorProjection_proofs ----------------------
(***************************************************************************)
(* Proofs about VectorProjection, for every set of chunks and workers and  *)
(* every bound.  The types are those of any number of workers; the rest is *)
(* about one, as two that enqueue at once can delete what is current.      *)
(* IndexInv follows the chunks a run has read into Qdrant; TruthInv adds   *)
(* that status rows, outbox and points agree.                              *)
(***************************************************************************)
EXTENDS VectorProjection, TLAPS

-----------------------------------------------------------------------------
(***************************************************************************)
(* The invariants.                                                         *)
(***************************************************************************)

OneWorker == \A v, w \in Worker : v = w

\* An operation on the chunk has been enqueued at some time.
Registered(c) == \E k \in Key : k.chunk = c /\ outbox[k].status # "none"

HasDelete(c) == \E k \in Key : k.chunk = c /\ k.operation = "delete" /\ outbox[k].status # "none"

InHand(w) == upserts[w] \cup deletes[w]

\* Operations concern chunks that have been live, deletes those that are not any more.
OperationsAreKnown ==
  /\ \A k \in Key : outbox[k].status # "none" =>
       k.chunk \in lived /\ (k.operation = "delete" => k.chunk \notin live)
  /\ \A c \in Chunk : status[c].state # "none" => c \in lived
  /\ \A w \in Worker :
       /\ \A k \in InHand(w) : outbox[k].status # "none"
       /\ \A k \in upserts[w] : k.operation = "upsert"
       /\ \A k \in deletes[w] : k.chunk \notin live

EnqueueingStates == {"dropping", "ensuring", "reading", "rereading", "enqueueing"}

Enqueued(w) == pc[w] \notin EnqueueingStates \cup {"idle"}

\* What a run has read is still true when it enqueues: a chunk that is current by then, and
\* that it has not read, is new to outbox and status rows.
ReadsAgree ==
  \A w \in Worker :
    /\ rows[w] \subseteq lived
    /\ pc[w] = "rereading" => scope[w] # Chunk
    /\ pc[w] = "enqueueing" =>
         /\ scope[w] = Chunk => rows[w] = seen[w]
         /\ \A c \in live :
              c \in rows[w] \/ Registered(c) \/ status[c].state # "none" => c \in seen[w]

\* A rebuild has a token of its own, covers everything, and enqueues anew.
TokensAreNew ==
  /\ \A k \in Key : k.token > runs => outbox[k].status = "none"
  /\ \A w \in Worker :
       /\ token[w] <= runs
       /\ token[w] # 0 => TRUE \in Rebuild /\ scope[w] = Chunk
       /\ token[w] # 0 /\ pc[w] \in EnqueueingStates =>
            \A c \in Chunk : outbox[UpsertKey(c, token[w])].status = "none"
  /\ \A v, w \in Worker : token[v] = token[w] /\ token[v] # 0 => v = w

\* An upsert of the chunk is outstanding that nobody has sent and not marked yet.
IsWaiting(c) ==
  \E k \in Outstanding :
    k.chunk = c /\ \A w \in Worker : ~ (pc[w] = "upserted" /\ k \in upserts[w])

EnqueuedIsThere ==
  ~ dropped => \A c \in live : Registered(c) => c \in points \/ IsWaiting(c)

SeenIsRegistered ==
  \A w \in Worker : Enqueued(w) => \A c \in rows[w] : Registered(c)

IndexInv ==
  /\ TypeOK /\ OperationsAreKnown /\ ReadsAgree /\ TokensAreNew /\ EnqueuedIsThere
  /\ SeenIsRegistered /\ CompleteRunIndexesAll

\* What a worker has in hand is being processed, and agrees with where it is.
HandAgrees(w) ==
  /\ upserts[w] \cap deletes[w] = {}
  /\ \A k \in InHand(w) : outbox[k].status = "processing"
  /\ pc[w] \notin {"upserting", "upserted", "upsertFailed"} => upserts[w] = {}
  /\ pc[w] \notin {"upserting", "upserted", "upsertFailed",
                   "deleting", "deleted", "deleteFailed"} => deletes[w] = {}
  /\ pc[w] = "upserted" => ChunksOf(upserts[w]) \subseteq points
  /\ pc[w] = "deleted" => ChunksOf(deletes[w]) \cap points = {}
  /\ \A k \in upserts[w] : status[k.chunk].state # "deleted" /\ ~ HasDelete(k.chunk)

HandsAgree == \A w \in Worker : HandAgrees(w)

StatusAgrees ==
  \A c \in Chunk :
    /\ Registered(c) \/ c \in points => status[c].state # "none"
    /\ c \in points => Registered(c)
    /\ status[c].state = "current" => ~ HasDelete(c) /\ status[c].generation = 1
    /\ status[c].state = "deleted" => c \notin live
    /\ status[c].state \in {"pending", "failed"} => \E k \in Outstanding : k.chunk = c

\* What a run has not seen is not current.
UnseenIsNotCurrent ==
  \A w \in Worker :
    /\ Enqueued(w) => \A c \in Chunk :
         /\ status[c].state = "current" => c \in seen[w]
         /\ Registered(c) /\ c \in live => c \in seen[w]
    /\ \A k \in upserts[w] : k.chunk \in seen[w]
    /\ pc[w] = "activating" => points \subseteq seen[w]

TruthInv == IndexInv /\ HandsAgree /\ StatusAgrees /\ StatusIsTrue /\ UnseenIsNotCurrent

-----------------------------------------------------------------------------
(***************************************************************************)
(* Keys and rows.                                                          *)
(***************************************************************************)

\* The idempotency keys there are.
LEMMA Keys ==
  /\ \A c \in Chunk, t \in 0 .. MaxRuns :
       /\ UpsertKey(c, t) \in Key /\ UpsertKey(c, t).chunk = c
       /\ UpsertKey(c, t).operation = "upsert" /\ UpsertKey(c, t).token = t
       /\ UpsertKey(c, t).generation = 1
  /\ \A c, g : /\ DeleteKey(c, g).chunk = c /\ DeleteKey(c, g).operation = "delete"
               /\ DeleteKey(c, g).generation = g /\ DeleteKey(c, g).token = 0
  /\ \A c \in Chunk : DeleteKey(c, 2) \in Key
  /\ \A k \in Key : /\ k.chunk \in Chunk /\ k.operation \in {"upsert", "delete"}
                    /\ k.generation \in 1 .. MaxGeneration /\ k.token \in 0 .. MaxRuns
                    /\ k.operation = "upsert" => k.generation = 1
BY ProjectionAssumption DEF Key, UpsertKey, DeleteKey

\* A row of the outbox after it is marked succeeded.
LEMMA SucceededRows ==
  ASSUME TypeOK, NEW k \in Key, NEW b \in BOOLEAN, Succeeded(k, b)
  PROVE  /\ outbox' \in [Key -> Row] /\ status' \in [Chunk -> StatusRow]
         /\ \A l \in Key : outbox'[l].status =
              IF l = k /\ outbox[k].status = "processing" THEN "succeeded" ELSE outbox[l].status
         /\ \A c \in Chunk : status'[c] =
              IF c = k.chunk
              THEN [state |-> IF b THEN "current" ELSE "deleted", generation |-> k.generation]
              ELSE status[c]
<1>1. /\ outbox \in [Key -> Row] /\ status \in [Chunk -> StatusRow]
      /\ k.chunk \in Chunk /\ k.generation \in 0 .. MaxGeneration
  BY Keys, ProjectionAssumption DEF TypeOK
<1>2. outbox' = [outbox EXCEPT ![k] =
        IF outbox[k].status = "processing"
        THEN [outbox[k] EXCEPT !.status = "succeeded", !.leased = FALSE] ELSE outbox[k]]
  BY DEF Succeeded
<1>3. outbox[k] \in Row
  BY <1>1
<1>4. /\ [outbox[k] EXCEPT !.status = "succeeded", !.leased = FALSE] \in Row
      /\ [outbox[k] EXCEPT !.status = "succeeded", !.leased = FALSE].status = "succeeded"
  BY <1>3 DEF Row
<1>5. /\ outbox' \in [Key -> Row]
      /\ \A l \in Key : outbox'[l].status =
           IF l = k /\ outbox[k].status = "processing" THEN "succeeded" ELSE outbox[l].status
  BY <1>1, <1>2, <1>3, <1>4
<1>6. /\ status' \in [Chunk -> StatusRow]
      /\ \A c \in Chunk : status'[c] =
           IF c = k.chunk
           THEN [state |-> IF b THEN "current" ELSE "deleted", generation |-> k.generation]
           ELSE status[c]
  BY <1>1 DEF Succeeded, StatusRow
<1> QED BY <1>5, <1>6

\* ... and after it is marked failed.
LEMMA FailedRows ==
  ASSUME TypeOK, NEW k \in Key, Failed(k)
  PROVE  /\ outbox' \in [Key -> Row] /\ status' \in [Chunk -> StatusRow]
         /\ \A l \in Key \ {k} : outbox'[l].status = outbox[l].status
         /\ outbox'[k].status \in {"pending", "failed"}
         /\ \A c \in Chunk \ {k.chunk} : status'[c] = status[c]
         /\ status'[k.chunk].state \in {"pending", "failed"}
<1>1. /\ outbox \in [Key -> Row] /\ status \in [Chunk -> StatusRow] /\ k.chunk \in Chunk
      /\ outbox[k] \in Row /\ status[k.chunk] \in StatusRow
  BY Keys DEF TypeOK
<1>2. PICK s \in {"pending", "failed"} :
        /\ outbox' = [outbox EXCEPT ![k] =
             [outbox[k] EXCEPT !.status = s, !.due = FALSE, !.leased = FALSE]]
        /\ status' = [status EXCEPT ![k.chunk] = [status[k.chunk] EXCEPT !.state = s]]
  BY DEF Failed
<1>3. /\ [outbox[k] EXCEPT !.status = s, !.due = FALSE, !.leased = FALSE] \in Row
      /\ [outbox[k] EXCEPT !.status = s, !.due = FALSE, !.leased = FALSE].status = s
      /\ [status[k.chunk] EXCEPT !.state = s] \in StatusRow
      /\ [status[k.chunk] EXCEPT !.state = s].state = s
  BY <1>1 DEF Row, StatusRow
<1> QED BY <1>1, <1>2, <1>3

\* The rows that are inserted, and those there are in the beginning.
LEMMA NewRows ==
  /\ NoRow \in Row /\ NoRow.status = "none"
  /\ \A w \in Worker : began[w] \in 0 .. MaxRuns =>
       PendingRow(w) \in Row /\ PendingRow(w).status = "pending"
  /\ [NoRow EXCEPT !.status = "succeeded", !.attempt = 1, !.due = TRUE] \in Row
  /\ [NoRow EXCEPT !.status = "succeeded", !.attempt = 1, !.due = TRUE].status = "succeeded"
<1>1. MaxAttempts \in Nat \ {0} /\ MaxRuns \in Nat
  BY ProjectionAssumption
<1>2. NoRow \in Row /\ NoRow.status = "none"
  BY <1>1 DEF NoRow, Row
<1>3. ASSUME NEW r \in Row, NEW b \in 0 .. MaxRuns
      PROVE  /\ [r EXCEPT !.status = "pending", !.due = TRUE, !.created = b] \in Row
             /\ [r EXCEPT !.status = "pending", !.due = TRUE, !.created = b].status = "pending"
  BY DEF Row
<1>4. ASSUME NEW r \in Row
      PROVE  /\ [r EXCEPT !.status = "succeeded", !.attempt = 1, !.due = TRUE] \in Row
             /\ [r EXCEPT !.status = "succeeded", !.attempt = 1, !.due = TRUE].status
                  = "succeeded"
  <2>1. 1 \in 0 .. MaxAttempts
    BY <1>1
  <2>2. [r EXCEPT !.status = "succeeded", !.due = TRUE] \in Row
    BY DEF Row
  <2>3. ASSUME NEW q \in Row
        PROVE  [q EXCEPT !.attempt = 1] \in Row /\ [q EXCEPT !.attempt = 1].status = q.status
    BY <2>1 DEF Row
  <2>4. [r EXCEPT !.status = "succeeded", !.attempt = 1, !.due = TRUE]
          = [[r EXCEPT !.status = "succeeded", !.due = TRUE] EXCEPT !.attempt = 1]
    BY DEF Row
  <2> QED BY <2>2, <2>3, <2>4 DEF Row
<1> QED BY <1>2, <1>3, <1>4 DEF PendingRow

\* The rows an enqueueing transaction inserts, and what it leaves.
LEMMA EnqueuedRows ==
  ASSUME TypeOK, NEW w \in Worker, Enqueue(w)
  PROVE  /\ outbox' \in [Key -> Row] /\ status' \in [Chunk -> StatusRow]
         /\ WantedUpserts(w) \cup WantedDeletes(w) \subseteq Key
         /\ \A k \in Key : outbox'[k].status =
              IF k \in WantedUpserts(w) \cup WantedDeletes(w) /\ outbox[k].status = "none"
              THEN "pending" ELSE outbox[k].status
         /\ \A c \in Chunk :
              IF \E k \in WantedUpserts(w) \cup WantedDeletes(w) :
                   k.chunk = c /\ outbox[k].status = "none"
              THEN status'[c].state = "pending" ELSE status'[c] = status[c]
<1> DEFINE wanted == WantedUpserts(w) \cup WantedDeletes(w)
           new == Inserted(wanted)
<1>1. /\ outbox \in [Key -> Row] /\ status \in [Chunk -> StatusRow]
      /\ rows[w] \subseteq Chunk /\ token[w] \in 0 .. MaxRuns /\ began[w] \in 0 .. MaxRuns
  BY DEF TypeOK
<1>2. wanted \subseteq Key
  BY <1>1, Keys DEF Enqueue, WantedUpserts
<1>3. outbox' = [k \in Key |-> IF k \in new THEN PendingRow(w) ELSE outbox[k]]
  BY DEF Enqueue
<1>4. PendingRow(w) \in Row /\ PendingRow(w).status = "pending"
  BY <1>1, NewRows
<1>5. \A k \in Key : k \in new <=> k \in wanted /\ outbox[k].status = "none"
  BY DEF Inserted
<1>6. /\ outbox' \in [Key -> Row]
      /\ \A k \in Key : outbox'[k].status =
           IF k \in wanted /\ outbox[k].status = "none" THEN "pending" ELSE outbox[k].status
  <2> HIDE DEF new
  <2> QED BY <1>1, <1>3, <1>4, <1>5
<1>7. ASSUME NEW c \in Chunk
      PROVE  /\ StatusThen(w, c) \in StatusRow
             /\ IF \E k \in Inserted(WantedUpserts(w)) : k.chunk = c
                THEN StatusThen(w, c).state = "pending" ELSE StatusThen(w, c) = status[c]
  <2>1. [state |-> "pending", generation |-> 1] \in StatusRow
    BY ProjectionAssumption DEF StatusRow
  <2> QED BY <1>1, <2>1 DEF StatusThen
<1>8. ASSUME NEW c \in Chunk
      PROVE  /\ status'[c] \in StatusRow
             /\ IF \E k \in wanted : k.chunk = c /\ outbox[k].status = "none"
                THEN status'[c].state = "pending" ELSE status'[c] = status[c]
  <2>0. status'[c] =
          IF \E k \in Inserted(WantedDeletes(w)) : k.chunk = c
          THEN [state |-> "pending", generation |-> StatusThen(w, c).generation + 1]
          ELSE StatusThen(w, c)
    BY DEF Enqueue
  <2>1. CASE \E k \in Inserted(WantedDeletes(w)) : k.chunk = c
    <3>1. PICK k \in Inserted(WantedDeletes(w)) : k.chunk = c
      BY <2>1
    <3>2. k \in wanted /\ k \in Key /\ outbox[k].status = "none"
      BY <1>2, <3>1 DEF Inserted
    <3>3. k.generation = StatusThen(w, c).generation + 1
      <4>1. PICK d \in Stale(w) : k = DeleteKey(d, StatusThen(w, d).generation + 1)
        BY <3>1 DEF Inserted, WantedDeletes
      <4> QED BY <3>1, <4>1, Keys
    <3>4. k.generation \in 0 .. MaxGeneration
      BY <3>2, Keys, ProjectionAssumption
    <3>5. status'[c] = [state |-> "pending", generation |-> k.generation]
      BY <2>0, <2>1, <3>3
    <3> QED BY <3>1, <3>2, <3>4, <3>5 DEF StatusRow
  <2>2. CASE ~ \E k \in Inserted(WantedDeletes(w)) : k.chunk = c
    <3>1. status'[c] = StatusThen(w, c)
      BY <2>0, <2>2
    <3>2. (\E k \in wanted : k.chunk = c /\ outbox[k].status = "none")
            <=> \E k \in Inserted(WantedUpserts(w)) : k.chunk = c
      BY <2>2 DEF Inserted
    <3> HIDE DEF wanted
    <3> QED BY <1>7, <3>1, <3>2
  <2> QED BY <2>1, <2>2
<1>9. status' \in [Chunk -> StatusRow]
  BY <1>8 DEF Enqueue
<1> QED BY <1>2, <1>6, <1>8, <1>9

\* The rows of a batch that is claimed, and who has it.
LEMMA ClaimedRows ==
  ASSUME TypeOK, NEW w \in Worker, ClaimBatch(w)
  PROVE  /\ outbox' \in [Key -> Row]
         /\ \E B \in SUBSET Key :
              /\ \A k \in B : outbox[k].status \in {"pending", "processing"}
              /\ \A k \in Key : outbox'[k].status =
                   IF k \in B THEN "processing" ELSE outbox[k].status
              /\ upserts' = [upserts EXCEPT ![w] = {k \in B : CurrentUpsert(k)}]
              /\ deletes' = [deletes EXCEPT ![w] = B \ {k \in B : CurrentUpsert(k)}]
              /\ Goto(w, CASE B = {}   -> "closing"
                           [] {k \in B : CurrentUpsert(k)} # {} -> "upserting"
                           [] OTHER    -> "deleting")
<1>1. outbox \in [Key -> Row]
  BY DEF TypeOK
<1>2. PICK B \in Batches :
         /\ outbox' = [k \in Key |->
              IF k \in B THEN [outbox[k] EXCEPT !.status = "processing",
                                                !.leased = TRUE, !.attempt = @ + 1]
              ELSE outbox[k]]
         /\ upserts' = [upserts EXCEPT ![w] = {k \in B : CurrentUpsert(k)}]
         /\ deletes' = [deletes EXCEPT ![w] = B \ {k \in B : CurrentUpsert(k)}]
         /\ Goto(w, CASE B = {}   -> "closing"
                      [] {k \in B : CurrentUpsert(k)} # {} -> "upserting"
                      [] OTHER    -> "deleting")
  BY DEF ClaimBatch
<1>3. B \subseteq Key /\ \A k \in B : Claimable(k)
  BY DEF Batches
<1>4. ASSUME NEW k \in Key
      PROVE  /\ outbox'[k] \in Row
             /\ outbox'[k].status = IF k \in B THEN "processing" ELSE outbox[k].status
  <2>1. outbox[k] \in Row
    BY <1>1
  <2>2. CASE k \in B
    <3>1. outbox[k].attempt < MaxAttempts
      BY <1>3, <2>2 DEF Claimable
    <3>2. outbox[k].attempt + 1 \in 0 .. MaxAttempts
      BY <2>1, <3>1, ProjectionAssumption DEF Row
    <3>3. outbox'[k] = [outbox[k] EXCEPT !.status = "processing", !.leased = TRUE,
                                         !.attempt = outbox[k].attempt + 1]
      BY <1>2, <2>2
    <3> QED BY <2>1, <2>2, <3>2, <3>3 DEF Row
  <2>3. CASE k \notin B
    BY <1>2, <2>1, <2>3
  <2> QED BY <2>2, <2>3
<1>5. outbox' \in [Key -> Row]
  BY <1>2, <1>4
<1>6. \A k \in B : outbox[k].status \in {"pending", "processing"}
  BY <1>3 DEF Claimable
<1> QED BY <1>2, <1>3, <1>4, <1>5, <1>6

\* Time leaves the status of every row.
LEMMA TimedRows ==
  ASSUME TypeOK, Time
  PROVE  outbox' \in [Key -> Row] /\ \A k \in Key : outbox'[k].status = outbox[k].status
<1>1. outbox \in [Key -> Row]
  BY DEF TypeOK
<1>2. PICK k \in Key : \/ outbox' = [outbox EXCEPT ![k] = [outbox[k] EXCEPT !.leased = FALSE]]
                       \/ outbox' = [outbox EXCEPT ![k] = [outbox[k] EXCEPT !.due = TRUE]]
  BY DEF Time
<1>3. outbox[k] \in Row
  BY <1>1
<1>4. /\ [outbox[k] EXCEPT !.leased = FALSE] \in Row
      /\ [outbox[k] EXCEPT !.leased = FALSE].status = outbox[k].status
      /\ [outbox[k] EXCEPT !.due = TRUE] \in Row
      /\ [outbox[k] EXCEPT !.due = TRUE].status = outbox[k].status
  BY <1>3 DEF Row
<1> QED BY <1>1, <1>2, <1>3, <1>4

-----------------------------------------------------------------------------
(***************************************************************************)
(* Types.                                                                  *)
(***************************************************************************)

\* The initial states are of the types.
LEMMA InitTypes == Init => TypeOK
<1> SUFFICES ASSUME Init PROVE TypeOK
  OBVIOUS
<1>1. PICK indexed \in {{}, live} :
         /\ outbox = [k \in Key |->
              IF \E c \in indexed : k = UpsertKey(c, 0)
              THEN [NoRow EXCEPT !.status = "succeeded", !.attempt = 1, !.due = TRUE]
              ELSE NoRow]
         /\ status = [c \in Chunk |->
              IF c \in indexed THEN [state |-> "current", generation |-> 1]
              ELSE [state |-> "none", generation |-> 0]]
         /\ exists = (indexed # {}) /\ points = indexed /\ active = (indexed # {})
  BY DEF Init
<1>2. /\ MaxAttempts \in Nat \ {0} /\ MaxRuns \in Nat /\ MaxEdits \in Nat
      /\ MaxCrashes \in Nat /\ MaxGeneration \in Nat \ {0, 1}
  BY ProjectionAssumption
<1>3. /\ NoRow \in Row
      /\ [NoRow EXCEPT !.status = "succeeded", !.attempt = 1, !.due = TRUE] \in Row
  <2>1. runs \in 0 .. MaxRuns
    BY <1>2 DEF Init
  <2> QED BY <2>1, NewRows
<1>4. outbox \in [Key -> Row]
  BY <1>1, <1>3
<1>5. /\ [state |-> "current", generation |-> 1] \in StatusRow
      /\ [state |-> "none", generation |-> 0] \in StatusRow
  BY <1>2 DEF StatusRow
<1>6. status \in [Chunk -> StatusRow]
  BY <1>1, <1>5
<1>7. /\ live \subseteq Chunk /\ lived = live /\ indexed \subseteq Chunk
      /\ points \subseteq Chunk /\ {exists, dropped, active} \subseteq BOOLEAN
  BY <1>1 DEF Init
<1>8. /\ pc \in [Worker -> RunState] /\ token \in [Worker -> 0 .. MaxRuns]
      /\ scope \in [Worker -> SUBSET Chunk] /\ began \in [Worker -> 0 .. MaxRuns]
      /\ rows \in [Worker -> SUBSET Chunk] /\ seen \in [Worker -> SUBSET Chunk]
      /\ upserts \in [Worker -> SUBSET Key] /\ deletes \in [Worker -> SUBSET Key]
      /\ runs \in 0 .. MaxRuns /\ edits \in 0 .. MaxEdits /\ crashes \in 0 .. MaxCrashes
  BY <1>2 DEF Init, RunState
<1> QED BY <1>4, <1>6, <1>7, <1>8 DEF TypeOK

\* What a worker has in memory is of its types.
MemoryOK ==
  /\ pc \in [Worker -> RunState] /\ token \in [Worker -> 0 .. MaxRuns]
  /\ scope \in [Worker -> SUBSET Chunk] /\ began \in [Worker -> 0 .. MaxRuns]
  /\ rows \in [Worker -> SUBSET Chunk] /\ seen \in [Worker -> SUBSET Chunk]
  /\ upserts \in [Worker -> SUBSET Key] /\ deletes \in [Worker -> SUBSET Key]

\* It is when a run ends.
LEMMA EndTypes ==
  ASSUME TypeOK, NEW w \in Worker, EndRun(w)
  PROVE  MemoryOK'
<1>1. 0 \in 0 .. MaxRuns
  BY ProjectionAssumption
<1> QED BY <1>1 DEF TypeOK, MemoryOK, EndRun, Goto, RunState

\* Every step keeps the types: a row is claimed only while it has attempts left.
LEMMA StepTypes == TypeOK /\ [Next]_vars => TypeOK'
<1> SUFFICES ASSUME TypeOK, [Next]_vars PROVE TypeOK'
  OBVIOUS
<1>0. MemoryOK
  BY DEF TypeOK, MemoryOK
<1>1. CASE Edit
  <2>1. edits' \in 0 .. MaxEdits
    BY <1>1, ProjectionAssumption DEF Edit, TypeOK
  <2> QED BY <1>1, <2>1 DEF Edit, TypeOK, store, qdrant
<1>2. CASE Time
  <2>1. outbox' \in [Key -> Row]
    BY <1>2, TimedRows
  <2> QED BY <1>2, <2>1 DEF Time, TypeOK, qdrant, bounds
<1>3. ASSUME NEW w \in Worker, RunStep(w)
      PROVE  TypeOK'
  <2>1. CASE Begin(w)
    <3>1. PICK rebuild \in Rebuild, s \in Scope :
            /\ Goto(w, IF rebuild THEN "dropping" ELSE "ensuring")
            /\ token' = [token EXCEPT ![w] = IF rebuild THEN runs + 1 ELSE 0]
            /\ scope' = [scope EXCEPT ![w] = s]
      BY <2>1 DEF Begin
    <3>2. runs' \in 0 .. MaxRuns /\ runs + 1 \in 0 .. MaxRuns /\ 0 \in 0 .. MaxRuns
      BY <2>1, ProjectionAssumption DEF Begin, TypeOK
    <3>3. s \subseteq Chunk
      BY ProjectionAssumption
    <3>4. /\ pc' \in [Worker -> RunState] /\ token' \in [Worker -> 0 .. MaxRuns]
          /\ scope' \in [Worker -> SUBSET Chunk]
      BY <3>1, <3>2, <3>3 DEF TypeOK, Goto, RunState
    <3> QED BY <2>1, <3>2, <3>4 DEF Begin, TypeOK, store, qdrant
  <2>2. CASE DropCollection(w)
    BY <2>2 DEF DropCollection, TypeOK, Goto, RunState, store, bounds
  <2>3. CASE EnsureCollection(w)
    BY <2>3 DEF EnsureCollection, TypeOK, Goto, RunState, store, bounds
  <2>13. CASE ReadCurrent(w)
    BY <2>13 DEF ReadCurrent, TypeOK, Goto, RunState, store, qdrant, bounds
  <2>14. CASE ReadAllCurrent(w)
    BY <2>14 DEF ReadAllCurrent, TypeOK, Goto, RunState, store, qdrant, bounds
  <2>4. CASE Enqueue(w)
    <3>1. outbox' \in [Key -> Row] /\ status' \in [Chunk -> StatusRow]
      BY <2>4, EnqueuedRows
    <3>2. pc' \in [Worker -> RunState] /\ dropped' \in BOOLEAN
      BY <2>4 DEF Enqueue, TypeOK, Goto, RunState
    <3> QED BY <2>4, <3>1, <3>2 DEF Enqueue, TypeOK, bounds
  <2>5. CASE ClaimBatch(w)
    <3>1. outbox' \in [Key -> Row]
      BY <2>5, ClaimedRows
    <3>2. PICK B \in SUBSET Key :
            /\ upserts' = [upserts EXCEPT ![w] = {k \in B : CurrentUpsert(k)}]
            /\ deletes' = [deletes EXCEPT ![w] = B \ {k \in B : CurrentUpsert(k)}]
            /\ Goto(w, CASE B = {}   -> "closing"
                         [] {k \in B : CurrentUpsert(k)} # {} -> "upserting"
                         [] OTHER    -> "deleting")
      BY <2>5, ClaimedRows
    <3>3. PICK state \in {"closing", "upserting", "deleting"} : Goto(w, state)
      BY <3>2
    <3>4. /\ upserts' \in [Worker -> SUBSET Key] /\ deletes' \in [Worker -> SUBSET Key]
          /\ pc' \in [Worker -> RunState]
      BY <3>2, <3>3 DEF TypeOK, Goto, RunState
    <3> QED BY <2>5, <3>1, <3>4 DEF ClaimBatch, TypeOK, qdrant, bounds
  <2>6. ASSUME UpsertPoints(w) \/ DeletePoints(w)
        PROVE  TypeOK'
    <3>1. ChunksOf(upserts[w]) \subseteq Chunk /\ ChunksOf(deletes[w]) \subseteq Chunk
      BY Keys DEF TypeOK, ChunksOf
    <3>2. points' \subseteq Chunk
      <4>1. points' \in {points, points \cup ChunksOf(upserts[w]), points \ ChunksOf(deletes[w])}
        BY <2>6 DEF UpsertPoints, DeletePoints
      <4>2. points \subseteq Chunk
        BY DEF TypeOK
      <4> QED BY <3>1, <4>1, <4>2
    <3>3. pc' \in [Worker -> RunState]
      BY <2>6 DEF UpsertPoints, DeletePoints, TypeOK, Goto, RunState
    <3> QED BY <2>6, <3>2, <3>3 DEF UpsertPoints, DeletePoints, TypeOK, store, bounds
  <2>7. CASE MarkUpserted(w)
    <3>1. PICK k \in upserts[w] :
            /\ Succeeded(k, TRUE)
            /\ upserts' = [upserts EXCEPT ![w] = upserts[w] \ {k}]
            /\ IF upserts[w] # {k} THEN UNCHANGED pc
               ELSE Goto(w, IF deletes[w] = {} THEN "claiming" ELSE "deleting")
      BY <2>7 DEF MarkUpserted
    <3>2. k \in Key
      BY DEF TypeOK
    <3>3. outbox' \in [Key -> Row] /\ status' \in [Chunk -> StatusRow]
      BY <3>1, <3>2, SucceededRows
    <3>4. upserts' \in [Worker -> SUBSET Key] /\ pc' \in [Worker -> RunState]
      BY <3>1 DEF TypeOK, Goto, RunState
    <3> QED BY <2>7, <3>3, <3>4 DEF MarkUpserted, TypeOK, qdrant, bounds
  <2>8. CASE MarkDeleted(w)
    <3>1. PICK k \in deletes[w] :
            /\ Succeeded(k, FALSE)
            /\ deletes' = [deletes EXCEPT ![w] = deletes[w] \ {k}]
            /\ IF deletes[w] # {k} THEN UNCHANGED pc ELSE Goto(w, "claiming")
      BY <2>8 DEF MarkDeleted
    <3>2. k \in Key
      BY DEF TypeOK
    <3>3. outbox' \in [Key -> Row] /\ status' \in [Chunk -> StatusRow]
      BY <3>1, <3>2, SucceededRows
    <3>4. deletes' \in [Worker -> SUBSET Key] /\ pc' \in [Worker -> RunState]
      BY <3>1 DEF TypeOK, Goto, RunState
    <3> QED BY <2>8, <3>3, <3>4 DEF MarkDeleted, TypeOK, qdrant, bounds
  <2>9. CASE MarkFailed(w)
    <3>1. PICK k \in InHand(w) : Failed(k)
      BY <2>9 DEF MarkFailed, InHand
    <3>2. k \in Key
      BY DEF TypeOK, InHand
    <3>3. outbox' \in [Key -> Row] /\ status' \in [Chunk -> StatusRow]
      BY <3>1, <3>2, FailedRows
    <3>4. MemoryOK'
      <4>1. CASE EndRun(w)
        BY <4>1, EndTypes
      <4>2. CASE ~ EndRun(w)
        BY <2>9, <4>2 DEF MarkFailed, TypeOK, MemoryOK
      <4> QED BY <4>1, <4>2
    <3> QED BY <2>9, <3>3, <3>4 DEF MarkFailed, TypeOK, MemoryOK, qdrant, bounds
  <2>10. CASE CountOutstanding(w)
    <3>1. MemoryOK'
      <4>1. CASE EndRun(w)
        BY <4>1, EndTypes
      <4>2. CASE ~ EndRun(w)
        BY <2>10, <4>2 DEF CountOutstanding, TypeOK, MemoryOK, Goto, RunState
      <4> QED BY <4>1, <4>2
    <3> QED BY <2>10, <3>1 DEF CountOutstanding, TypeOK, MemoryOK, store, qdrant, bounds
  <2>11. CASE Activate(w)
    <3>1. MemoryOK'
      BY <2>11, EndTypes DEF Activate
    <3> QED BY <2>11, <3>1 DEF Activate, TypeOK, MemoryOK, store, qdrant, bounds
  <2>12. CASE Crash(w)
    <3>1. MemoryOK'
      BY <2>12, EndTypes DEF Crash
    <3>2. crashes' \in 0 .. MaxCrashes
      BY <2>12, ProjectionAssumption DEF Crash, TypeOK
    <3> QED BY <2>12, <3>1, <3>2 DEF Crash, TypeOK, MemoryOK, store, qdrant
  <2> QED
    BY <1>3, <2>1, <2>2, <2>3, <2>4, <2>5, <2>6, <2>7, <2>8, <2>9, <2>10, <2>11, <2>12,
       <2>13, <2>14
       DEF RunStep
<1>4. CASE UNCHANGED vars
  BY <1>4 DEF vars, store, qdrant, bounds, TypeOK
<1> QED BY <1>1, <1>2, <1>3, <1>4 DEF Next

-----------------------------------------------------------------------------
(***************************************************************************)
(* What steps do to the outbox and to what workers have in hand.           *)
(***************************************************************************)

MemoryOf(w) ==
  <<pc[w], token[w], scope[w], began[w], rows[w], seen[w], upserts[w], deletes[w]>>

\* The steps of a run up to its loop.
BeforeClaims(w) ==
  \/ Begin(w) \/ DropCollection(w) \/ EnsureCollection(w)
  \/ ReadCurrent(w) \/ ReadAllCurrent(w) \/ Enqueue(w)

\* A worker leaves the memory of the others alone.
LEMMA OthersKept ==
  ASSUME TypeOK, NEW v \in Worker, NEW w \in Worker, v # w, RunStep(w)
  PROVE  UNCHANGED MemoryOf(v)
<1> USE DEF TypeOK, MemoryOf, Goto, EndRun
<1>1. CASE BeforeClaims(w)
  BY <1>1 DEF BeforeClaims, Begin, DropCollection, EnsureCollection, ReadCurrent,
     ReadAllCurrent, Enqueue
<1>2. CASE ClaimBatch(w)
  <2>1. /\ upserts'[v] = upserts[v] /\ deletes'[v] = deletes[v] /\ pc'[v] = pc[v]
    BY <1>2, ClaimedRows
  <2> QED BY <1>2, <2>1 DEF ClaimBatch
<1>3. CASE UpsertPoints(w) \/ DeletePoints(w)
  BY <1>3 DEF UpsertPoints, DeletePoints
<1>4. CASE MarkUpserted(w)
  BY <1>4 DEF MarkUpserted
<1>5. CASE MarkDeleted(w)
  BY <1>5 DEF MarkDeleted
<1>6. CASE MarkFailed(w)
  BY <1>6 DEF MarkFailed
<1>7. CASE CountOutstanding(w) \/ Activate(w) \/ Crash(w)
  BY <1>7 DEF CountOutstanding, Activate, Crash
<1> QED BY <1>1, <1>2, <1>3, <1>4, <1>5, <1>6, <1>7 DEF RunStep, BeforeClaims

\* Which steps leave documents, collection and the mark of a rebuild alone.
LEMMA StepsKeep ==
  ASSUME NEW w \in Worker, RunStep(w)
  PROVE  /\ live' = live /\ lived' = lived
         /\ \/ DropCollection(w) \/ UpsertPoints(w) \/ DeletePoints(w)
            \/ points' = points
         /\ DropCollection(w) \/ Enqueue(w) \/ dropped' = dropped
BY DEF RunStep, Begin, DropCollection, EnsureCollection, ReadCurrent, ReadAllCurrent, Enqueue,
   ClaimBatch, UpsertPoints, DeletePoints, MarkUpserted, MarkDeleted, MarkFailed,
   CountOutstanding, Activate, Crash, qdrant

\* Only a claim gives a worker more to do.
LEMMA HandsShrink ==
  ASSUME TypeOK, NEW w \in Worker, RunStep(w), ~ ClaimBatch(w)
  PROVE  upserts'[w] \subseteq upserts[w] /\ deletes'[w] \subseteq deletes[w]
<1> USE DEF TypeOK, Goto, EndRun
<1>1. CASE BeforeClaims(w)
  BY <1>1 DEF BeforeClaims, Begin, DropCollection, EnsureCollection, ReadCurrent,
     ReadAllCurrent, Enqueue
<1>2. CASE UpsertPoints(w) \/ DeletePoints(w)
  BY <1>2 DEF UpsertPoints, DeletePoints
<1>3. CASE MarkUpserted(w)
  BY <1>3 DEF MarkUpserted
<1>4. CASE MarkDeleted(w)
  BY <1>4 DEF MarkDeleted
<1>5. CASE MarkFailed(w)
  BY <1>5 DEF MarkFailed
<1>6. CASE CountOutstanding(w) \/ Activate(w) \/ Crash(w)
  BY <1>6 DEF CountOutstanding, Activate, Crash
<1> QED BY <1>1, <1>2, <1>3, <1>4, <1>5, <1>6 DEF RunStep, BeforeClaims

\* What is marked, and how.
LEMMA UpsertMarked ==
  ASSUME TypeOK, NEW w \in Worker, MarkUpserted(w)
  PROVE  \E k \in upserts[w] :
           /\ k \in Key
           /\ \A l \in Key : outbox'[l].status =
                IF l = k /\ outbox[k].status = "processing" THEN "succeeded"
                ELSE outbox[l].status
           /\ \A c \in Chunk : status'[c] =
                IF c = k.chunk THEN [state |-> "current", generation |-> k.generation]
                ELSE status[c]
           /\ upserts' = [upserts EXCEPT ![w] = upserts[w] \ {k}]
           /\ pc[w] = "upserted"
           /\ pc'[w] \in {"upserted", "claiming", "deleting"}
           /\ pc'[w] = "upserted" \/ upserts'[w] = {}
           /\ pc'[w] = "claiming" => deletes[w] = {}
<1>1. PICK k \in upserts[w] :
        /\ Succeeded(k, TRUE)
        /\ upserts' = [upserts EXCEPT ![w] = upserts[w] \ {k}]
        /\ IF upserts[w] # {k} THEN UNCHANGED pc
           ELSE Goto(w, IF deletes[w] = {} THEN "claiming" ELSE "deleting")
  BY DEF MarkUpserted
<1>2. k \in Key
  BY DEF TypeOK
<1>3. pc[w] = "upserted"
  BY DEF MarkUpserted
<1>4. /\ pc'[w] \in {"upserted", "claiming", "deleting"}
      /\ pc'[w] = "upserted" \/ upserts'[w] = {}
      /\ pc'[w] = "claiming" => deletes[w] = {}
  BY <1>1, <1>3 DEF TypeOK, Goto
<1>5. /\ \A l \in Key : outbox'[l].status =
           IF l = k /\ outbox[k].status = "processing" THEN "succeeded" ELSE outbox[l].status
      /\ \A c \in Chunk : status'[c] =
           IF c = k.chunk THEN [state |-> "current", generation |-> k.generation]
           ELSE status[c]
  BY <1>1, <1>2, SucceededRows
<1> QED BY <1>1, <1>2, <1>3, <1>4, <1>5

\* ... of the deletes; the status row says so whatever the operation was.
LEMMA DeleteMarked ==
  ASSUME TypeOK, NEW w \in Worker, MarkDeleted(w)
  PROVE  \E k \in deletes[w] :
           /\ k \in Key
           /\ \A l \in Key : outbox'[l].status =
                IF l = k /\ outbox[k].status = "processing" THEN "succeeded"
                ELSE outbox[l].status
           /\ \A c \in Chunk : status'[c] =
                IF c = k.chunk THEN [state |-> "deleted", generation |-> k.generation]
                ELSE status[c]
           /\ deletes' = [deletes EXCEPT ![w] = deletes[w] \ {k}]
           /\ pc[w] = "deleted"
           /\ pc'[w] \in {"deleted", "claiming"}
           /\ pc'[w] = "deleted" \/ deletes'[w] = {}
<1>1. PICK k \in deletes[w] :
        /\ Succeeded(k, FALSE)
        /\ deletes' = [deletes EXCEPT ![w] = deletes[w] \ {k}]
        /\ IF deletes[w] # {k} THEN UNCHANGED pc ELSE Goto(w, "claiming")
  BY DEF MarkDeleted
<1>2. k \in Key
  BY DEF TypeOK
<1>3. pc[w] = "deleted"
  BY DEF MarkDeleted
<1>4. /\ pc'[w] \in {"deleted", "claiming"}
      /\ pc'[w] = "deleted" \/ deletes'[w] = {}
  BY <1>1, <1>3 DEF TypeOK, Goto
<1>5. /\ \A l \in Key : outbox'[l].status =
           IF l = k /\ outbox[k].status = "processing" THEN "succeeded" ELSE outbox[l].status
      /\ \A c \in Chunk : status'[c] =
           IF c = k.chunk THEN [state |-> "deleted", generation |-> k.generation]
           ELSE status[c]
  BY <1>1, <1>2, SucceededRows
<1> QED BY <1>1, <1>2, <1>3, <1>4, <1>5

\* ... and of a failed call; the run goes on marking, or ends.
LEMMA FailureMarked ==
  ASSUME TypeOK, NEW w \in Worker, MarkFailed(w)
  PROVE  /\ pc[w] \in {"upsertFailed", "deleteFailed"}
         /\ \E k \in InHand(w) :
           /\ k \in Key
           /\ \A l \in Key \ {k} : outbox'[l].status = outbox[l].status
           /\ outbox'[k].status \in {"pending", "failed"}
           /\ \A c \in Chunk \ {k.chunk} : status'[c] = status[c]
           /\ status'[k.chunk].state \in {"pending", "failed"}
           /\ \/ EndRun(w)
              \/ /\ pc[w] = "upsertFailed" /\ k \in upserts[w]
                 /\ upserts' = [upserts EXCEPT ![w] = upserts[w] \ {k}]
                 /\ UNCHANGED <<pc, token, scope, began, rows, seen, deletes>>
              \/ /\ pc[w] = "deleteFailed" /\ k \in deletes[w]
                 /\ deletes' = [deletes EXCEPT ![w] = deletes[w] \ {k}]
                 /\ UNCHANGED <<pc, token, scope, began, rows, seen, upserts>>
<1>1. pc[w] \in {"upsertFailed", "deleteFailed"}
  BY DEF MarkFailed
<1>2. PICK k \in InHand(w) :
        /\ Failed(k)
        /\ \/ EndRun(w)
           \/ /\ pc[w] = "upsertFailed" /\ k \in upserts[w]
              /\ upserts' = [upserts EXCEPT ![w] = upserts[w] \ {k}]
              /\ UNCHANGED <<pc, token, scope, began, rows, seen, deletes>>
           \/ /\ pc[w] = "deleteFailed" /\ k \in deletes[w]
              /\ deletes' = [deletes EXCEPT ![w] = deletes[w] \ {k}]
              /\ UNCHANGED <<pc, token, scope, began, rows, seen, upserts>>
  BY DEF MarkFailed, InHand
<1>3. k \in Key
  BY DEF TypeOK, InHand
<1>4. /\ \A l \in Key \ {k} : outbox'[l].status = outbox[l].status
      /\ outbox'[k].status \in {"pending", "failed"}
      /\ \A c \in Chunk \ {k.chunk} : status'[c] = status[c]
      /\ status'[k.chunk].state \in {"pending", "failed"}
  BY <1>2, <1>3, FailedRows
<1> QED BY <1>1, <1>2, <1>3, <1>4

\* The steps that leave outbox, status rows and documents alone.
StillStep(w) ==
  \/ Begin(w) \/ DropCollection(w) \/ EnsureCollection(w)
  \/ ReadCurrent(w) \/ ReadAllCurrent(w)
  \/ UpsertPoints(w) \/ DeletePoints(w)
  \/ CountOutstanding(w) \/ Activate(w) \/ Crash(w)

\* They do.
LEMMA StillRows ==
  ASSUME NEW w \in Worker, StillStep(w)
  PROVE  outbox' = outbox /\ status' = status /\ live' = live /\ lived' = lived
BY DEF StillStep, Begin, DropCollection, EnsureCollection, ReadCurrent, ReadAllCurrent,
   UpsertPoints, DeletePoints, CountOutstanding, Activate, Crash, store

\* Documents change: nothing returns that was there before.
LEMMA EditedChunks ==
  ASSUME TypeOK, ~ ContentReturns, Edit
  PROVE  /\ live' \ live \subseteq Chunk \ lived
         /\ lived \subseteq lived'
         /\ UNCHANGED <<outbox, status, exists, points, dropped, active, pc, token, scope,
                        began, rows, seen, upserts, deletes, runs>>
BY DEF TypeOK, Edit, store, qdrant

\* Operations are never taken out of the outbox; only enqueueing inserts some.
LEMMA Registrations ==
  ASSUME TypeOK, OperationsAreKnown, [Next]_vars
  PROVE  /\ \A k \in Key : outbox[k].status # "none" => outbox'[k].status # "none"
         /\ \/ \E w \in Worker : Enqueue(w)
            \/ \A k \in Key : outbox'[k].status # "none" => outbox[k].status # "none"
<1>1. CASE Edit \/ UNCHANGED vars
  BY <1>1 DEF Edit, vars, store
<1>2. CASE Time
  BY <1>2, TimedRows
<1>3. ASSUME NEW w \in Worker, RunStep(w)
      PROVE  /\ \A k \in Key : outbox[k].status # "none" => outbox'[k].status # "none"
             /\ \/ Enqueue(w)
                \/ \A k \in Key : outbox'[k].status # "none" => outbox[k].status # "none"
  <2>1. CASE Enqueue(w)
    BY <2>1, EnqueuedRows
  <2>2. CASE ClaimBatch(w)
    BY <2>2, ClaimedRows
  <2>3. CASE MarkUpserted(w)
    BY <2>3, UpsertMarked
  <2>4. CASE MarkDeleted(w)
    BY <2>4, DeleteMarked
  <2>5. CASE MarkFailed(w)
    BY <2>5, FailureMarked DEF OperationsAreKnown
  <2>6. CASE StillStep(w)
    BY <2>6, StillRows
  <2> QED BY <1>3, <2>1, <2>2, <2>3, <2>4, <2>5, <2>6 DEF RunStep, StillStep
<1> QED BY <1>1, <1>2, <1>3 DEF Next

-----------------------------------------------------------------------------
(***************************************************************************)
(* Operations and tokens.                                                  *)
(***************************************************************************)

\* Upserts have the token of the run, deletes none.
LEMMA WantedTokens ==
  ASSUME TypeOK, NEW w \in Worker
  PROVE  /\ \A k \in WantedUpserts(w) : k.operation = "upsert" /\ k.token = token[w]
         /\ \A k \in WantedDeletes(w) : k.operation = "delete" /\ k.token = 0
BY Keys DEF WantedUpserts, WantedDeletes, UpsertKey

\* What an enqueueing transaction wants concerns chunks that have been live, and deletes
\* what is not any more.
LEMMA WantedChunks ==
  ASSUME TypeOK, OperationsAreKnown, ReadsAgree, NEW w \in Worker, Enqueue(w),
         NEW k \in WantedUpserts(w) \cup WantedDeletes(w)
  PROVE  k.chunk \in lived /\ (k.operation = "delete" => k.chunk \notin live)
<1>0. /\ rows[w] \subseteq lived
      /\ \A c \in live : c \in rows[w] \/ status[c].state # "none" => c \in seen[w]
  BY DEF ReadsAgree, Enqueue
<1>1. CASE k \in WantedUpserts(w)
  <2>1. k.operation = "upsert"
    BY <1>1, WantedTokens
  <2>2. PICK c \in rows[w] : k = UpsertKey(c, token[w])
    BY <1>1 DEF WantedUpserts
  <2> QED BY <1>0, <2>1, <2>2 DEF UpsertKey
<1>2. CASE k \in WantedDeletes(w)
  <2>1. PICK c \in Chunk \ seen[w] :
          /\ k.chunk = c
          /\ StatusThen(w, c).state # "none"
    BY <1>2, Keys DEF WantedDeletes, Stale
  <2>2. c \in rows[w] \/ status[c].state # "none"
    <3>1. CASE \E l \in Inserted(WantedUpserts(w)) : l.chunk = c
      BY <3>1 DEF Inserted, WantedUpserts, UpsertKey
    <3>2. CASE ~ \E l \in Inserted(WantedUpserts(w)) : l.chunk = c
      BY <2>1, <3>2 DEF StatusThen
    <3> QED BY <3>1, <3>2
  <2>3. c \in lived /\ c \notin live
    BY <1>0, <2>1, <2>2 DEF OperationsAreKnown
  <2> QED BY <2>1, <2>3
<1> QED BY <1>1, <1>2

\* No step makes an operation on a chunk that never was live, or a delete of one that is.
LEMMA OperationsStayKnown ==
  ASSUME TypeOK, OperationsAreKnown, ReadsAgree, ~ ContentReturns, [Next]_vars
  PROVE  OperationsAreKnown'
<1>1. CASE Edit
  <2>1. /\ live' \ live \subseteq Chunk \ lived /\ lived \subseteq lived'
        /\ UNCHANGED <<outbox, status, upserts, deletes>>
    BY <1>1, EditedChunks
  <2>2. \A k \in Key : outbox[k].status # "none" =>
          k.chunk \in lived' /\ (k.operation = "delete" => k.chunk \notin live')
    BY <2>1 DEF OperationsAreKnown
  <2>3. \A w \in Worker : \A k \in deletes[w] : k.chunk \notin live'
    BY <2>1 DEF OperationsAreKnown, InHand, TypeOK
  <2> QED BY <2>1, <2>2, <2>3 DEF OperationsAreKnown, InHand
<1>2. CASE Time
  BY <1>2, TimedRows DEF Time, OperationsAreKnown, InHand, TypeOK
<1>3. ASSUME NEW w \in Worker, RunStep(w)
      PROVE  OperationsAreKnown'
  <2>0. live' = live /\ lived' = lived
    BY <1>3, StepsKeep
  <2>1. \A k \in Key : outbox'[k].status # "none" =>
          k.chunk \in lived /\ (k.operation = "delete" => k.chunk \notin live)
    <3>1. CASE Enqueue(w)
      BY <3>1, EnqueuedRows, WantedChunks DEF OperationsAreKnown
    <3>4. CASE ~ Enqueue(w)
      <4>1. CASE ClaimBatch(w)
        BY <4>1, ClaimedRows DEF OperationsAreKnown
      <4>2. CASE MarkUpserted(w)
        BY <4>2, UpsertMarked DEF OperationsAreKnown
      <4>3. CASE MarkDeleted(w)
        BY <4>3, DeleteMarked DEF OperationsAreKnown
      <4>4. CASE MarkFailed(w)
        BY <4>4, FailureMarked DEF OperationsAreKnown
      <4>5. CASE StillStep(w)
        BY <4>5, StillRows DEF OperationsAreKnown
      <4> QED BY <1>3, <3>4, <4>1, <4>2, <4>3, <4>4, <4>5 DEF RunStep, StillStep
    <3> QED BY <3>1, <3>4
  <2>2. \A c \in Chunk : status'[c].state # "none" => c \in lived
    <3>1. CASE Enqueue(w)
      BY <3>1, EnqueuedRows, WantedChunks DEF OperationsAreKnown
    <3>2. CASE MarkUpserted(w)
      <4>1. PICK k \in upserts[w] :
              /\ k \in Key
              /\ \A c \in Chunk : status'[c] =
                   IF c = k.chunk THEN [state |-> "current", generation |-> k.generation]
                   ELSE status[c]
        BY <3>2, UpsertMarked
      <4>2. k.chunk \in lived
        BY <4>1 DEF OperationsAreKnown, InHand
      <4> QED BY <4>1, <4>2 DEF OperationsAreKnown
    <3>3. CASE MarkDeleted(w)
      <4>1. PICK k \in deletes[w] :
              /\ k \in Key
              /\ \A c \in Chunk : status'[c] =
                   IF c = k.chunk THEN [state |-> "deleted", generation |-> k.generation]
                   ELSE status[c]
        BY <3>3, DeleteMarked
      <4>2. k.chunk \in lived
        BY <4>1 DEF OperationsAreKnown, InHand
      <4> QED BY <4>1, <4>2 DEF OperationsAreKnown
    <3>4. CASE MarkFailed(w)
      BY <3>4, FailureMarked DEF OperationsAreKnown
    <3>5. CASE ClaimBatch(w)
      BY <3>5 DEF ClaimBatch, OperationsAreKnown
    <3>6. CASE StillStep(w)
      BY <3>6, StillRows DEF OperationsAreKnown
    <3> QED BY <1>3, <3>1, <3>2, <3>3, <3>4, <3>5, <3>6 DEF RunStep, StillStep
  <2>3. \A k \in Key : outbox[k].status # "none" => outbox'[k].status # "none"
    BY <1>3, Registrations DEF Next
  <2>4. ASSUME NEW v \in Worker
        PROVE  /\ \A k \in InHand(v)' : outbox'[k].status # "none"
               /\ \A k \in upserts'[v] : k.operation = "upsert"
               /\ \A k \in deletes'[v] : k.chunk \notin live
    <3>1. InHand(v) \subseteq Key
      BY DEF InHand, TypeOK
    <3>2. CASE upserts'[v] \subseteq upserts[v] /\ deletes'[v] \subseteq deletes[v]
      BY <2>3, <3>1, <3>2 DEF InHand, OperationsAreKnown
    <3>3. CASE v = w /\ ClaimBatch(w)
      <4>1. PICK B \in SUBSET Key :
              /\ \A k \in B : outbox[k].status \in {"pending", "processing"}
              /\ upserts' = [upserts EXCEPT ![w] = {k \in B : CurrentUpsert(k)}]
              /\ deletes' = [deletes EXCEPT ![w] = B \ {k \in B : CurrentUpsert(k)}]
        BY <3>3, ClaimedRows
      <4>2. /\ upserts'[v] = {k \in B : CurrentUpsert(k)}
            /\ deletes'[v] = B \ {k \in B : CurrentUpsert(k)}
        BY <3>3, <4>1 DEF TypeOK
      <4>3. \A k \in B : k.operation \in {"upsert", "delete"}
        BY <4>1, Keys
      <4>4. \A k \in deletes'[v] : k.chunk \notin live
        BY <4>1, <4>2, <4>3 DEF CurrentUpsert, OperationsAreKnown
      <4> QED BY <2>3, <4>1, <4>2, <4>4 DEF CurrentUpsert, InHand
    <3>4. v # w => upserts'[v] = upserts[v] /\ deletes'[v] = deletes[v]
      BY <1>3, OthersKept DEF MemoryOf
    <3> QED BY <1>3, <3>2, <3>3, <3>4, HandsShrink
  <2> QED BY <2>0, <2>1, <2>2, <2>4 DEF OperationsAreKnown
<1>4. CASE UNCHANGED vars
  BY <1>4 DEF vars, store, OperationsAreKnown, InHand
<1> QED BY <1>1, <1>2, <1>3, <1>4 DEF Next

\* A run keeps its token and what it covers until it ends.
LEMMA TokensKept ==
  ASSUME TypeOK, NEW w \in Worker, RunStep(w), ~ Begin(w)
  PROVE  /\ runs' = runs
         /\ \/ token'[w] = token[w] /\ scope'[w] = scope[w]
            \/ token'[w] = 0 /\ scope'[w] = {} /\ pc'[w] = "idle" /\ rows'[w] = {}
BY DEF RunStep, DropCollection, EnsureCollection, ReadCurrent, ReadAllCurrent, Enqueue,
   ClaimBatch, UpsertPoints, DeletePoints, MarkUpserted, MarkDeleted, MarkFailed, CountOutstanding, Activate, Crash,
   EndRun, Goto, TypeOK, bounds

\* Before it enqueues, a run has just begun.
LEMMA BeforeEnqueueing ==
  ASSUME TypeOK, NEW w \in Worker, RunStep(w), ~ Begin(w),
         pc'[w] \in EnqueueingStates
  PROVE  pc[w] \in EnqueueingStates /\ StillStep(w)
<1> USE DEF TypeOK, Goto, EndRun, EnqueueingStates
<1>1. CASE \/ DropCollection(w) \/ EnsureCollection(w)
           \/ ReadCurrent(w) \/ ReadAllCurrent(w)
  BY <1>1 DEF DropCollection, EnsureCollection, ReadCurrent, ReadAllCurrent, StillStep
<1>2. CASE Enqueue(w)
  BY <1>2 DEF Enqueue
<1>3. CASE ClaimBatch(w)
  <2>1. PICK B \in SUBSET Key :
          Goto(w, CASE B = {}   -> "closing"
                    [] {k \in B : CurrentUpsert(k)} # {} -> "upserting"
                    [] OTHER    -> "deleting")
    BY <1>3, ClaimedRows
  <2> QED BY <2>1
<1>4. CASE UpsertPoints(w) \/ DeletePoints(w)
  BY <1>4 DEF UpsertPoints, DeletePoints
<1>5. CASE MarkUpserted(w)
  BY <1>5, UpsertMarked
<1>6. CASE MarkDeleted(w)
  BY <1>6, DeleteMarked
<1>7. CASE MarkFailed(w)
  BY <1>7, FailureMarked
<1>8. CASE CountOutstanding(w) \/ Activate(w) \/ Crash(w)
  BY <1>8 DEF CountOutstanding, Activate, Crash
<1> QED BY <1>1, <1>2, <1>3, <1>4, <1>5, <1>6, <1>7, <1>8 DEF RunStep

\* No step makes an operation with the token of a rebuild that has not enqueued.
LEMMA TokensStayNew ==
  ASSUME TypeOK, OperationsAreKnown, TokensAreNew, [Next]_vars
  PROVE  TokensAreNew'
<1>1. CASE Edit
  BY <1>1 DEF Edit, TokensAreNew, store, UpsertKey
<1>2. CASE Time
  <2>1. \A k \in Key : outbox'[k].status = outbox[k].status
    BY <1>2, TimedRows
  <2>2. \A w \in Worker, c \in Chunk : UpsertKey(c, token[w]) \in Key
    BY Keys DEF TypeOK
  <2> QED BY <1>2, <2>1, <2>2 DEF Time, TokensAreNew, bounds
<1>3. ASSUME NEW w \in Worker, RunStep(w)
      PROVE  TokensAreNew'
  <2>0. /\ runs \in Nat /\ runs' \in Nat
        /\ \A v \in Worker : token[v] \in Nat /\ token'[v] \in Nat
        /\ \A k \in Key : k.token \in Nat
        /\ \A v \in Worker : token[v] <= runs
    <3>1. TypeOK'
      BY <1>3, StepTypes DEF Next
    <3>2. \A v \in Worker : token[v] <= runs
      BY DEF TokensAreNew
    <3> QED BY <3>1, <3>2, Keys, ProjectionAssumption DEF TypeOK
  <2>1. CASE Begin(w)
    <3>1. PICK rebuild \in Rebuild, s \in Scope :
            /\ rebuild => s = UNION Scope
            /\ token' = [token EXCEPT ![w] = IF rebuild THEN runs + 1 ELSE 0]
            /\ scope' = [scope EXCEPT ![w] = s]
      BY <2>1 DEF Begin
    <3>2. runs' = runs + 1 /\ outbox' = outbox
      BY <2>1 DEF Begin, store
    <3>3. rebuild \in BOOLEAN
      BY ProjectionAssumption
    <3>4. /\ token'[w] = IF rebuild THEN runs + 1 ELSE 0
          /\ scope'[w] = s
          /\ \A v \in Worker \ {w} : /\ token'[v] = token[v] /\ scope'[v] = scope[v]
                                     /\ pc'[v] = pc[v]
      BY <1>3, <3>1, OthersKept DEF MemoryOf, TypeOK
    <3>5. \A k \in Key : k.token > runs' => outbox'[k].status = "none"
      BY <2>0, <3>2 DEF TokensAreNew
    <3>6. ASSUME NEW v \in Worker
          PROVE  /\ token'[v] <= runs'
                 /\ token'[v] # 0 => TRUE \in Rebuild /\ scope'[v] = Chunk
                 /\ token'[v] # 0 /\ pc'[v] \in EnqueueingStates =>
                      \A c \in Chunk : outbox'[UpsertKey(c, token'[v])].status = "none"
      <4>1. CASE v = w /\ rebuild
        <5>1. runs + 1 \in 0 .. MaxRuns
          BY <2>1, ProjectionAssumption DEF Begin, TypeOK
        <5>2. \A c \in Chunk : UpsertKey(c, runs + 1) \in Key /\ UpsertKey(c, runs + 1).token > runs
          BY <2>0, <5>1, Keys
        <5>3. rebuild = TRUE
          BY <3>3, <4>1
        <5>4. token'[v] = runs + 1 /\ scope'[v] = Chunk /\ TRUE \in Rebuild
          BY <3>1, <3>4, <4>1, <5>3, ProjectionAssumption
        <5>5. \A c \in Chunk : outbox[UpsertKey(c, runs + 1)].status = "none"
          BY <5>2 DEF TokensAreNew
        <5>6. runs + 1 <= runs'
          BY <2>0, <3>2
        <5> QED BY <3>2, <5>4, <5>5, <5>6
      <4>2. CASE v = w /\ ~ rebuild
        <5>1. token'[v] = 0 /\ 0 <= runs + 1
          BY <2>0, <3>4, <4>2
        <5> QED BY <3>2, <5>1
      <4>3. CASE v # w
        <5>1. token'[v] = token[v] /\ token[v] <= runs + 1
          BY <2>0, <3>4, <4>3
        <5> QED BY <3>2, <3>4, <4>3, <5>1 DEF TokensAreNew
      <4> QED BY <4>1, <4>2, <4>3
    <3>7. \A u, v \in Worker : token'[u] = token'[v] /\ token'[u] # 0 => u = v
      <4>1. \A v \in Worker : token[v] # runs + 1
        BY <2>0
      <4> QED BY <3>3, <3>4, <4>1 DEF TokensAreNew
    <3> QED BY <3>5, <3>6, <3>7 DEF TokensAreNew
  <2>2. CASE ~ Begin(w)
    <3>1. /\ runs' = runs
          /\ \/ token'[w] = token[w] /\ scope'[w] = scope[w]
             \/ token'[w] = 0 /\ scope'[w] = {} /\ pc'[w] = "idle"
          /\ \A v \in Worker \ {w} : /\ token'[v] = token[v] /\ scope'[v] = scope[v]
                                     /\ pc'[v] = pc[v]
      BY <1>3, <2>2, TokensKept, OthersKept DEF MemoryOf
    <3>2. \A k \in Key : outbox[k].status = "none" =>
            \/ outbox'[k].status = "none"
            \/ Enqueue(w) /\ (k.token = token[w] \/ k.token = 0)
                          /\ (k.operation = "upsert" => k.token = token[w])
      <4>1. CASE Enqueue(w)
        BY <4>1, EnqueuedRows, WantedTokens
      <4>2. CASE ClaimBatch(w)
        BY <4>2, ClaimedRows
      <4>3. CASE MarkUpserted(w)
        BY <4>3, UpsertMarked
      <4>4. CASE MarkDeleted(w)
        BY <4>4, DeleteMarked
      <4>5. CASE MarkFailed(w)
        BY <4>5, FailureMarked DEF OperationsAreKnown
      <4>6. CASE StillStep(w)
        BY <4>6, StillRows
      <4> QED BY <1>3, <4>1, <4>2, <4>3, <4>4, <4>5, <4>6 DEF RunStep, StillStep
    <3>3. \A k \in Key : k.token > runs' => outbox'[k].status = "none"
      <4>1. \A k \in Key : k.token > runs => outbox[k].status = "none"
        BY DEF TokensAreNew
      <4>2. \A k \in Key : k.token > runs => k.token # token[w] /\ k.token # 0
        BY <2>0
      <4> QED BY <3>1, <3>2, <4>1, <4>2
    <3>4. \A v \in Worker : /\ token'[v] <= runs'
                            /\ token'[v] # 0 => TRUE \in Rebuild /\ scope'[v] = Chunk
      <4>1. 0 <= runs
        BY <2>0
      <4>2. \A v \in Worker : token[v] # 0 => TRUE \in Rebuild /\ scope[v] = Chunk
        BY DEF TokensAreNew
      <4> QED BY <2>0, <3>1, <4>1, <4>2
    <3>5. ASSUME NEW v \in Worker, NEW c \in Chunk, token'[v] # 0,
                 pc'[v] \in EnqueueingStates
          PROVE  outbox'[UpsertKey(c, token'[v])].status = "none"
      <4>1. token'[v] = token[v]
        BY <3>1, <3>5
      <4>2. pc[v] \in EnqueueingStates
        BY <1>3, <2>2, <3>1, <3>5, BeforeEnqueueing
      <4>3. /\ UpsertKey(c, token[v]) \in Key /\ UpsertKey(c, token[v]).token = token[v]
            /\ UpsertKey(c, token[v]).operation = "upsert"
        BY Keys DEF TypeOK
      <4>4. outbox[UpsertKey(c, token[v])].status = "none"
        BY <3>5, <4>1, <4>2 DEF TokensAreNew
      <4>5. CASE v = w
        BY <1>3, <2>2, <3>5, <4>1, <4>4, <4>5, BeforeEnqueueing, StillRows
      <4>6. CASE v # w
        <5>1. token[w] # token[v]
          BY <3>5, <4>1, <4>6 DEF TokensAreNew
        <5> QED BY <3>2, <4>1, <4>3, <4>4, <5>1
      <4> QED BY <4>5, <4>6
    <3>6. \A u, v \in Worker : token'[u] = token'[v] /\ token'[u] # 0 => u = v
      BY <3>1 DEF TokensAreNew
    <3> QED BY <3>3, <3>4, <3>5, <3>6 DEF TokensAreNew
  <2> QED BY <2>1, <2>2
<1>4. CASE UNCHANGED vars
  BY <1>4 DEF vars, store, bounds, TokensAreNew
<1> QED BY <1>1, <1>2, <1>3, <1>4 DEF Next

-----------------------------------------------------------------------------
(***************************************************************************)
(* What a run has seen reaches Qdrant.                                     *)
(***************************************************************************)

\* Points of live chunks stay until the collection is dropped.
LEMMA PointsStay ==
  ASSUME TypeOK, OperationsAreKnown, NEW w \in Worker, RunStep(w), ~ DropCollection(w),
         NEW c \in live, c \in points
  PROVE  c \in points'
<1>1. CASE DeletePoints(w)
  <2>1. c \notin ChunksOf(deletes[w])
    BY DEF OperationsAreKnown, ChunksOf
  <2> QED BY <1>1, <2>1 DEF DeletePoints
<1>2. CASE UpsertPoints(w)
  BY <1>2 DEF UpsertPoints
<1>3. CASE ~ DeletePoints(w) /\ ~ UpsertPoints(w)
  <2>1. points' = points
    BY <1>3, StepsKeep
  <2> QED BY <2>1
<1> QED BY <1>1, <1>2, <1>3

\* What is sent but not marked stays in that state, or is in Qdrant.
Sent(w, k) == pc[w] = "upserted" /\ k \in upserts[w]

\* Only the call itself makes an operation a sent one.
LEMMA SentByUpsert ==
  ASSUME TypeOK, NEW w \in Worker, RunStep(w), NEW v \in Worker, NEW k, Sent(v, k)', ~ Sent(v, k)
  PROVE  v = w /\ UpsertPoints(w) /\ points' = points \cup ChunksOf(upserts[w])
         /\ k \in upserts[w]
<1>1. v = w
  BY OthersKept DEF MemoryOf, Sent
<1>2. pc'[w] = "upserted" /\ k \in upserts'[w]
  BY <1>1 DEF Sent
<1>3. CASE UpsertPoints(w)
  BY <1>1, <1>2, <1>3 DEF UpsertPoints, Goto, TypeOK
<1>4. CASE MarkUpserted(w)
  BY <1>1, <1>2, <1>4, UpsertMarked, HandsShrink DEF Sent, MarkUpserted, ClaimBatch
<1>5. CASE ClaimBatch(w)
  <2>1. PICK B \in SUBSET Key :
          Goto(w, CASE B = {}   -> "closing"
                    [] {l \in B : CurrentUpsert(l)} # {} -> "upserting"
                    [] OTHER    -> "deleting")
    BY <1>5, ClaimedRows
  <2> QED BY <1>2, <2>1 DEF Goto, TypeOK
<1>6. CASE MarkDeleted(w)
  BY <1>2, <1>6, DeleteMarked
<1>7. CASE MarkFailed(w)
  BY <1>2, <1>7, FailureMarked DEF EndRun, Goto, TypeOK
<1>8. CASE \/ BeforeClaims(w)
           \/ DeletePoints(w) \/ CountOutstanding(w) \/ Activate(w) \/ Crash(w)
  BY <1>2, <1>8 DEF BeforeClaims, Begin, DropCollection, EnsureCollection, ReadCurrent,
     ReadAllCurrent, Enqueue, DeletePoints, CountOutstanding, Activate, Crash, EndRun, Goto,
     TypeOK
<1> QED BY <1>3, <1>4, <1>5, <1>6, <1>7, <1>8 DEF RunStep, BeforeClaims

\* An operation on a live chunk is outstanding until it has been sent and is marked.
LEMMA OutstandingStays ==
  ASSUME TypeOK, OperationsAreKnown, NEW w \in Worker, RunStep(w),
         NEW k \in Outstanding, k.chunk \in live, ~ Sent(w, k)
  PROVE  k \in Outstanding'
<1>1. k \in Key /\ outbox[k].status \in {"pending", "processing", "failed"}
  BY DEF Outstanding
<1>2. outbox'[k].status \in {"pending", "processing", "failed"}
  <2>1. CASE Enqueue(w)
    BY <1>1, <2>1, EnqueuedRows
  <2>2. CASE ClaimBatch(w)
    BY <1>1, <2>2, ClaimedRows
  <2>3. CASE MarkUpserted(w)
    <3>1. PICK l \in upserts[w] : Succeeded(l, TRUE)
      BY <2>3 DEF MarkUpserted
    <3>2. l \in Key
      BY DEF TypeOK
    <3>3. l # k
      BY <2>3 DEF MarkUpserted, Sent
    <3> QED BY <1>1, <3>1, <3>2, <3>3, SucceededRows
  <2>4. CASE MarkDeleted(w)
    <3>1. PICK l \in deletes[w] :
            \A m \in Key : outbox'[m].status =
              IF m = l /\ outbox[l].status = "processing" THEN "succeeded"
              ELSE outbox[m].status
      BY <2>4, DeleteMarked
    <3>2. l # k
      BY DEF OperationsAreKnown
    <3> QED BY <1>1, <3>1, <3>2
  <2>5. CASE MarkFailed(w)
    BY <1>1, <2>5, FailureMarked
  <2>6. CASE StillStep(w)
    BY <1>1, <2>6, StillRows
  <2> QED BY <2>1, <2>2, <2>3, <2>4, <2>5, <2>6 DEF RunStep, StillStep
<1> QED BY <1>1, <1>2 DEF Outstanding

\* Who waits goes on waiting until its point is there.
LEMMA WaitingStays ==
  ASSUME TypeOK, OperationsAreKnown, NEW w \in Worker, RunStep(w), NEW c \in live,
         IsWaiting(c)
  PROVE  IsWaiting(c)' \/ c \in points'
<1>1. PICK k \in Outstanding : k.chunk = c /\ \A v \in Worker : ~ Sent(v, k)
  BY DEF IsWaiting, Sent
<1>2. k \in Outstanding'
  BY <1>1, OutstandingStays
<1>3. CASE \A v \in Worker : ~ Sent(v, k)'
  BY <1>1, <1>2, <1>3 DEF IsWaiting, Sent
<1>4. CASE \E v \in Worker : Sent(v, k)'
  <2>1. points' = points \cup ChunksOf(upserts[w]) /\ k \in upserts[w]
    BY <1>1, <1>4, SentByUpsert
  <2> QED BY <1>1, <2>1 DEF ChunksOf
<1> QED BY <1>3, <1>4

\* What is enqueued and live is in Qdrant or waiting, after every step.
LEMMA EnqueuedStaysThere ==
  ASSUME TypeOK, OperationsAreKnown, ReadsAgree, TokensAreNew, EnqueuedIsThere,
         ~ ContentReturns, [Next]_vars
  PROVE  EnqueuedIsThere'
<1>1. CASE Edit
  <2>1. /\ live' \ live \subseteq Chunk \ lived
        /\ UNCHANGED <<outbox, points, dropped, pc, upserts>>
    BY <1>1, EditedChunks
  <2>2. \A c \in live' : Registered(c)' => c \in live /\ Registered(c)
    BY <2>1 DEF Registered, OperationsAreKnown
  <2>3. \A c \in live : IsWaiting(c) => IsWaiting(c)'
    BY <2>1 DEF IsWaiting, Outstanding
  <2> QED BY <2>1, <2>2, <2>3 DEF EnqueuedIsThere
<1>2. CASE Time
  <2>1. /\ \A k \in Key : outbox'[k].status = outbox[k].status
        /\ UNCHANGED <<live, points, dropped, pc, upserts>>
    BY <1>2, TimedRows DEF Time, qdrant
  <2>2. \A c \in live : Registered(c)' => Registered(c)
    BY <2>1 DEF Registered
  <2>3. Outstanding' = Outstanding
    BY <2>1 DEF Outstanding
  <2>4. \A c \in live : IsWaiting(c) => IsWaiting(c)'
    BY <2>1, <2>3 DEF IsWaiting
  <2> QED BY <2>1, <2>2, <2>4 DEF EnqueuedIsThere
<1>3. ASSUME NEW w \in Worker, RunStep(w)
      PROVE  EnqueuedIsThere'
  <2>0. live' = live
    BY <1>3, StepsKeep
  <2>1. CASE DropCollection(w)
    BY <2>1 DEF DropCollection, EnqueuedIsThere
  <2>2. CASE Enqueue(w)
    <3> SUFFICES ASSUME ~ dropped', NEW c \in live, Registered(c)'
                 PROVE  c \in points' \/ IsWaiting(c)'
      BY <2>0 DEF EnqueuedIsThere
    <3>1. /\ WantedUpserts(w) \cup WantedDeletes(w) \subseteq Key
          /\ \A k \in Key : outbox'[k].status =
               IF k \in WantedUpserts(w) \cup WantedDeletes(w) /\ outbox[k].status = "none"
               THEN "pending" ELSE outbox[k].status
      BY <2>2, EnqueuedRows
    <3>2. ASSUME NEW k \in Key, k.chunk = c, outbox[k].status = "none",
                 k \in WantedUpserts(w) \cup WantedDeletes(w)
          PROVE  IsWaiting(c)'
      <4>1. k \in Outstanding'
        BY <3>1, <3>2 DEF Outstanding
      <4>2. \A v \in Worker : k \notin upserts'[v]
        <5>1. upserts' = upserts
          BY <2>2 DEF Enqueue
        <5> QED BY <3>2, <5>1 DEF OperationsAreKnown, InHand
      <4> QED BY <3>2, <4>1, <4>2 DEF IsWaiting
    <3>3. CASE dropped /\ Registered(c)
      <4>1. token[w] # 0 /\ pc[w] = "enqueueing" /\ c \in Chunk
        BY <2>2, <3>3 DEF Enqueue, TypeOK
      <4>2. scope[w] = Chunk /\ outbox[UpsertKey(c, token[w])].status = "none"
        BY <4>1 DEF TokensAreNew, EnqueueingStates
      <4>3. /\ UpsertKey(c, token[w]) \in Key /\ UpsertKey(c, token[w]).chunk = c
        BY <4>1, Keys DEF TypeOK
      <4>4. c \in rows[w]
        BY <3>3, <4>1, <4>2 DEF ReadsAgree
      <4>5. UpsertKey(c, token[w]) \in WantedUpserts(w)
        BY <4>4 DEF WantedUpserts
      <4> QED BY <3>2, <4>2, <4>3, <4>5
    <3>4. CASE ~ dropped /\ Registered(c)
      <4>1. c \in points \/ IsWaiting(c)
        BY <3>4 DEF EnqueuedIsThere
      <4>2. ~ DropCollection(w)
        BY <2>2 DEF Enqueue, DropCollection
      <4> QED BY <1>3, <4>1, <4>2, PointsStay, WaitingStays
    <3>5. CASE ~ Registered(c)
      <4>1. PICK k \in Key : k.chunk = c /\ outbox'[k].status # "none"
        BY DEF Registered
      <4>2. outbox[k].status = "none"
        BY <3>5, <4>1 DEF Registered
      <4> QED BY <3>1, <3>2, <4>1, <4>2
    <3> QED BY <3>3, <3>4, <3>5
  <2>3. CASE ~ DropCollection(w) /\ ~ Enqueue(w)
    <3>1. dropped' = dropped
      BY <1>3, <2>3, StepsKeep
    <3>2. \A k \in Key : outbox'[k].status # "none" => outbox[k].status # "none"
      <4>1. CASE ClaimBatch(w)
        BY <4>1, ClaimedRows
      <4>2. CASE MarkUpserted(w)
        BY <4>2, UpsertMarked
      <4>3. CASE MarkDeleted(w)
        BY <4>3, DeleteMarked
      <4>4. CASE MarkFailed(w)
        BY <4>4, FailureMarked DEF OperationsAreKnown
      <4>5. CASE StillStep(w)
        BY <4>5, StillRows
      <4> QED BY <1>3, <2>3, <4>1, <4>2, <4>3, <4>4, <4>5 DEF RunStep, StillStep
    <3>3. \A c \in live : Registered(c)' => Registered(c)
      BY <3>2 DEF Registered
    <3>4. \A c \in live : c \in points \/ IsWaiting(c) => c \in points' \/ IsWaiting(c)'
      BY <1>3, <2>3, PointsStay, WaitingStays
    <3> QED BY <2>0, <3>1, <3>3, <3>4 DEF EnqueuedIsThere
  <2> QED BY <2>1, <2>2, <2>3
<1>4. CASE UNCHANGED vars
  BY <1>4 DEF vars, store, qdrant, EnqueuedIsThere, Registered, IsWaiting, Outstanding
<1> QED BY <1>1, <1>2, <1>3, <1>4 DEF Next

\* Once it has enqueued, a run keeps what it has seen until it ends.
LEMMA SeenKept ==
  ASSUME TypeOK, NEW w \in Worker, RunStep(w), Enqueued(w)'
  PROVE  \/ Enqueue(w)
         \/ Enqueued(w) /\ rows'[w] = rows[w] /\ seen'[w] = seen[w]
<1> USE DEF TypeOK, Goto, EndRun, Enqueued, EnqueueingStates
<1>1. CASE BeforeClaims(w)
  BY <1>1 DEF BeforeClaims, Begin, DropCollection, EnsureCollection, ReadCurrent,
     ReadAllCurrent
<1>2. CASE ClaimBatch(w)
  BY <1>2 DEF ClaimBatch
<1>3. CASE UpsertPoints(w) \/ DeletePoints(w)
  BY <1>3 DEF UpsertPoints, DeletePoints
<1>4. CASE MarkUpserted(w)
  BY <1>4 DEF MarkUpserted
<1>5. CASE MarkDeleted(w)
  BY <1>5 DEF MarkDeleted
<1>6. CASE MarkFailed(w)
  BY <1>6 DEF MarkFailed
<1>7. CASE CountOutstanding(w) \/ Activate(w) \/ Crash(w)
  BY <1>7 DEF CountOutstanding, Activate, Crash
<1> QED BY <1>1, <1>2, <1>3, <1>4, <1>5, <1>6, <1>7 DEF RunStep, BeforeClaims

\* What the one worker has read stays true until it has enqueued.
LEMMA ReadsStayTrue ==
  ASSUME OneWorker, ~ ContentReturns, TypeOK, OperationsAreKnown, ReadsAgree, [Next]_vars
  PROVE  ReadsAgree'
<1>1. CASE Edit
  <2>1. /\ live' \ live \subseteq Chunk \ lived /\ lived \subseteq lived'
        /\ UNCHANGED <<outbox, status, pc, scope, rows, seen>>
    BY <1>1, EditedChunks
  <2>2. \A w \in Worker : \A c \in live' :
          c \in rows[w] \/ Registered(c) \/ status[c].state # "none" => c \in live
    BY <2>1 DEF ReadsAgree, OperationsAreKnown, Registered
  <2> QED BY <2>1, <2>2 DEF ReadsAgree, Registered
<1>2. CASE Time \/ UNCHANGED vars
  <2>1. UNCHANGED <<live, lived, status, pc, scope, rows, seen>>
    BY <1>2 DEF Time, vars, store
  <2>2. \A k \in Key : outbox'[k].status = outbox[k].status
    BY <1>2, TimedRows DEF vars, store
  <2>3. \A c : Registered(c)' <=> Registered(c)
    BY <2>2 DEF Registered
  <2> QED BY <2>1, <2>3 DEF ReadsAgree
<1>3. ASSUME NEW w \in Worker, RunStep(w)
      PROVE  ReadsAgree'
  <2>0. live' = live /\ lived' = lived /\ live \subseteq lived /\ \A v \in Worker : v = w
    BY <1>3, StepsKeep DEF OneWorker, TypeOK
  <2>1. CASE ReadCurrent(w)
    <3>1. /\ rows'[w] = live \cap scope[w] /\ seen'[w] = live \cap scope[w]
          /\ scope'[w] = scope[w] /\ live \subseteq Chunk
          /\ pc'[w] = IF scope[w] = Chunk THEN "enqueueing" ELSE "rereading"
      BY <2>1, ProjectionAssumption DEF ReadCurrent, TypeOK, Goto
    <3>2. pc'[w] = "enqueueing" => rows'[w] = live /\ seen'[w] = live
      BY <3>1
    <3>3. pc'[w] = "rereading" => scope'[w] # Chunk
      BY <3>1
    <3> QED BY <2>0, <3>1, <3>2, <3>3 DEF ReadsAgree
  <2>2. CASE ReadAllCurrent(w)
    <3>1. /\ pc[w] = "rereading" /\ pc'[w] = "enqueueing" /\ seen'[w] = live
          /\ rows' = rows /\ scope' = scope
      BY <2>2 DEF ReadAllCurrent, TypeOK, Goto
    <3> QED BY <2>0, <3>1 DEF ReadsAgree
  <2>3. CASE ~ ReadCurrent(w) /\ ~ ReadAllCurrent(w)
    <3>1. /\ pc'[w] \notin {"rereading", "enqueueing"}
          /\ rows'[w] = rows[w] \/ rows'[w] = {}
      <4> USE DEF TypeOK, Goto, EndRun
      <4>1. CASE BeforeClaims(w)
        BY <2>3, <4>1 DEF BeforeClaims, Begin, DropCollection, EnsureCollection, Enqueue
      <4>2. CASE ~ BeforeClaims(w)
        <5>1. pc'[w] \notin EnqueueingStates
          BY <1>3, <4>2, BeforeEnqueueing DEF StillStep, BeforeClaims, EnqueueingStates,
             UpsertPoints, DeletePoints, CountOutstanding, Activate, Crash
        <5>2. rows'[w] = rows[w] \/ rows'[w] = {}
          BY <1>3, <4>2 DEF RunStep, BeforeClaims, ClaimBatch, UpsertPoints, DeletePoints,
             MarkUpserted, MarkDeleted, MarkFailed, CountOutstanding, Activate, Crash
        <5> QED BY <5>1, <5>2 DEF EnqueueingStates
      <4> QED BY <4>1, <4>2
    <3> QED BY <2>0, <3>1 DEF ReadsAgree
  <2> QED BY <2>1, <2>2, <2>3
<1> QED BY <1>1, <1>2, <1>3 DEF Next

\* What a run has seen has been enqueued, by it or before, after every step.
LEMMA SeenStaysRegistered ==
  ASSUME TypeOK, OperationsAreKnown, SeenIsRegistered, [Next]_vars
  PROVE  SeenIsRegistered'
<1>0. \A c \in Chunk : Registered(c) => Registered(c)'
  BY Registrations DEF Registered
<1>1. CASE Edit \/ Time \/ UNCHANGED vars
  <2>1. UNCHANGED <<pc, rows>>
    BY <1>1 DEF Edit, Time, vars
  <2> QED BY <1>0, <2>1 DEF SeenIsRegistered, Enqueued, TypeOK
<1>2. ASSUME NEW w \in Worker, RunStep(w)
      PROVE  SeenIsRegistered'
  <2> SUFFICES ASSUME NEW v \in Worker, Enqueued(v)', NEW c \in rows'[v]
               PROVE  Registered(c)'
    BY DEF SeenIsRegistered
  <2>1. CASE v # w
    <3>1. UNCHANGED MemoryOf(v)
      BY <1>2, <2>1, OthersKept
    <3> QED BY <1>0, <3>1 DEF MemoryOf, SeenIsRegistered, Enqueued, TypeOK
  <2>2. CASE v = w /\ Enqueue(w)
    <3>1. c \in rows[w]
      BY <2>2 DEF Enqueue
    <3>2. /\ UpsertKey(c, token[w]) \in WantedUpserts(w) /\ UpsertKey(c, token[w]) \in Key
          /\ UpsertKey(c, token[w]).chunk = c
      BY <2>2, <3>1, Keys DEF WantedUpserts, TypeOK
    <3>3. outbox'[UpsertKey(c, token[w])].status # "none"
      BY <2>2, <3>2, EnqueuedRows
    <3> QED BY <3>2, <3>3 DEF Registered
  <2>3. CASE v = w /\ ~ Enqueue(w)
    BY <1>0, <1>2, <2>3, SeenKept DEF SeenIsRegistered, TypeOK
  <2> QED BY <2>1, <2>2, <2>3
<1> QED BY <1>1, <1>2 DEF Next

\* Nothing is counted when nothing is outstanding.
LEMMA Activating ==
  ASSUME TypeOK, NEW w \in Worker, RunStep(w), pc'[w] = "activating"
  PROVE  /\ pc[w] = "closing" /\ Outstanding = {}
         /\ UNCHANGED <<live, outbox, status, points, dropped, rows, seen>>
<1> USE DEF TypeOK, Goto, EndRun
<1>1. CASE CountOutstanding(w)
  BY <1>1 DEF CountOutstanding, store, qdrant
<1>2. CASE BeforeClaims(w)
  BY <1>2 DEF BeforeClaims, Begin, DropCollection, EnsureCollection, ReadCurrent,
     ReadAllCurrent, Enqueue
<1>3. CASE ClaimBatch(w)
  <2>1. PICK B \in SUBSET Key :
          Goto(w, CASE B = {}   -> "closing"
                    [] {k \in B : CurrentUpsert(k)} # {} -> "upserting"
                    [] OTHER    -> "deleting")
    BY <1>3, ClaimedRows
  <2> QED BY <2>1
<1>4. CASE UpsertPoints(w) \/ DeletePoints(w)
  BY <1>4 DEF UpsertPoints, DeletePoints
<1>5. CASE MarkUpserted(w)
  BY <1>5, UpsertMarked
<1>6. CASE MarkDeleted(w)
  BY <1>6, DeleteMarked
<1>7. CASE MarkFailed(w)
  BY <1>7, FailureMarked
<1>8. CASE Activate(w) \/ Crash(w)
  BY <1>8 DEF Activate, Crash
<1> QED BY <1>1, <1>2, <1>3, <1>4, <1>5, <1>6, <1>7, <1>8 DEF RunStep, BeforeClaims

\* A run finds nothing outstanding only when what it has seen is there, and it stays.
LEMMA CompleteStaysIndexed ==
  ASSUME OneWorker, ~ ContentReturns, IndexInv, [Next]_vars
  PROVE  CompleteRunIndexesAll'
<1> USE DEF IndexInv
<1>1. CASE Edit
  <2>1. /\ live' \ live \subseteq Chunk \ lived
        /\ UNCHANGED <<outbox, points, dropped, pc, rows>>
    BY <1>1, EditedChunks
  <2> SUFFICES ASSUME NEW w \in Worker, pc'[w] = "activating", ~ dropped',
                      NEW c \in live' \cap rows'[w]
               PROVE  c \in points'
    BY DEF CompleteRunIndexesAll
  <2>2. Registered(c)
    BY <2>1 DEF SeenIsRegistered, Enqueued, EnqueueingStates
  <2>3. c \in lived
    BY <2>2 DEF Registered, OperationsAreKnown
  <2> QED BY <2>1, <2>3 DEF CompleteRunIndexesAll
<1>2. CASE Time \/ UNCHANGED vars
  BY <1>2 DEF Time, vars, qdrant, CompleteRunIndexesAll
<1>3. ASSUME NEW w \in Worker, RunStep(w)
      PROVE  CompleteRunIndexesAll'
  <2>0. live' = live
    BY <1>3, StepsKeep
  <2> SUFFICES ASSUME NEW v \in Worker, pc'[v] = "activating", ~ dropped',
                      NEW c \in live \cap rows'[v]
               PROVE  c \in points'
    BY <2>0 DEF CompleteRunIndexesAll
  <2>1. v = w
    BY DEF OneWorker
  <2>2. /\ pc[w] = "closing" /\ Outstanding = {}
        /\ UNCHANGED <<points, dropped, rows>>
    BY <1>3, <2>1, Activating
  <2>3. Registered(c)
    BY <2>1, <2>2 DEF SeenIsRegistered, Enqueued, EnqueueingStates
  <2>4. ~ IsWaiting(c)
    BY <2>2 DEF IsWaiting
  <2> QED BY <2>2, <2>3, <2>4 DEF EnqueuedIsThere
<1> QED BY <1>1, <1>2, <1>3 DEF Next

\* IndexInv holds initially ...
LEMMA IndexInit == Init => IndexInv
<1> SUFFICES ASSUME Init PROVE IndexInv
  OBVIOUS
<1>1. TypeOK
  BY InitTypes
<1>2. PICK indexed \in {{}, live} :
        /\ outbox = [k \in Key |->
             IF \E c \in indexed : k = UpsertKey(c, 0)
             THEN [NoRow EXCEPT !.status = "succeeded", !.attempt = 1, !.due = TRUE]
             ELSE NoRow]
        /\ status = [c \in Chunk |->
             IF c \in indexed THEN [state |-> "current", generation |-> 1]
             ELSE [state |-> "none", generation |-> 0]]
        /\ points = indexed
  BY DEF Init
<1>3. \A k \in Key : outbox[k].status =
        IF \E c \in indexed : k = UpsertKey(c, 0) THEN "succeeded" ELSE "none"
  BY <1>1, <1>2, NewRows DEF TypeOK
<1>4. \A k \in Key : outbox[k].status # "none" =>
        k.chunk \in indexed /\ k.operation = "upsert" /\ k.token = 0
  BY <1>3 DEF UpsertKey
<1>5. \A w \in Worker : /\ pc[w] = "idle" /\ token[w] = 0
                        /\ upserts[w] = {} /\ deletes[w] = {}
  BY DEF Init
<1>6. /\ runs = 0 /\ lived = live /\ indexed \subseteq live /\ live \subseteq Chunk
  BY DEF Init
<1>7. OperationsAreKnown
  BY <1>2, <1>4, <1>5, <1>6 DEF OperationsAreKnown, InHand
<1>8. TokensAreNew
  <2>1. \A k \in Key : k.token > runs => outbox[k].status = "none"
    BY <1>4, <1>6
  <2>2. \A w \in Worker : token[w] = 0 /\ token[w] <= runs
    BY <1>5, <1>6
  <2> QED BY <2>1, <2>2 DEF TokensAreNew
<1>9. EnqueuedIsThere
  BY <1>2, <1>4 DEF EnqueuedIsThere, Registered
<1>10. SeenIsRegistered /\ CompleteRunIndexesAll
  BY <1>5 DEF SeenIsRegistered, CompleteRunIndexesAll, Enqueued
<1>11. ReadsAgree
  BY <1>5 DEF Init, ReadsAgree
<1> QED BY <1>1, <1>7, <1>8, <1>9, <1>10, <1>11 DEF IndexInv

\* ... and after every step.
LEMMA IndexStep == ASSUME OneWorker, ~ ContentReturns, IndexInv, [Next]_vars PROVE IndexInv'
<1>1. /\ TypeOK /\ OperationsAreKnown /\ ReadsAgree /\ TokensAreNew /\ EnqueuedIsThere
      /\ SeenIsRegistered
  BY DEF IndexInv
<1>2. TypeOK'
  BY <1>1, StepTypes
<1>3. OperationsAreKnown'
  BY <1>1, OperationsStayKnown
<1>4. ReadsAgree'
  BY <1>1, ReadsStayTrue
<1>5. TokensAreNew'
  BY <1>1, TokensStayNew
<1>6. EnqueuedIsThere'
  BY <1>1, EnqueuedStaysThere
<1>7. SeenIsRegistered'
  BY <1>1, SeenStaysRegistered
<1>8. CompleteRunIndexesAll'
  BY CompleteStaysIndexed
<1> QED BY <1>2, <1>3, <1>4, <1>5, <1>6, <1>7, <1>8 DEF IndexInv

\* Every variable keeps its type, whatever runs do: no row has more attempts than it may.
THEOREM ProjectionTypes == Spec => []TypeOK
<1> QED BY InitTypes, StepTypes, PTL DEF Spec

\* While one worker projects, what has been enqueued is in Qdrant or waiting to be sent.
THEOREM IndexInvariance == ASSUME OneWorker, ~ ContentReturns PROVE Spec => []IndexInv
<1>1. Init => IndexInv BY IndexInit
<1>2. IndexInv /\ [Next]_vars => IndexInv' BY IndexStep
<1> QED BY <1>1, <1>2, PTL DEF Spec

\* A run of the one worker that gets as far as switching the alias has put into Qdrant
\* whatever it covered that is still current.
THEOREM CompleteRunsIndexAll ==
  ASSUME OneWorker, ~ ContentReturns PROVE Spec => []CompleteRunIndexesAll
<1>1. IndexInv => CompleteRunIndexesAll BY DEF IndexInv
<1> QED BY <1>1, IndexInvariance, PTL

\* The one worker enqueues no delete of a chunk that is current, whatever is edited between
\* the statements of its transaction.
THEOREM DeletesAreOfTheGone ==
  ASSUME OneWorker, ~ ContentReturns PROVE Spec => []DeletesAreOfGone
<1>1. IndexInv => DeletesAreOfGone BY DEF IndexInv, OperationsAreKnown, DeletesAreOfGone
<1> QED BY <1>1, IndexInvariance, PTL

-----------------------------------------------------------------------------
(***************************************************************************)
(* One worker: what it has in hand.                                        *)
(***************************************************************************)

\* Only enqueueing registers deletes.
LEMMA DeletesKept ==
  ASSUME TypeOK, OperationsAreKnown, [Next]_vars, \A w \in Worker : ~ Enqueue(w),
         NEW c \in Chunk
  PROVE  (HasDelete(c)' <=> HasDelete(c)) /\ (Registered(c)' <=> Registered(c))
BY Registrations DEF HasDelete, Registered

\* What the one worker has in hand stays as its rows say.
LEMMA HandsStayAgreed ==
  ASSUME OneWorker, TruthInv, [Next]_vars
  PROVE  HandsAgree'
<1>0. TypeOK /\ OperationsAreKnown /\ HandsAgree /\ StatusAgrees
  BY DEF TruthInv, IndexInv
<1>1. CASE Edit \/ UNCHANGED vars
  <2>1. UNCHANGED <<outbox, status, points, pc, upserts, deletes>>
    BY <1>1 DEF Edit, vars, store, qdrant
  <2> QED BY <1>0, <2>1 DEF HandsAgree, HandAgrees, InHand, HasDelete, ChunksOf
<1>2. CASE Time
  <2>1. /\ \A k \in Key : outbox'[k].status = outbox[k].status
        /\ UNCHANGED <<status, points, pc, upserts, deletes>>
    BY <1>0, <1>2, TimedRows DEF Time, qdrant
  <2>2. \A w \in Worker : InHand(w) \subseteq Key
    BY <1>0 DEF TypeOK, InHand
  <2>3. \A c : HasDelete(c)' => HasDelete(c)
    BY <2>1 DEF HasDelete
  <2> QED BY <1>0, <2>1, <2>2, <2>3 DEF HandsAgree, HandAgrees, InHand, ChunksOf
<1>3. ASSUME NEW w \in Worker, RunStep(w)
      PROVE  HandsAgree'
  <2>0. /\ HandAgrees(w) /\ \A v \in Worker : v = w
        /\ InHand(w) \subseteq Key
        /\ pc \in [Worker -> RunState]
        /\ upserts \in [Worker -> SUBSET Key] /\ deletes \in [Worker -> SUBSET Key]
    BY <1>0 DEF OneWorker, HandsAgree, TypeOK, InHand
  <2> SUFFICES HandAgrees(w)'
    BY <2>0 DEF HandsAgree
  <2>1. CASE upserts'[w] = {} /\ deletes'[w] = {} /\ pc'[w] \notin {"upserted", "deleted"}
    BY <2>1 DEF HandAgrees, InHand
  <2>2. CASE BeforeClaims(w)
    <3>1. upserts' = upserts /\ deletes' = deletes
      BY <2>2 DEF BeforeClaims, Begin, DropCollection, EnsureCollection, ReadCurrent,
         ReadAllCurrent, Enqueue
    <3>2. /\ pc[w] \in EnqueueingStates \cup {"idle"}
          /\ pc'[w] \in EnqueueingStates \cup {"claiming"}
      BY <2>0, <2>2 DEF BeforeClaims, Begin, DropCollection, EnsureCollection, ReadCurrent,
         ReadAllCurrent, Enqueue, Goto, EnqueueingStates
    <3> QED BY <2>0, <2>1, <3>1, <3>2 DEF HandAgrees, EnqueueingStates
  <2>3. CASE ClaimBatch(w)
    <3>1. PICK B \in SUBSET Key :
            /\ \A k \in B : outbox[k].status \in {"pending", "processing"}
            /\ \A k \in Key : outbox'[k].status =
                 IF k \in B THEN "processing" ELSE outbox[k].status
            /\ upserts' = [upserts EXCEPT ![w] = {k \in B : CurrentUpsert(k)}]
            /\ deletes' = [deletes EXCEPT ![w] = B \ {k \in B : CurrentUpsert(k)}]
            /\ Goto(w, CASE B = {}   -> "closing"
                         [] {k \in B : CurrentUpsert(k)} # {} -> "upserting"
                         [] OTHER    -> "deleting")
      BY <1>0, <2>3, ClaimedRows
    <3>2. /\ upserts'[w] = {k \in B : CurrentUpsert(k)}
          /\ deletes'[w] = B \ {k \in B : CurrentUpsert(k)}
          /\ pc'[w] = CASE B = {}   -> "closing"
                        [] {k \in B : CurrentUpsert(k)} # {} -> "upserting"
                        [] OTHER    -> "deleting"
      BY <2>0, <3>1 DEF Goto
    <3>3. status' = status
      BY <2>3 DEF ClaimBatch
    <3>4. ASSUME NEW k \in upserts'[w]
          PROVE  status'[k.chunk].state # "deleted" /\ ~ HasDelete(k.chunk)'
      <4>1. k \in Key /\ k.chunk \in live
        BY <3>1, <3>2, <3>4 DEF CurrentUpsert
      <4>2. status[k.chunk].state # "deleted"
        BY <1>0, <4>1 DEF StatusAgrees, TypeOK
      <4>3. ~ HasDelete(k.chunk)
        BY <1>0, <4>1 DEF HasDelete, OperationsAreKnown
      <4>4. ~ HasDelete(k.chunk)'
        <5>1. \A l \in Key : outbox'[l].status # "none" => outbox[l].status # "none"
          BY <3>1
        <5> QED BY <4>3, <5>1 DEF HasDelete
      <4> QED BY <3>3, <4>2, <4>4
    <3>5. /\ upserts'[w] \cap deletes'[w] = {}
          /\ \A k \in InHand(w)' : outbox'[k].status = "processing"
      BY <3>1, <3>2 DEF InHand
    <3>6. /\ pc'[w] \in {"closing", "upserting", "deleting"}
          /\ pc'[w] # "upserting" => upserts'[w] = {}
          /\ pc'[w] = "closing" => deletes'[w] = {}
      BY <3>2
    <3> QED BY <3>4, <3>5, <3>6 DEF HandAgrees
  <2>4. CASE UpsertPoints(w)
    <3>1. /\ UNCHANGED <<outbox, status, upserts, deletes>>
          /\ pc[w] = "upserting" /\ pc'[w] \in {"upserted", "upsertFailed"}
          /\ pc'[w] = "upserted" => points' = points \cup ChunksOf(upserts[w])
      BY <2>0, <2>4 DEF UpsertPoints, Goto, store
    <3> QED BY <2>0, <3>1 DEF HandAgrees, InHand, HasDelete, ChunksOf
  <2>5. CASE DeletePoints(w)
    <3>1. /\ UNCHANGED <<outbox, status, upserts, deletes>>
          /\ pc[w] = "deleting" /\ pc'[w] \in {"deleted", "deleteFailed"}
          /\ pc'[w] = "deleted" => points' = points \ ChunksOf(deletes[w])
      BY <2>0, <2>5 DEF DeletePoints, Goto, store
    <3> QED BY <2>0, <3>1 DEF HandAgrees, InHand, HasDelete, ChunksOf
  <2>6. CASE MarkUpserted(w)
    <3>1. PICK k \in upserts[w] :
            /\ k \in Key
            /\ \A l \in Key : outbox'[l].status =
                 IF l = k /\ outbox[k].status = "processing" THEN "succeeded"
                 ELSE outbox[l].status
            /\ \A c \in Chunk : status'[c] =
                 IF c = k.chunk THEN [state |-> "current", generation |-> k.generation]
                 ELSE status[c]
            /\ upserts' = [upserts EXCEPT ![w] = upserts[w] \ {k}]
            /\ pc[w] = "upserted"
            /\ pc'[w] \in {"upserted", "claiming", "deleting"}
            /\ pc'[w] = "upserted" \/ upserts'[w] = {}
            /\ pc'[w] = "claiming" => deletes[w] = {}
      BY <1>0, <2>6, UpsertMarked
    <3>2. /\ upserts'[w] = upserts[w] \ {k} /\ deletes' = deletes /\ points' = points
      BY <2>0, <2>6, <3>1 DEF MarkUpserted, qdrant
    <3>3. k \notin InHand(w)' /\ InHand(w)' \subseteq InHand(w)
      BY <2>0, <3>2 DEF InHand, HandAgrees
    <3>4. \A l \in InHand(w)' : outbox'[l].status = "processing"
      BY <2>0, <3>1, <3>3 DEF HandAgrees
    <3>5. \A l \in upserts'[w] : status'[l.chunk].state # "deleted"
      <4>1. \A l \in upserts'[w] : l.chunk \in Chunk /\ status[l.chunk].state # "deleted"
        BY <2>0, <3>2, Keys DEF HandAgrees, InHand
      <4> QED BY <3>1, <4>1
    <3>6. \A l \in upserts'[w] : ~ HasDelete(l.chunk)'
      <4>1. \A l \in Key : outbox'[l].status # "none" => outbox[l].status # "none"
        BY <3>1
      <4> QED BY <2>0, <3>2, <4>1 DEF HandAgrees, HasDelete
    <3>7. ChunksOf(upserts'[w]) \subseteq points
      BY <2>0, <3>1, <3>2 DEF HandAgrees, ChunksOf
    <3>8. upserts'[w] \cap deletes'[w] = {}
      BY <2>0, <3>2 DEF HandAgrees
    <3>9. ChunksOf(upserts[w])' \subseteq points'
      BY <3>2, <3>7 DEF ChunksOf
    <3> QED BY <3>1, <3>2, <3>4, <3>5, <3>6, <3>8, <3>9 DEF HandAgrees
  <2>7. CASE MarkDeleted(w)
    <3>1. PICK k \in deletes[w] :
            /\ k \in Key
            /\ \A l \in Key : outbox'[l].status =
                 IF l = k /\ outbox[k].status = "processing" THEN "succeeded"
                 ELSE outbox[l].status
            /\ \A c \in Chunk : status'[c] =
                 IF c = k.chunk THEN [state |-> "deleted", generation |-> k.generation]
                 ELSE status[c]
            /\ deletes' = [deletes EXCEPT ![w] = deletes[w] \ {k}]
            /\ pc[w] = "deleted"
            /\ pc'[w] \in {"deleted", "claiming"}
            /\ pc'[w] = "deleted" \/ deletes'[w] = {}
      BY <1>0, <2>7, DeleteMarked
    <3>2. /\ deletes'[w] = deletes[w] \ {k} /\ upserts' = upserts /\ points' = points
          /\ upserts[w] = {}
      BY <2>0, <2>7, <3>1 DEF MarkDeleted, qdrant, HandAgrees
    <3>3. \A l \in InHand(w)' : outbox'[l].status = "processing"
      <4>1. \A l \in InHand(w)' : l \in Key /\ l # k /\ l \in InHand(w)
        BY <2>0, <3>2 DEF InHand
      <4> QED BY <2>0, <3>1, <4>1 DEF HandAgrees
    <3>4. ChunksOf(deletes[w])' \cap points' = {}
      BY <2>0, <3>1, <3>2 DEF HandAgrees, ChunksOf
    <3> QED BY <3>1, <3>2, <3>3, <3>4 DEF HandAgrees
  <2>8. CASE MarkFailed(w)
    <3>1. PICK k \in InHand(w) :
            /\ k \in Key
            /\ \A l \in Key \ {k} : outbox'[l].status = outbox[l].status
            /\ outbox'[k].status \in {"pending", "failed"}
            /\ \A c \in Chunk \ {k.chunk} : status'[c] = status[c]
            /\ status'[k.chunk].state \in {"pending", "failed"}
            /\ \/ EndRun(w)
               \/ /\ pc[w] = "upsertFailed" /\ k \in upserts[w]
                  /\ upserts' = [upserts EXCEPT ![w] = upserts[w] \ {k}]
                  /\ UNCHANGED <<pc, token, scope, began, rows, seen, deletes>>
               \/ /\ pc[w] = "deleteFailed" /\ k \in deletes[w]
                  /\ deletes' = [deletes EXCEPT ![w] = deletes[w] \ {k}]
                  /\ UNCHANGED <<pc, token, scope, began, rows, seen, upserts>>
      BY <1>0, <2>8, FailureMarked
    <3>2. CASE EndRun(w)
      BY <2>0, <2>1, <3>2 DEF EndRun, Goto
    <3>3. CASE ~ EndRun(w)
      <4>1. /\ pc' = pc /\ pc[w] \in {"upsertFailed", "deleteFailed"}
            /\ upserts'[w] \subseteq upserts[w] /\ deletes'[w] \subseteq deletes[w]
            /\ k \notin upserts'[w] /\ k \notin deletes'[w]
        BY <2>0, <3>1, <3>3 DEF HandAgrees
      <4>2. \A l \in InHand(w)' : outbox'[l].status = "processing"
        <5>1. \A l \in InHand(w)' : l \in Key /\ l # k /\ l \in InHand(w)
          BY <2>0, <4>1 DEF InHand
        <5> QED BY <2>0, <3>1, <5>1 DEF HandAgrees
      <4>3. \A l \in upserts'[w] : status'[l.chunk].state # "deleted"
        <5>1. \A l \in upserts'[w] : l.chunk \in Chunk /\ status[l.chunk].state # "deleted"
          BY <2>0, <4>1, Keys DEF HandAgrees, InHand
        <5> QED BY <3>1, <5>1
      <4>4. \A l \in upserts'[w] : ~ HasDelete(l.chunk)'
        <5>1. outbox[k].status # "none"
          BY <2>0 DEF HandAgrees
        <5>2. \A l \in Key : outbox'[l].status # "none" => outbox[l].status # "none"
          BY <3>1, <5>1
        <5> QED BY <2>0, <4>1, <5>2 DEF HandAgrees, HasDelete
      <4>5. /\ upserts'[w] \cap deletes'[w] = {}
            /\ pc'[w] = "deleteFailed" => upserts'[w] = {}
        BY <2>0, <4>1 DEF HandAgrees
      <4> QED BY <4>1, <4>2, <4>3, <4>4, <4>5 DEF HandAgrees
    <3> QED BY <3>2, <3>3
  <2>9. CASE CountOutstanding(w)
    <3>1. /\ pc[w] = "closing"
          /\ \/ pc'[w] = "activating" /\ upserts' = upserts /\ deletes' = deletes
             \/ EndRun(w)
      BY <2>0, <2>9 DEF CountOutstanding, Goto
    <3> QED BY <2>0, <2>1, <3>1 DEF HandAgrees, EndRun, Goto
  <2>10. CASE Activate(w) \/ Crash(w)
    BY <2>0, <2>1, <2>10 DEF Activate, Crash, EndRun, Goto
  <2> QED
    BY <1>3, <2>2, <2>3, <2>4, <2>5, <2>6, <2>7, <2>8, <2>9, <2>10 DEF RunStep, BeforeClaims
<1> QED BY <1>1, <1>2, <1>3 DEF Next

-----------------------------------------------------------------------------
(***************************************************************************)
(* One worker: status rows.                                                *)
(***************************************************************************)

\* A chunk with a status row has been live, and does not come back.
LEMMA KnownChunksStay ==
  ASSUME TypeOK, OperationsAreKnown, ~ ContentReturns, [Next]_vars, NEW c \in live',
         status[c].state # "none" \/ Registered(c)
  PROVE  c \in live
<1>1. CASE Edit
  <2>1. c \in live \/ c \in Chunk \ lived
    BY <1>1, EditedChunks
  <2>2. c \in Chunk => c \in lived
    BY DEF OperationsAreKnown, Registered
  <2> QED BY <2>1, <2>2
<1>2. CASE Time \/ UNCHANGED vars
  BY <1>2 DEF Time, vars
<1>3. ASSUME NEW w \in Worker, RunStep(w)
      PROVE  live' = live
  BY <1>3, StepsKeep
<1> QED BY <1>1, <1>2, <1>3 DEF Next

\* Points come from what is in hand.
LEMMA PointsComeFromHands ==
  ASSUME TypeOK, OperationsAreKnown, [Next]_vars, NEW c \in points', c \notin points
  PROVE  \E w \in Worker : UpsertPoints(w) /\ c \in ChunksOf(upserts[w])
<1>1. CASE Edit \/ Time \/ UNCHANGED vars
  BY <1>1 DEF Edit, Time, vars, qdrant
<1>2. ASSUME NEW w \in Worker, RunStep(w)
      PROVE  UpsertPoints(w) /\ c \in ChunksOf(upserts[w])
  <2>1. CASE UpsertPoints(w)
    BY <2>1 DEF UpsertPoints
  <2>2. CASE DropCollection(w) \/ DeletePoints(w)
    BY <2>2 DEF DropCollection, DeletePoints
  <2>3. CASE ~ UpsertPoints(w) /\ ~ DropCollection(w) /\ ~ DeletePoints(w)
    <3>1. points' = points
      BY <1>2, <2>3, StepsKeep
    <3> QED BY <3>1
  <2> QED BY <2>1, <2>2, <2>3
<1> QED BY <1>1, <1>2 DEF Next

\* How the status row of a chunk changes.
LEMMA StatusChanges ==
  ASSUME TypeOK, OperationsAreKnown, [Next]_vars, NEW c \in Chunk
  PROVE  \/ status'[c] = status[c]
         \/ \E w \in Worker : \E k \in upserts[w] :
              /\ MarkUpserted(w) /\ k.chunk = c
              /\ status'[c].state = "current" /\ status'[c].generation = k.generation
         \/ \E w \in Worker : \E k \in deletes[w] :
              MarkDeleted(w) /\ k.chunk = c /\ status'[c].state = "deleted"
         \/ /\ status'[c].state \in {"pending", "failed"}
            /\ \E k \in Outstanding' : k.chunk = c
<1>1. CASE Edit \/ Time \/ UNCHANGED vars
  BY <1>1 DEF Edit, Time, vars, store
<1>2. CASE \E w \in Worker : Enqueue(w)
  <2>1. PICK w \in Worker : Enqueue(w)
    BY <1>2
  <2>2. /\ WantedUpserts(w) \cup WantedDeletes(w) \subseteq Key
        /\ \A k \in Key : outbox'[k].status =
             IF k \in WantedUpserts(w) \cup WantedDeletes(w) /\ outbox[k].status = "none"
             THEN "pending" ELSE outbox[k].status
        /\ IF \E k \in WantedUpserts(w) \cup WantedDeletes(w) :
                k.chunk = c /\ outbox[k].status = "none"
           THEN status'[c].state = "pending" ELSE status'[c] = status[c]
    BY <2>1, EnqueuedRows
  <2>3. CASE \E k \in WantedUpserts(w) \cup WantedDeletes(w) :
               k.chunk = c /\ outbox[k].status = "none"
    <3>1. PICK k \in WantedUpserts(w) \cup WantedDeletes(w) :
            k.chunk = c /\ outbox[k].status = "none"
      BY <2>3
    <3>2. k \in Key /\ k \in Outstanding'
      BY <2>2, <3>1 DEF Outstanding
    <3>3. status'[c].state = "pending"
      BY <2>2, <2>3
    <3> QED BY <3>1, <3>2, <3>3
  <2> QED BY <2>2, <2>3
<1>3. ASSUME NEW w \in Worker, MarkUpserted(w)
      PROVE  \/ status'[c] = status[c]
             \/ \E k \in upserts[w] :
                  /\ k.chunk = c
                  /\ status'[c].state = "current" /\ status'[c].generation = k.generation
  <2>1. PICK k \in upserts[w] : Succeeded(k, TRUE)
    BY <1>3 DEF MarkUpserted
  <2>2. k \in Key
    BY DEF TypeOK
  <2>3. status'[c] = IF c = k.chunk THEN [state |-> "current", generation |-> k.generation]
                     ELSE status[c]
    BY <2>1, <2>2, SucceededRows
  <2> QED BY <2>3
<1>4. ASSUME NEW w \in Worker, MarkDeleted(w)
      PROVE  \/ status'[c] = status[c]
             \/ \E k \in deletes[w] :
                  k.chunk = c /\ status'[c].state = "deleted"
  <2>1. PICK k \in deletes[w] : Succeeded(k, FALSE)
    BY <1>4 DEF MarkDeleted
  <2>2. k \in Key
    BY DEF TypeOK
  <2>3. status'[c] = IF c = k.chunk THEN [state |-> "deleted", generation |-> k.generation]
                     ELSE status[c]
    BY <2>1, <2>2, SucceededRows
  <2> QED BY <2>3
<1>5. ASSUME NEW w \in Worker, MarkFailed(w)
      PROVE  \/ status'[c] = status[c]
             \/ /\ status'[c].state \in {"pending", "failed"}
                /\ \E k \in Outstanding' : k.chunk = c
  <2>1. PICK k \in InHand(w) :
          /\ k \in Key
          /\ outbox'[k].status \in {"pending", "failed"}
          /\ \A d \in Chunk \ {k.chunk} : status'[d] = status[d]
          /\ status'[k.chunk].state \in {"pending", "failed"}
    BY <1>5, FailureMarked
  <2>2. k \in Outstanding'
    BY <2>1 DEF Outstanding
  <2> QED BY <2>1, <2>2
<1>6. ASSUME NEW w \in Worker, ClaimBatch(w) \/ StillStep(w)
      PROVE  status'[c] = status[c]
  BY <1>6, StillRows DEF ClaimBatch
<1> QED
  BY <1>1, <1>2, <1>3, <1>4, <1>5, <1>6 DEF Next, RunStep, StillStep

\* Operations stay outstanding until they are marked succeeded.
LEMMA StaysOutstanding ==
  ASSUME TypeOK, OperationsAreKnown, [Next]_vars, NEW k \in Outstanding
  PROVE  \/ k \in Outstanding'
         \/ \E w \in Worker : MarkUpserted(w) /\ k \in upserts[w]
                              /\ status'[k.chunk].state = "current"
         \/ \E w \in Worker : MarkDeleted(w) /\ k \in deletes[w]
                              /\ status'[k.chunk].state = "deleted"
<1>1. k \in Key /\ outbox[k].status \in {"pending", "processing", "failed"}
  BY DEF Outstanding
<1>2. k.chunk \in Chunk
  BY <1>1, Keys
<1>3. CASE Edit \/ UNCHANGED vars
  BY <1>3 DEF Edit, vars, store, Outstanding
<1>4. CASE Time
  BY <1>1, <1>4, TimedRows DEF Outstanding
<1>5. ASSUME NEW w \in Worker, Enqueue(w)
      PROVE  k \in Outstanding'
  BY <1>1, <1>5, EnqueuedRows DEF Outstanding
<1>6. ASSUME NEW w \in Worker, ClaimBatch(w)
      PROVE  k \in Outstanding'
  BY <1>1, <1>6, ClaimedRows DEF Outstanding
<1>7. ASSUME NEW w \in Worker, MarkUpserted(w)
      PROVE  \/ k \in Outstanding'
             \/ k \in upserts[w] /\ status'[k.chunk].state = "current"
  <2>1. PICK l \in upserts[w] : Succeeded(l, TRUE)
    BY <1>7 DEF MarkUpserted
  <2>2. l \in Key
    BY DEF TypeOK
  <2>3. /\ \A m \in Key : outbox'[m].status =
             IF m = l /\ outbox[l].status = "processing" THEN "succeeded" ELSE outbox[m].status
        /\ status'[l.chunk] = [state |-> "current", generation |-> l.generation]
    BY <2>1, <2>2, SucceededRows, Keys
  <2> QED BY <1>1, <2>3 DEF Outstanding
<1>8. ASSUME NEW w \in Worker, MarkDeleted(w)
      PROVE  \/ k \in Outstanding'
             \/ k \in deletes[w] /\ status'[k.chunk].state = "deleted"
  <2>1. PICK l \in deletes[w] : Succeeded(l, FALSE)
    BY <1>8 DEF MarkDeleted
  <2>2. l \in Key
    BY DEF TypeOK
  <2>3. /\ \A m \in Key : outbox'[m].status =
             IF m = l /\ outbox[l].status = "processing" THEN "succeeded" ELSE outbox[m].status
        /\ status'[l.chunk] = [state |-> "deleted", generation |-> l.generation]
    BY <2>1, <2>2, SucceededRows, Keys
  <2> QED BY <1>1, <2>3 DEF Outstanding
<1>9. ASSUME NEW w \in Worker, MarkFailed(w)
      PROVE  k \in Outstanding'
  BY <1>1, <1>9, FailureMarked DEF Outstanding
<1>10. ASSUME NEW w \in Worker, StillStep(w)
       PROVE  k \in Outstanding'
  BY <1>1, <1>10, StillRows DEF Outstanding
<1> QED
  BY <1>3, <1>4, <1>5, <1>6, <1>7, <1>8, <1>9, <1>10 DEF Next, RunStep, StillStep

\* What is new in the outbox has made its status row pending.
LEMMA NewIsPending ==
  ASSUME TypeOK, OperationsAreKnown, [Next]_vars, NEW k \in Key,
         outbox[k].status = "none", outbox'[k].status # "none"
  PROVE  status'[k.chunk].state = "pending"
<1>1. PICK w \in Worker : Enqueue(w)
  BY Registrations
<1>2. /\ \A l \in Key : outbox'[l].status =
           IF l \in WantedUpserts(w) \cup WantedDeletes(w) /\ outbox[l].status = "none"
           THEN "pending" ELSE outbox[l].status
      /\ \A c \in Chunk :
           IF \E l \in WantedUpserts(w) \cup WantedDeletes(w) :
                l.chunk = c /\ outbox[l].status = "none"
           THEN status'[c].state = "pending" ELSE status'[c] = status[c]
  BY <1>1, EnqueuedRows
<1>3. k \in WantedUpserts(w) \cup WantedDeletes(w)
  BY <1>2
<1>4. k.chunk \in Chunk
  BY Keys
<1> QED BY <1>2, <1>3, <1>4

\* Status rows stay in agreement with the outbox.
LEMMA StatusStaysAgreed ==
  ASSUME ~ ContentReturns, TruthInv, [Next]_vars
  PROVE  StatusAgrees'
<1>0. TypeOK /\ OperationsAreKnown /\ HandsAgree /\ StatusAgrees
  BY DEF TruthInv, IndexInv
<1> SUFFICES ASSUME NEW c \in Chunk
             PROVE  /\ Registered(c)' \/ c \in points' => status'[c].state # "none"
                    /\ c \in points' => Registered(c)'
                    /\ status'[c].state = "current" =>
                         ~ HasDelete(c)' /\ status'[c].generation = 1
                    /\ status'[c].state = "deleted" => c \notin live'
                    /\ status'[c].state \in {"pending", "failed"} =>
                         \E k \in Outstanding' : k.chunk = c
  BY DEF StatusAgrees
<1>1. Registered(c)' /\ ~ Registered(c) => status'[c].state = "pending"
  BY <1>0, NewIsPending DEF Registered
<1>2. HasDelete(c)' /\ ~ HasDelete(c) => status'[c].state = "pending"
  BY <1>0, NewIsPending DEF HasDelete
<1>3. status[c].state # "none" => status'[c].state # "none"
  BY <1>0, StatusChanges
<1>4. Registered(c) => Registered(c)'
  BY <1>0, Registrations DEF Registered
<1>5. c \in points' => c \in points \/ Registered(c)
  <2> SUFFICES ASSUME c \in points', c \notin points PROVE Registered(c)
    OBVIOUS
  <2>1. PICK w \in Worker : c \in ChunksOf(upserts[w])
    BY <1>0, PointsComeFromHands
  <2>2. PICK k \in upserts[w] : k.chunk = c
    BY <2>1 DEF ChunksOf
  <2> QED BY <1>0, <2>2 DEF Registered, OperationsAreKnown, InHand, TypeOK
<1>6. Registered(c)' \/ c \in points' => status'[c].state # "none"
  BY <1>0, <1>1, <1>3, <1>5 DEF StatusAgrees
<1>7. c \in points' => Registered(c)'
  BY <1>0, <1>4, <1>5 DEF StatusAgrees
<1>8. ASSUME status'[c].state = "current"
      PROVE  ~ HasDelete(c)' /\ status'[c].generation = 1
  <2>1. CASE status'[c] = status[c]
    BY <1>0, <1>2, <1>8, <2>1 DEF StatusAgrees
  <2>2. ASSUME NEW w \in Worker, NEW k \in upserts[w], k.chunk = c,
               status'[c].generation = k.generation
        PROVE  ~ HasDelete(c) /\ status'[c].generation = 1
    <3>1. k \in Key /\ k.operation = "upsert" /\ ~ HasDelete(c)
      BY <1>0, <2>2 DEF OperationsAreKnown, HandsAgree, HandAgrees, TypeOK
    <3> QED BY <2>2, <3>1, Keys
  <2>3. \/ status'[c] = status[c]
        \/ \E w \in Worker : \E k \in upserts[w] :
             k.chunk = c /\ status'[c].generation = k.generation
    BY <1>0, <1>8, StatusChanges
  <2> QED BY <1>2, <1>8, <2>1, <2>2, <2>3
<1>9. ASSUME status'[c].state = "deleted"
      PROVE  c \notin live'
  <2>1. c \notin live /\ (status[c].state # "none" \/ Registered(c))
    <3>1. CASE status'[c] = status[c]
      BY <1>0, <1>9, <3>1 DEF StatusAgrees
    <3>2. ASSUME NEW w \in Worker, NEW k \in deletes[w], k.chunk = c
          PROVE  c \notin live /\ Registered(c)
      BY <1>0, <3>2 DEF OperationsAreKnown, InHand, Registered, TypeOK
    <3>3. \/ status'[c] = status[c]
          \/ \E w \in Worker : \E k \in deletes[w] : k.chunk = c
      BY <1>0, <1>9, StatusChanges
    <3> QED BY <3>1, <3>2, <3>3
  <2> QED BY <1>0, <2>1, KnownChunksStay
<1>10. ASSUME status'[c].state \in {"pending", "failed"}
       PROVE  \E k \in Outstanding' : k.chunk = c
  <2>1. CASE status'[c] = status[c]
    <3>1. PICK k \in Outstanding : k.chunk = c
      BY <1>0, <1>10, <2>1 DEF StatusAgrees
    <3> QED BY <1>0, <1>10, <3>1, StaysOutstanding
  <2>2. CASE status'[c] # status[c]
    BY <1>0, <1>10, <2>2, StatusChanges
  <2> QED BY <2>1, <2>2
<1> QED BY <1>6, <1>7, <1>8, <1>9, <1>10

\* An enqueueing transaction makes a delete of what has a "current" status row and has not
\* been read, and a rebuild enqueues all it has read.
LEMMA EnqueueingCovers ==
  ASSUME TruthInv, NEW w \in Worker, Enqueue(w), NEW c \in Chunk, status[c].state = "current",
         c \notin seen[w] \/ token[w] # 0
  PROVE  status'[c].state = "pending"
<1>0. TypeOK /\ OperationsAreKnown /\ ReadsAgree /\ TokensAreNew /\ StatusAgrees
  BY DEF TruthInv, IndexInv
<1>1. \E k \in WantedUpserts(w) \cup WantedDeletes(w) :
        k.chunk = c /\ outbox[k].status = "none"
  <2>1. CASE c \notin seen[w]
    <3>1. ~ HasDelete(c) /\ status[c].generation = 1
      BY <1>0 DEF StatusAgrees
    <3>2. DeleteKey(c, 2) \in WantedDeletes(w)
      <4>1. /\ StatusThen(w, c).state \notin {"none", "deleted"}
            /\ StatusThen(w, c).generation = 1
        BY <3>1 DEF StatusThen
      <4>2. c \in Stale(w) /\ StatusThen(w, c).generation + 1 = 2
        BY <2>1, <4>1 DEF Stale
      <4> QED BY <4>2 DEF WantedDeletes
    <3>3. /\ DeleteKey(c, 2) \in Key /\ DeleteKey(c, 2).chunk = c
          /\ DeleteKey(c, 2).operation = "delete"
      BY Keys
    <3>4. outbox[DeleteKey(c, 2)].status = "none"
      BY <3>1, <3>3 DEF HasDelete
    <3> QED BY <3>2, <3>3, <3>4
  <2>2. CASE c \in seen[w] /\ token[w] # 0
    <3>1. scope[w] = Chunk /\ outbox[UpsertKey(c, token[w])].status = "none"
      BY <1>0, <2>2 DEF TokensAreNew, Enqueue, EnqueueingStates
    <3>2. c \in rows[w]
      BY <1>0, <2>2, <3>1 DEF ReadsAgree, Enqueue
    <3>3. UpsertKey(c, token[w]) \in WantedUpserts(w)
      BY <3>2 DEF WantedUpserts
    <3> QED BY <1>0, <3>1, <3>3, Keys DEF TypeOK
  <2> QED BY <2>1, <2>2
<1> QED BY <1>0, <1>1, EnqueuedRows

\* Status rows stay true of the collection.
LEMMA StatusStaysTrue ==
  ASSUME OneWorker, TruthInv, [Next]_vars
  PROVE  StatusIsTrue'
<1>0. TypeOK /\ OperationsAreKnown /\ HandsAgree /\ StatusAgrees /\ StatusIsTrue
  BY DEF TruthInv, IndexInv
<1>1. ASSUME NEW w \in Worker, MarkUpserted(w)
      PROVE  ChunksOf(upserts[w]) \subseteq points'
  BY <1>0, <1>1 DEF HandsAgree, HandAgrees, MarkUpserted, qdrant
<1>2. ASSUME NEW w \in Worker, MarkDeleted(w)
      PROVE  ChunksOf(deletes[w]) \cap points' = {}
  BY <1>0, <1>2 DEF HandsAgree, HandAgrees, MarkDeleted, qdrant
<1>3. ASSUME NEW c \in Chunk, status'[c].state = "current"
      PROVE  c \in points' \/ dropped' \/ \E k \in Outstanding' : k.chunk = c
  <2>1. CASE \E w \in Worker : MarkUpserted(w) /\ c \in ChunksOf(upserts[w])
    BY <1>1, <2>1
  <2>2. CASE ~ \E w \in Worker : MarkUpserted(w) /\ c \in ChunksOf(upserts[w])
    <3>1. status'[c] = status[c]
      BY <1>0, <1>3, <2>2, StatusChanges DEF ChunksOf
    <3>2. CASE \E k \in Outstanding : k.chunk = c
      <4>1. PICK k \in Outstanding : k.chunk = c
        BY <3>2
      <4> QED BY <1>0, <1>3, <2>2, <4>1, StaysOutstanding DEF ChunksOf
    <3>3. CASE dropped
      <4>1. CASE \E w \in Worker : Enqueue(w)
        <5>1. PICK w \in Worker : Enqueue(w)
          BY <4>1
        <5>2. token[w] = 0
          BY <1>3, <3>1, <5>1, EnqueueingCovers
        <5> QED BY <3>3, <5>1, <5>2 DEF Enqueue
      <4>2. CASE ~ \E w \in Worker : Enqueue(w)
        <5>1. dropped'
          <6>1. CASE Edit \/ Time \/ UNCHANGED vars
            BY <3>3, <6>1 DEF Edit, Time, vars, qdrant
          <6>2. ASSUME NEW w \in Worker, RunStep(w)
                PROVE  dropped'
            <7>1. CASE DropCollection(w)
              BY <7>1 DEF DropCollection
            <7>2. CASE ~ DropCollection(w)
              <8>1. dropped' = dropped
                BY <4>2, <6>2, <7>2, StepsKeep
              <8> QED BY <3>3, <8>1
            <7> QED BY <7>1, <7>2
          <6> QED BY <6>1, <6>2 DEF Next
        <5> QED BY <5>1
      <4> QED BY <4>1, <4>2
    <3>4. CASE c \in points
      <4>1. CASE Edit \/ Time \/ UNCHANGED vars
        BY <3>4, <4>1 DEF Edit, Time, vars, qdrant
      <4>2. ASSUME NEW w \in Worker, RunStep(w)
            PROVE  c \in points' \/ dropped' \/ \E k \in Outstanding' : k.chunk = c
        <5>1. CASE DropCollection(w)
          BY <5>1 DEF DropCollection
        <5>2. CASE DeletePoints(w)
          <6>1. CASE c \in ChunksOf(deletes[w])
            <7>1. PICK k \in deletes[w] : k.chunk = c
              BY <6>1 DEF ChunksOf
            <7>2. k \in Key /\ outbox[k].status = "processing"
              BY <1>0 DEF HandsAgree, HandAgrees, InHand, TypeOK
            <7>3. outbox' = outbox
              BY <5>2 DEF DeletePoints, store
            <7>4. k \in Outstanding'
              BY <7>2, <7>3 DEF Outstanding
            <7> QED BY <7>1, <7>4
          <6>2. CASE c \notin ChunksOf(deletes[w])
            BY <3>4, <5>2, <6>2 DEF DeletePoints
          <6> QED BY <6>1, <6>2
        <5>3. CASE UpsertPoints(w)
          BY <3>4, <5>3 DEF UpsertPoints
        <5>4. CASE ~ DropCollection(w) /\ ~ DeletePoints(w) /\ ~ UpsertPoints(w)
          <6>1. points' = points
            BY <4>2, <5>4, StepsKeep
          <6> QED BY <3>4, <6>1
        <5> QED BY <5>1, <5>2, <5>3, <5>4
      <4> QED BY <4>1, <4>2 DEF Next
    <3> QED BY <1>0, <1>3, <3>1, <3>2, <3>3, <3>4 DEF StatusIsTrue
  <2> QED BY <2>1, <2>2
<1>4. ASSUME NEW c \in Chunk, status'[c].state = "deleted"
      PROVE  c \notin points'
  <2>1. CASE \E w \in Worker : MarkDeleted(w) /\ c \in ChunksOf(deletes[w])
    BY <1>2, <2>1
  <2>2. CASE ~ \E w \in Worker : MarkDeleted(w) /\ c \in ChunksOf(deletes[w])
    <3>1. status'[c] = status[c]
      BY <1>0, <1>4, <2>2, StatusChanges DEF ChunksOf
    <3>2. c \notin points
      BY <1>0, <1>4, <3>1 DEF StatusIsTrue
    <3>3. ASSUME NEW w \in Worker
          PROVE  c \notin ChunksOf(upserts[w])
      BY <1>0, <1>4, <3>1 DEF HandsAgree, HandAgrees, ChunksOf
    <3> QED BY <1>0, <3>2, <3>3, PointsComeFromHands
  <2> QED BY <2>1, <2>2
<1> QED BY <1>3, <1>4 DEF StatusIsTrue

\* A run that has enqueued has seen what is current, and what it has in hand.
LEMMA UnseenStaysNotCurrent ==
  ASSUME OneWorker, ~ ContentReturns, TruthInv, HandsAgree', [Next]_vars
  PROVE  UnseenIsNotCurrent'
<1>0. /\ TypeOK /\ OperationsAreKnown /\ ReadsAgree /\ HandsAgree /\ StatusAgrees
      /\ StatusIsTrue /\ UnseenIsNotCurrent /\ \A v, w \in Worker : v = w
  BY DEF TruthInv, IndexInv, OneWorker
<1>1. ASSUME NEW w \in Worker, NEW c \in Chunk, ~ Enqueue(w), Enqueued(w), seen'[w] = seen[w]
      PROVE  /\ status'[c].state = "current" => c \in seen'[w]
             /\ Registered(c)' /\ c \in live' => c \in seen'[w]
  <2>0. \A v \in Worker : ~ Enqueue(v)
    BY <1>0, <1>1
  <2>1. ASSUME status'[c].state = "current"
        PROVE  c \in seen[w]
    <3>1. \/ status'[c] = status[c]
          \/ \E v \in Worker : \E k \in upserts[v] : k.chunk = c
      BY <1>0, <2>1, StatusChanges
    <3>2. CASE status'[c] = status[c]
      BY <1>0, <1>1, <2>1, <3>2 DEF UnseenIsNotCurrent
    <3>3. CASE \E v \in Worker : \E k \in upserts[v] : k.chunk = c
      BY <1>0, <3>3 DEF UnseenIsNotCurrent
    <3> QED BY <3>1, <3>2, <3>3
  <2>2. ASSUME Registered(c)', c \in live'
        PROVE  c \in seen[w]
    <3>1. Registered(c)
      BY <1>0, <2>0, <2>2, DeletesKept
    <3>2. c \in live
      BY <1>0, <2>2, <3>1, KnownChunksStay
    <3> QED BY <1>0, <1>1, <3>1, <3>2 DEF UnseenIsNotCurrent
  <2> QED BY <1>1, <2>1, <2>2
<1>2. CASE Edit \/ Time \/ UNCHANGED vars
  <2>1. UNCHANGED <<pc, seen, upserts, points>>
    BY <1>2 DEF Edit, Time, vars, qdrant
  <2>2. \A w \in Worker : ~ Enqueue(w) \/ ~ Enqueued(w)
    BY DEF Enqueue, Enqueued, EnqueueingStates
  <2>3. ASSUME NEW w \in Worker, Enqueued(w)', NEW c \in Chunk
        PROVE  /\ status'[c].state = "current" => c \in seen'[w]
               /\ Registered(c)' /\ c \in live' => c \in seen'[w]
    <3>1. Enqueued(w) /\ seen'[w] = seen[w] /\ ~ Enqueue(w)
      BY <2>1, <2>2, <2>3 DEF Enqueued
    <3> QED BY <1>1, <3>1
  <2> QED BY <1>0, <2>1, <2>3 DEF UnseenIsNotCurrent
<1>3. ASSUME NEW w \in Worker, RunStep(w)
      PROVE  UnseenIsNotCurrent'
  <2>1. ASSUME Enqueued(w)', NEW c \in Chunk
        PROVE  /\ status'[c].state = "current" => c \in seen'[w]
               /\ Registered(c)' /\ c \in live' => c \in seen'[w]
    <3>1. CASE Enqueue(w)
      <4>1. /\ seen' = seen /\ live' = live
            /\ c \in live /\ (c \in rows[w] \/ Registered(c)) => c \in seen[w]
        BY <1>0, <3>1 DEF Enqueue, ReadsAgree
      <4>2. status'[c] = status[c] \/ status'[c].state = "pending"
        BY <1>0, <3>1, EnqueuedRows
      <4>3. status[c].state = "current" /\ c \notin seen[w] => status'[c].state = "pending"
        BY <3>1, EnqueueingCovers
      <4>4. ASSUME Registered(c)', ~ Registered(c), c \in live
            PROVE  c \in rows[w]
        <5>1. PICK k \in Key : /\ k.chunk = c
                               /\ k \in WantedUpserts(w) \cup WantedDeletes(w)
          BY <1>0, <3>1, <4>4, EnqueuedRows DEF Registered
        <5>2. k.operation # "delete"
          BY <1>0, <3>1, <4>4, <5>1, WantedChunks
        <5>3. k \in WantedUpserts(w)
          BY <1>0, <5>1, <5>2, WantedTokens
        <5> QED BY <5>1, <5>3 DEF WantedUpserts, UpsertKey
      <4> QED BY <4>1, <4>2, <4>3, <4>4
    <3>2. CASE ~ Enqueue(w)
      BY <1>0, <1>1, <1>3, <2>1, <3>2, SeenKept
    <3> QED BY <3>1, <3>2
  <2>2. ASSUME NEW k \in upserts'[w]
        PROVE  k.chunk \in seen'[w]
    <3>1. pc'[w] \in {"upserting", "upserted", "upsertFailed"}
      BY <2>2 DEF HandsAgree, HandAgrees
    <3>2. ~ Enqueue(w)
      BY <1>0, <3>1 DEF Enqueue, Goto, TypeOK
    <3>3. Enqueued(w) /\ seen'[w] = seen[w]
      BY <1>0, <1>3, <3>1, <3>2, SeenKept DEF Enqueued, EnqueueingStates
    <3>4. CASE ClaimBatch(w)
      <4>1. PICK B \in SUBSET Key :
              /\ \A l \in B : outbox[l].status \in {"pending", "processing"}
              /\ upserts' = [upserts EXCEPT ![w] = {l \in B : CurrentUpsert(l)}]
        BY <1>0, <3>4, ClaimedRows
      <4>2. k \in Key /\ outbox[k].status # "none" /\ k.chunk \in live
        BY <1>0, <2>2, <4>1 DEF TypeOK, CurrentUpsert
      <4>3. Registered(k.chunk) /\ k.chunk \in Chunk
        BY <4>2, Keys DEF Registered
      <4> QED BY <1>0, <3>3, <4>2, <4>3 DEF UnseenIsNotCurrent
    <3>5. CASE ~ ClaimBatch(w)
      BY <1>0, <1>3, <2>2, <3>3, <3>5, HandsShrink DEF UnseenIsNotCurrent
    <3> QED BY <3>4, <3>5
  <2>3. ASSUME pc'[w] = "activating"
        PROVE  points' \subseteq seen'[w]
    <3>1. /\ pc[w] = "closing" /\ Outstanding = {}
          /\ points' = points /\ seen' = seen
      BY <1>0, <1>3, <2>3, Activating
    <3>2. ASSUME NEW c \in points
          PROVE  c \in seen[w]
      <4>1. c \in Chunk /\ status[c] \in StatusRow
        BY <1>0 DEF TypeOK
      <4>2. status[c].state \notin {"none", "pending", "failed", "deleted"}
        BY <1>0, <3>1, <4>1 DEF StatusAgrees, StatusIsTrue
      <4>3. status[c].state = "current"
        BY <4>1, <4>2 DEF StatusRow
      <4> QED BY <1>0, <3>1, <4>1, <4>3 DEF UnseenIsNotCurrent, Enqueued, EnqueueingStates
    <3> QED BY <3>1, <3>2
  <2> QED BY <1>0, <2>1, <2>2, <2>3 DEF UnseenIsNotCurrent
<1> QED BY <1>2, <1>3 DEF Next

\* TruthInv holds initially ...
LEMMA TruthInit == Init => TruthInv
<1> SUFFICES ASSUME Init PROVE TruthInv
  OBVIOUS
<1>1. IndexInv
  BY IndexInit
<1>2. PICK indexed \in {{}, live} :
        /\ outbox = [k \in Key |->
             IF \E c \in indexed : k = UpsertKey(c, 0)
             THEN [NoRow EXCEPT !.status = "succeeded", !.attempt = 1, !.due = TRUE]
             ELSE NoRow]
        /\ status = [c \in Chunk |->
             IF c \in indexed THEN [state |-> "current", generation |-> 1]
             ELSE [state |-> "none", generation |-> 0]]
        /\ points = indexed
  BY DEF Init
<1>3. runs \in 0 .. MaxRuns /\ 0 \in 0 .. MaxRuns /\ indexed \subseteq Chunk
  BY <1>1, ProjectionAssumption DEF IndexInv, TypeOK, Init
<1>4. \A k \in Key : outbox[k].status =
        IF \E c \in indexed : k = UpsertKey(c, 0) THEN "succeeded" ELSE "none"
  BY <1>2, <1>3, NewRows
<1>5. \A k \in Key : outbox[k].status # "none" => k.chunk \in indexed /\ k.operation = "upsert"
  BY <1>4 DEF UpsertKey
<1>6. HandsAgree
  BY DEF Init, HandsAgree, HandAgrees, InHand
<1>7. ASSUME NEW c \in Chunk
      PROVE  /\ c \in indexed => Registered(c) /\ status[c].state = "current"
                                 /\ status[c].generation = 1
             /\ c \notin indexed => status[c].state = "none" /\ ~ Registered(c)
             /\ ~ HasDelete(c)
  <2>1. c \in indexed => Registered(c)
    <3> SUFFICES ASSUME c \in indexed PROVE Registered(c)
      OBVIOUS
    <3>1. UpsertKey(c, 0) \in Key /\ UpsertKey(c, 0).chunk = c
      BY <1>3, Keys
    <3>2. outbox[UpsertKey(c, 0)].status = "succeeded"
      BY <1>4, <3>1
    <3> QED BY <3>1, <3>2 DEF Registered
  <2>2. (c \notin indexed => ~ Registered(c)) /\ ~ HasDelete(c)
    BY <1>5 DEF Registered, HasDelete
  <2> QED BY <1>2, <2>1, <2>2
<1>8. StatusAgrees /\ StatusIsTrue
  BY <1>2, <1>7 DEF StatusAgrees, StatusIsTrue
<1>9. UnseenIsNotCurrent
  BY DEF Init, UnseenIsNotCurrent, Enqueued
<1> QED BY <1>1, <1>6, <1>8, <1>9 DEF TruthInv

\* ... and after every step.
LEMMA TruthStep ==
  ASSUME OneWorker, ~ ContentReturns, TruthInv, [Next]_vars PROVE TruthInv'
<1>1. IndexInv'
  BY IndexStep DEF TruthInv
<1>2. HandsAgree'
  BY HandsStayAgreed
<1>3. StatusAgrees' /\ StatusIsTrue'
  BY StatusStaysAgreed, StatusStaysTrue
<1>4. UnseenIsNotCurrent'
  BY <1>2, UnseenStaysNotCurrent
<1> QED BY <1>1, <1>2, <1>3, <1>4 DEF TruthInv

-----------------------------------------------------------------------------
(***************************************************************************)
(* One worker: what can be believed.                                       *)
(***************************************************************************)

\* Outbox, status rows and points agree while one worker projects.
THEOREM TruthInvariance == ASSUME OneWorker, ~ ContentReturns PROVE Spec => []TruthInv
<1>1. Init => TruthInv BY TruthInit
<1>2. TruthInv /\ [Next]_vars => TruthInv' BY TruthStep
<1> QED BY <1>1, <1>2, PTL DEF Spec

\* A "current" chunk is in the collection and a "deleted" one is not, but for what is
\* outstanding or was dropped by a rebuild.
THEOREM StatusCanBeBelieved == ASSUME OneWorker, ~ ContentReturns PROVE Spec => []StatusIsTrue
<1>1. TruthInv => StatusIsTrue BY DEF TruthInv
<1> QED BY <1>1, TruthInvariance, PTL

\* A run that gets as far as switching the alias has taken out whatever was not current
\* when it looked.
THEOREM CompleteRunsLeaveNoOrphan ==
  ASSUME OneWorker, ~ ContentReturns PROVE Spec => []CompleteRunLeavesNoOrphan
<1>1. TruthInv => CompleteRunLeavesNoOrphan
  BY DEF TruthInv, UnseenIsNotCurrent, CompleteRunLeavesNoOrphan
<1> QED BY <1>1, TruthInvariance, PTL

\* A point that is not current any more is never forgotten.
THEOREM OrphansAreRemembered ==
  ASSUME OneWorker, ~ ContentReturns PROVE Spec => []OrphanIsRemembered
<1>1. ASSUME TruthInv PROVE OrphanIsRemembered
  <2> SUFFICES ASSUME NEW c \in points \ live, ~ \E k \in Outstanding : k.chunk = c
               PROVE  /\ status[c].state \notin {"none", "deleted"}
                      /\ DeleteKey(c, status[c].generation + 1) \in Inserted(Key)
    BY DEF OrphanIsRemembered
  <2>0. TypeOK /\ StatusAgrees /\ StatusIsTrue
    BY <1>1 DEF TruthInv, IndexInv
  <2>1. c \in Chunk /\ status[c] \in StatusRow
    BY <2>0 DEF TypeOK
  <2>2. status[c].state \notin {"none", "pending", "failed", "deleted"}
    BY <2>0, <2>1 DEF StatusAgrees, StatusIsTrue
  <2>3. status[c].state = "current"
    BY <2>1, <2>2 DEF StatusRow
  <2>4. ~ HasDelete(c) /\ status[c].generation = 1
    BY <2>0, <2>1, <2>3 DEF StatusAgrees
  <2>6. /\ DeleteKey(c, 2) \in Key /\ DeleteKey(c, 2).chunk = c
        /\ DeleteKey(c, 2).operation = "delete"
    BY <2>1, Keys
  <2>7. outbox[DeleteKey(c, 2)].status = "none"
    BY <2>4, <2>6 DEF HasDelete
  <2> QED BY <2>3, <2>4, <2>6, <2>7 DEF Inserted
<1> QED BY <1>1, TruthInvariance, PTL
=============================================================================
