----------------------------- MODULE Extraction -----------------------------
(***************************************************************************)
(* Knowledge extraction: KnowledgeExtractionService.run_pilot over         *)
(* ExtractionStore.  A job asks a language model about chunk after chunk   *)
(* and records what it says; its one run row and the chunk rows of the run *)
(* survive the worker, so a retry of the job goes on where the last one    *)
(* ended.  Scans remove and hide chunks meanwhile.                         *)
(*                                                                         *)
(* An answer stands for a validated response: which entities it names,     *)
(* whether each is sound (known types, exact quote), which strong          *)
(* identifiers each shows, and the relationships between them.  Claims,    *)
(* names, quotes and tokens are left out.  A run is known by its job.      *)
(***************************************************************************)
EXTENDS Naturals, FiniteSets

CONSTANTS
  Job,        \* extraction jobs
  Chunk,
  Extractor,  \* workers that run them
  Local,      \* local_id of an entity in an answer
  Answer,     \* answers of the model that the schema accepts
  MaxStarts,  \* bound: attempts of extraction jobs
  MaxEdits    \* bound: changes of chunks

\* [entities |-> [local ids -> [sound, identifiers]], relationships |-> records
\* of subject, object, sound]; the schema knows both ends of a relationship.
ASSUME ExtractionAssumption ==
  /\ MaxStarts \in Nat /\ MaxEdits \in Nat /\ Job # {}
  /\ \A a \in Answer :
       /\ DOMAIN a.entities \subseteq Local
       /\ \A r \in a.relationships : {r.subject, r.object} \subseteq DOMAIN a.entities

VARIABLES
  chunks,    \* chunks[c]: current, current in a document in error, deleted
  runs,      \* runs[j]: the run row of job j
  rows,      \* rows[j][c]: its extraction_chunks row
  answers,   \* answers[j][c]: the candidates and evidence recorded for c
  pc,        \* pc[x]: where x is in run_pilot
  job,       \* job[x]: the job it runs
  selected,  \* selected[x]: chunks of select_current_chunks
  queue,     \* queue[x]: chunks of pending_chunks that are left
  touched,   \* touched[x]: have chunks changed since?
  starts, edits

tables == <<runs, rows, answers>>
memory == <<pc, job, selected, queue, touched>>
extractionVars == <<chunks, tables, memory, starts, edits>>

NoAnswer == [entities |-> <<>>, relationships |-> {}]

Pending == {"pending", "provider_failed"}

ExtractionTypeOK ==
  /\ chunks \in [Chunk -> {"current", "error", "deleted"}]
  /\ runs \in [Job -> {"none", "running", "succeeded", "partial"}]
  /\ rows \in [Job -> [Chunk -> Pending \cup {"none", "succeeded", "schema_invalid"}]]
  /\ answers \in [Job -> [Chunk -> Answer \cup {NoAnswer}]]
  /\ pc \in [Extractor -> {"idle", "preparing", "loading", "asking", "returned"}]
  /\ job \in [Extractor -> Job]
  /\ selected \in [Extractor -> SUBSET Chunk] /\ queue \in [Extractor -> SUBSET Chunk]
  /\ touched \in [Extractor -> BOOLEAN]
  /\ starts \in 0 .. MaxStarts /\ edits \in 0 .. MaxEdits

ExtractionInit ==
  /\ chunks = [c \in Chunk |-> "current"]
  /\ runs = [j \in Job |-> "none"]
  /\ rows = [j \in Job |-> [c \in Chunk |-> "none"]]
  /\ answers = [j \in Job |-> [c \in Chunk |-> NoAnswer]]
  /\ pc = [x \in Extractor |-> "idle"]
  /\ job \in [Extractor -> {CHOOSE j \in Job : TRUE}]
  /\ selected = [x \in Extractor |-> {}] /\ queue = [x \in Extractor |-> {}]
  /\ touched = [x \in Extractor |-> FALSE]
  /\ starts = 0 /\ edits = 0

Goto(x, label) == pc' = [pc EXCEPT ![x] = label]

\* The job's row in the table, if its chunk still has one.
SetRow(j, c, status) ==
  rows' = [rows EXCEPT ![j][c] = IF @ = "none" THEN @ ELSE status]

\* The worker returns, raises or dies.
End(x) ==
  /\ Goto(x, "idle")
  /\ selected' = [selected EXCEPT ![x] = {}] /\ queue' = [queue EXCEPT ![x] = {}]
  /\ touched' = [touched EXCEPT ![x] = FALSE]
  /\ UNCHANGED job

-----------------------------------------------------------------------------
(***************************************************************************)
(* Scans.                                                                  *)
(***************************************************************************)

\* The document of a chunk ends in error or is well again, or its version is
\* superseded or deleted.  A chunk that comes later is like one not selected.
Turns == {<<"current", "error">>, <<"error", "current">>, <<"current", "deleted">>,
          <<"error", "deleted">>}

\* The rows of a deleted chunk go with it, in every run.
EditChunk(c, state) ==
  /\ edits < MaxEdits /\ edits' = edits + 1
  /\ <<chunks[c], state>> \in Turns
  /\ chunks' = [chunks EXCEPT ![c] = state]
  /\ IF state = "deleted"
     THEN /\ rows' = [j \in Job |-> [rows[j] EXCEPT ![c] = "none"]]
          /\ answers' = [j \in Job |-> [answers[j] EXCEPT ![c] = NoAnswer]]
     ELSE UNCHANGED <<rows, answers>>
  /\ touched' = [x \in Extractor |-> pc[x] # "idle"]
  /\ UNCHANGED <<runs, pc, job, selected, queue, starts>>

-----------------------------------------------------------------------------
(***************************************************************************)
(* run_pilot.                                                              *)
(***************************************************************************)

\* select_current_chunks: chunks of the documents asked for, up to a limit.
Select(x) ==
  /\ pc[x] = "idle" /\ Goto(x, "preparing")
  /\ starts < MaxStarts /\ starts' = starts + 1
  /\ \E j \in Job : job' = [job EXCEPT ![x] = j]
  /\ \E S \in SUBSET {c \in Chunk : chunks[c] = "current"} :
       selected' = [selected EXCEPT ![x] = S]
  /\ UNCHANGED <<chunks, tables, queue, touched, edits>>

Prepared(x) ==
  /\ Goto(x, "loading")
  /\ selected' = [selected EXCEPT ![x] = {}]
  /\ UNCHANGED <<job, queue, touched>>

\* prepare_run: a retry finds the run of the job and takes no notice of what it has
\* selected, unless that is nothing.  A chunk that is gone by now cannot be
\* referred to.
Prepare(x) ==
  LET j == job[x] IN
  /\ pc[x] = "preparing"
  /\ \/ /\ \/ selected[x] = {}
           \/ runs[j] = "none" /\ \E c \in selected[x] : chunks[c] = "deleted"
        /\ End(x)
        /\ UNCHANGED tables
     \/ /\ selected[x] # {} /\ runs[j] # "none"
        /\ Prepared(x)
        /\ UNCHANGED tables
     \/ /\ selected[x] # {} /\ runs[j] = "none"
        /\ \A c \in selected[x] : chunks[c] # "deleted"
        /\ runs' = [runs EXCEPT ![j] = "running"]
        /\ rows' = [rows EXCEPT ![j] = [c \in Chunk |->
                      IF c \in selected[x] THEN "pending" ELSE "none"]]
        /\ Prepared(x)
        /\ UNCHANGED answers
  /\ UNCHANGED <<chunks, starts, edits>>

\* Mutants: what the provider failed on is left; what has succeeded is asked again.
ToAskNew(j) == {c \in Chunk : rows[j][c] = "pending" /\ chunks[c] = "current"}

ToAskAll(j) == {c \in Chunk : rows[j][c] # "none" /\ chunks[c] = "current"}

ToAsk(j) == {c \in Chunk : rows[j][c] \in Pending /\ chunks[c] = "current"}

\* pending_chunks.
Load(x) ==
  /\ pc[x] = "loading" /\ Goto(x, "asking")
  /\ queue' = [queue EXCEPT ![x] = ToAsk(job[x])]
  /\ touched' = [touched EXCEPT ![x] = FALSE]
  /\ UNCHANGED <<chunks, tables, job, selected, starts, edits>>

Asked(x, c) ==
  /\ pc[x] = "asking" /\ c \in queue[x]
  /\ queue' = [queue EXCEPT ![x] = @ \ {c}]

\* record_success replaces what was recorded for the chunk.
RecordSuccess(x, c, answer) ==
  /\ Asked(x, c)
  /\ chunks[c] # "deleted"
  /\ answers' = [answers EXCEPT ![job[x]][c] = answer]
  /\ SetRow(job[x], c, "succeeded")
  /\ UNCHANGED <<chunks, runs, pc, job, selected, touched, starts, edits>>

\* The model says what the schema does not accept: record_schema_invalid.
RecordSchemaInvalid(x, c) ==
  /\ Asked(x, c)
  /\ SetRow(job[x], c, "schema_invalid")
  /\ UNCHANGED <<chunks, runs, answers, pc, job, selected, touched, starts, edits>>

\* The provider fails: record_provider_failure, and the job raises.
RecordProviderFailure(x, c) ==
  /\ pc[x] = "asking" /\ c \in queue[x]
  /\ SetRow(job[x], c, "provider_failed")
  /\ End(x)
  /\ UNCHANGED <<chunks, runs, answers, starts, edits>>

Sound(a) == {l \in DOMAIN a.entities : a.entities[l].sound}

\* _validate_candidates: a relationship is valid if both of its ends are.
ValidRelationships(a) ==
  {r \in a.relationships : r.sound /\ {r.subject, r.object} \subseteq Sound(a)}

AllValid(a) == Sound(a) = DOMAIN a.entities /\ ValidRelationships(a) = a.relationships

\* finalize.
Finalize(x) ==
  LET j == job[x] IN
  /\ pc[x] = "asking" /\ queue[x] = {}
  /\ runs' = [runs EXCEPT ![j] =
       IF \E c \in Chunk : rows[j][c] = "schema_invalid" \/ ~ AllValid(answers[j][c])
       THEN "partial" ELSE "succeeded"]
  /\ Goto(x, "returned")
  /\ UNCHANGED <<chunks, rows, answers, job, selected, queue, touched, starts, edits>>

Return(x) ==
  /\ pc[x] = "returned" /\ End(x)
  /\ UNCHANGED <<chunks, tables, starts, edits>>

\* The worker dies, or a step raises: a chunk is gone when its answer is recorded,
\* the provider or the database does not answer.
Abort(x) ==
  /\ pc[x] \notin {"idle", "returned"} /\ End(x)
  /\ UNCHANGED <<chunks, tables, starts, edits>>

-----------------------------------------------------------------------------
\* When the job of a run returns, nothing of the run is left to be asked, whatever
\* failed, died or was in error in earlier attempts; but for chunks that scans have
\* changed since it loaded its list.
FinishedRunMissesNothing ==
  \A x \in Extractor :
    pc[x] = "returned" /\ ~ touched[x] =>
      \A c \in Chunk : chunks[c] = "current" => rows[job[x]][c] \notin Pending

\* A retry goes on, it does not begin again (README.md: resumable pilot job): no
\* answer that was recorded is replaced, it leaves with its chunk only.
ResumeKeepsAnswers ==
  \A j \in Job, c \in Chunk :
    answers[j][c] # NoAnswer => answers'[j][c] = answers[j][c] \/ chunks'[c] = "deleted"

AnswersAreKept == [][ResumeKeepsAnswers]_extractionVars
=============================================================================
