--------------------------- MODULE GraphProjection ---------------------------
(***************************************************************************)
(* The Neo4j graph of one vault: GraphProjectionService.rebuild_vault over *)
(* GraphStore and the transactional snapshot replacement of                *)
(* Neo4jGraphAdapter.  A rebuild reads the canonical rows in several       *)
(* queries, registers the snapshot by its hash, replaces the vault's graph *)
(* and reports.  Scans and resolution change the canonical rows meanwhile, *)
(* and another worker may rebuild the same vault.                          *)
(*                                                                         *)
(* The canonical rows are split into parts, one for each query of          *)
(* build_snapshot that the properties tell apart; a snapshot and its hash  *)
(* are the function of the parts read.                                     *)
(***************************************************************************)
EXTENDS Naturals, FiniteSets

CONSTANTS
  Content,       \* contents of a part
  Rebuilder,     \* workers that rebuild the graph
  NumParts,      \* queries of build_snapshot
  PartsReturn,   \* may rows be again as they once were?
  MaxAttempts,   \* projection_outbox.max_attempts
  MaxChanges,    \* bound: changes of the canonical rows
  MaxRebuilds,   \* bound: rebuilds started
  MaxFailures    \* bound: Neo4j errors and crashes

ASSUME GraphAssumption ==
  /\ NumParts \in Nat \ {0} /\ MaxAttempts \in Nat \ {0}
  /\ PartsReturn \in BOOLEAN
  /\ {MaxChanges, MaxRebuilds, MaxFailures} \subseteq Nat

VARIABLES
  current,   \* the canonical rows
  been,      \* contents that each part has had
  runs,      \* neo4j_projection_runs and their outbox rows, by snapshot
  graph,     \* the vault's graph in Neo4j: the snapshots written last, if any
  pc,
  read,      \* read[w]: parts that rebuild w has read
  work,      \* work[w]: generation and must-be-inserted, of the prepared work
  overtaken, \* overtaken[w]: what others have changed since w began, the rows or
             \* the graph
  crossed,   \* has a rebuild written over a graph that another wrote since it began?
  changes, rebuilds, failures

canonical == <<current, been, changes>>
rebuild == <<pc, read, work>>
vars == <<canonical, runs, graph, rebuild, overtaken, crossed, rebuilds, failures>>

Part == 1 .. NumParts
Snapshot == [Part -> Content]
Prefix == UNION {[1 .. n -> Content] : n \in 0 .. NumParts}
NothingRead == <<>>

Run == [status : {"none", "pending", "running", "succeeded", "failed"},
        outbox : {"none", "pending", "processing", "succeeded", "failed"},
        attempts : 0 .. MaxRebuilds,
        generation : 0 .. MaxRebuilds]
NoRun == [status |-> "none", outbox |-> "none", attempts |-> 0, generation |-> 0]

Registered == {s \in Snapshot : runs[s].status # "none"}

\* Runs, outbox rows and rebuilds are well-typed, and a worker past the insertion
\* of its run finds it.
TypeOK ==
  /\ current \in Snapshot /\ been \in [Part -> SUBSET Content]
  /\ runs \in [Snapshot -> Run]
  /\ graph \subseteq Snapshot /\ Cardinality(graph) <= 1
  /\ pc \in [Rebuilder -> {"idle", "reading", "preparing", "inserting", "starting",
                           "replacing", "succeeding", "failing", "returned"}]
  /\ read \in [Rebuilder -> Prefix]
  /\ work \in [Rebuilder -> 0 .. MaxRebuilds]
  /\ overtaken \in [Rebuilder -> SUBSET {"rows", "graph"}]
  /\ crossed \in BOOLEAN
  /\ changes \in 0 .. MaxChanges /\ rebuilds \in 0 .. MaxRebuilds
  /\ failures \in 0 .. MaxFailures
  /\ \A w \in Rebuilder :
       pc[w] \in {"starting", "replacing", "succeeding", "failing", "returned"} =>
         read[w] \in Registered

Init ==
  /\ current \in Snapshot /\ been = [part \in Part |-> {current[part]}]
  /\ runs = [s \in Snapshot |-> NoRun]
  /\ graph = {}
  /\ pc = [w \in Rebuilder |-> "idle"]
  /\ read = [w \in Rebuilder |-> NothingRead]
  /\ work = [w \in Rebuilder |-> 0]
  /\ overtaken = [w \in Rebuilder |-> {}]
  /\ crossed = FALSE
  /\ changes = 0 /\ rebuilds = 0 /\ failures = 0

Goto(w, label) == pc' = [pc EXCEPT ![w] = label]

-----------------------------------------------------------------------------
(***************************************************************************)
(* The canonical rows.                                                     *)
(***************************************************************************)

\* What the rebuilds of R that are under way began with has changed.
Overtake(R, what) ==
  overtaken' = [w \in Rebuilder |->
    IF w \in R /\ pc[w] # "idle" THEN overtaken[w] \cup {what} ELSE overtaken[w]]

\* A scan or a resolution changes rows that one of the queries reads.
Change ==
  /\ changes < MaxChanges /\ changes' = changes + 1
  /\ \E part \in Part : \E c \in Content \ {current[part]} :
       /\ c \in been[part] => PartsReturn
       /\ current' = [current EXCEPT ![part] = c]
       /\ been' = [been EXCEPT ![part] = @ \cup {c}]
  /\ Overtake(Rebuilder, "rows")
  /\ UNCHANGED <<runs, graph, rebuild, crossed, rebuilds, failures>>

-----------------------------------------------------------------------------
(***************************************************************************)
(* rebuild_vault.                                                          *)
(***************************************************************************)

Begin(w) ==
  /\ pc[w] = "idle" /\ Goto(w, "reading")
  /\ rebuilds < MaxRebuilds /\ rebuilds' = rebuilds + 1
  /\ UNCHANGED <<canonical, runs, graph, read, work, overtaken, crossed, failures>>

\* One query of build_snapshot.  The session does not ask for one view of the
\* database for all its queries.
ReadPart(w) ==
  LET part == Cardinality(DOMAIN read[w]) + 1 IN
  /\ pc[w] = "reading"
  /\ read' = [read EXCEPT ![w] =
       [i \in 1 .. part |-> IF i = part THEN current[part] ELSE read[w][i]]]
  /\ IF part = NumParts THEN Goto(w, "preparing") ELSE UNCHANGED pc
  /\ UNCHANGED <<canonical, runs, graph, work, overtaken, crossed, rebuilds, failures>>

End(w) ==
  /\ Goto(w, "idle")
  /\ read' = [read EXCEPT ![w] = NothingRead]
  /\ work' = [work EXCEPT ![w] = 0]
  /\ overtaken' = [overtaken EXCEPT ![w] = {}]

\* Mutant: what once failed, or was cut off, is left.
ShouldProjectPending(s) == runs[s].status = "pending"

\* Is a registered snapshot to be projected (again)?
ShouldProject(s) == runs[s].status # "succeeded"

LastGeneration ==
  CHOOSE g \in {0} \cup {runs[s].generation : s \in Registered} :
    \A s \in Registered : runs[s].generation <= g

\* prepare_projection looks the snapshot up, and the last generation.
Prepare(w) ==
  /\ pc[w] = "preparing"
  /\ IF read[w] \in Registered
     THEN /\ Goto(w, IF ShouldProject(read[w]) THEN "starting" ELSE "returned")
          /\ UNCHANGED work
     ELSE /\ Goto(w, "inserting")
          /\ work' = [work EXCEPT ![w] = LastGeneration + 1]
  /\ UNCHANGED <<canonical, runs, graph, read, overtaken, crossed, rebuilds, failures>>

\* Mutant: the run is not added.
InsertOutboxOnly(w) ==
  /\ pc[w] = "inserting" /\ Goto(w, "starting")
  /\ runs' = [runs EXCEPT ![read[w]].outbox = "pending"]
  /\ UNCHANGED <<canonical, graph, read, work, overtaken, crossed, rebuilds, failures>>

\* ... and inserts outbox row and run; if the outbox has the key by now, there is
\* no row to go on with and the rebuild raises.
Insert(w) ==
  /\ pc[w] = "inserting"
  /\ IF read[w] \in Registered
     THEN End(w) /\ UNCHANGED runs
     ELSE /\ runs' = [runs EXCEPT ![read[w]] =
               [NoRun EXCEPT !.status = "pending", !.outbox = "pending",
                             !.generation = work[w]]]
          /\ Goto(w, "starting")
          /\ UNCHANGED <<read, work, overtaken>>
  /\ UNCHANGED <<canonical, graph, crossed, rebuilds, failures>>

\* Mutant: the attempt is not counted.
MarkRunningUncounted(w) ==
  /\ pc[w] = "starting" /\ Goto(w, "replacing")
  /\ runs' = [runs EXCEPT ![read[w]].status = "running", ![read[w]].outbox = "processing"]
  /\ UNCHANGED <<canonical, graph, read, work, overtaken, crossed, rebuilds, failures>>

\* mark_projection_running.
MarkRunning(w) ==
  /\ pc[w] = "starting" /\ Goto(w, "replacing")
  /\ runs' = [runs EXCEPT ![read[w]].status = "running",
                          ![read[w]].outbox = "processing",
                          ![read[w]].attempts = @ + 1]
  /\ UNCHANGED <<canonical, graph, read, work, overtaken, crossed, rebuilds, failures>>

\* replace_vault_snapshot, one transaction.
Replace(w) ==
  /\ pc[w] = "replacing"
  /\ graph' = {read[w]}
  /\ Goto(w, "succeeding")
  /\ Overtake(Rebuilder \ {w}, "graph")
  /\ crossed' = (crossed \/ "graph" \in overtaken[w])
  /\ UNCHANGED <<canonical, runs, read, work, rebuilds, failures>>

\* Neo4j refuses, or its answer is lost after the commit.
ReplaceFails(w) ==
  /\ pc[w] = "replacing"
  /\ failures < MaxFailures /\ failures' = failures + 1
  /\ graph' \in {graph, {read[w]}}
  /\ Goto(w, "failing")
  /\ Overtake(Rebuilder \ {w}, "graph")
  /\ crossed' = (crossed \/ "graph" \in overtaken[w])
  /\ UNCHANGED <<canonical, runs, read, work, rebuilds>>

\* mark_projection_succeeded.
MarkSucceeded(w) ==
  /\ pc[w] = "succeeding" /\ Goto(w, "returned")
  /\ runs' = [runs EXCEPT ![read[w]].status = "succeeded",
                          ![read[w]].outbox = "succeeded"]
  /\ UNCHANGED <<canonical, graph, read, work, overtaken, crossed, rebuilds, failures>>

\* mark_projection_failed.
MarkFailed(w) ==
  /\ pc[w] = "failing" /\ End(w)
  /\ runs' = [runs EXCEPT ![read[w]].status = "failed",
                          ![read[w]].outbox =
                             IF runs[read[w]].attempts < MaxAttempts THEN "pending" ELSE "failed"]
  /\ UNCHANGED <<canonical, graph, crossed, rebuilds, failures>>

Return(w) ==
  /\ pc[w] = "returned" /\ End(w)
  /\ UNCHANGED <<canonical, runs, graph, crossed, rebuilds, failures>>

\* The worker dies, a query raises, or the snapshot has too many objects.
Crash(w) ==
  /\ pc[w] \notin {"idle", "returned"} /\ End(w)
  /\ failures < MaxFailures /\ failures' = failures + 1
  /\ UNCHANGED <<canonical, runs, graph, crossed, rebuilds>>

RebuildStep(w) ==
  \/ Begin(w) \/ ReadPart(w) \/ Prepare(w) \/ Insert(w) \/ MarkRunning(w) \/ Replace(w)
  \/ ReplaceFails(w) \/ MarkSucceeded(w) \/ MarkFailed(w) \/ Return(w) \/ Crash(w)

Next == Change \/ \E w \in Rebuilder : RebuildStep(w)

Spec == Init /\ [][Next]_vars

-----------------------------------------------------------------------------
(***************************************************************************)
(* Properties.                                                             *)
(***************************************************************************)

\* A rebuild that returns without having been overtaken leaves the graph of the
\* canonical rows there are, whatever failed, died or ran beside it before, unless
\* rebuilds have crossed: then the older one's graph stays, and the newer one's run
\* has succeeded all the same.  It is of rows that never return to what they were: the
\* run of such a snapshot has succeeded, and is skipped.
CompleteRebuildIsCurrent ==
  \A w \in Rebuilder : pc[w] = "returned" /\ overtaken[w] = {} /\ ~crossed => graph = {current}

\* Nothing is in Neo4j that PostgreSQL has no started run of.
GraphIsAudited == \A s \in graph : runs[s].status # "pending" /\ runs[s].attempts > 0
=============================================================================
