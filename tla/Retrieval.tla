------------------------------- MODULE Retrieval -------------------------------
(***************************************************************************)
(* One query: Phase5RetrievalService.retrieve over RetrievalStore,         *)
(* GraphRetrievalStore and GraphRetrievalService.  Qdrant and Neo4j are    *)
(* asked first and may name anything they were ever given; PostgreSQL has  *)
(* the last word on what is current.  Each call reads in a session of its  *)
(* own, some in two queries, and scans change documents in between.        *)
(*                                                                         *)
(* Left open by choices: which chunks match a query, their scores, and the *)
(* order of the fused ranking.  A claim, or an assertion, is named by the  *)
(* chunk its evidence is in.  Payloads, entities' names and the filter by  *)
(* vault are left out.                                                     *)
(***************************************************************************)
EXTENDS Integers, FiniteSets

CONSTANTS
  Doc, Version, Section,
  Chunk,       \* chunks that may exist: document, version, section, place, role
  NoVersion,   \* current_version_id of a document that was deleted
  Within,      \* Within[s]: the section s and those around it
  Navigation,  \* documents that are indexes of others, by their path
  Limit, ClaimLimit, MaxPaths, MaxContext,  \* limits of the service
  MaxFound,    \* bound: chunks that all searches of a query name
  MaxHops,     \* bound: assertions of a path
  MaxChanges   \* bound: changes of documents

ASSUME RetrievalAssumption ==
  /\ Chunk \subseteq [doc : Doc, version : Version, section : Section, ordinal : Nat,
                      role : {"structural_anchor", "content_evidence"}]
  /\ NoVersion \notin Version
  /\ Within \in [Section -> SUBSET Section] /\ Navigation \subseteq Doc
  /\ {Limit, ClaimLimit, MaxPaths, MaxContext} \subseteq Nat \ {0}
  /\ {MaxFound, MaxHops, MaxChanges} \subseteq Nat
  /\ IsFiniteSet(Chunk)

VARIABLES
  current,   \* current_version_id of each document
  served,    \* is the document active, and its version ready?
  pc, strategy,
  keyword,   \* chunks of the keyword search
  hits,      \* points of Qdrant
  semantic,  \* those that are current chunks
  strong,    \* those of them with a score near the best
  seeds,     \* source chunks of the entities the query names
  rawPaths,  \* paths of Neo4j, sets of assertions
  paths,     \* those that PostgreSQL confirms
  sources,   \* source chunks of seeds and paths
  claims,
  found,     \* all_chunks before the consensus gate
  ranked,    \* chunks of the answer
  anchors, chapter, \* chunks whose document, or section, is to be shown
  target,    \* those of them that are current
  context,   \* context_chunks of the answer
  warned, truncated,
  seen,      \* chunks that were current at a moment of the query
  steady,    \* chunks that were current at every moment of it so far
  changes

database == <<current, served, changes>>
channels == <<keyword, hits, semantic, strong, seeds, rawPaths, paths, sources, claims>>
result == <<found, ranked, anchors, chapter, target, context>>
vars == <<database, pc, strategy, channels, result, warned, truncated, seen, steady>>

Content == {c \in Chunk : c.role = "content_evidence"}
Heading == Chunk \ Content

\* The gate of every query: chunks of a document's current version, the document
\* being active and the version ready.
Served(cur, srv) == {c \in Chunk : cur[c.doc] = c.version /\ srv[c.doc]}
Current == Served(current, served)

\* Mutant: headings count as evidence.
CurrentOfAnyRole == Current

CurrentContent == Current \cap Content

\* Subsets of S that are not too large.
Some(S, n) == {T \in SUBSET S : Cardinality(T) <= n}

Strategy == {"keyword", "semantic", "hybrid"}

Step == {"idle", "searching", "embedding", "hydrating", "seeding", "grounding",
         "expanding", "confirming", "claiming", "gating", "anchor_seeds", "anchor_rows",
         "document_seeds", "document_rows", "section_rows", "answered", "raised"}

\* Documents and what the query holds are well-typed, and only evidence is shown.
TypeOK ==
  /\ current \in [Doc -> Version \cup {NoVersion}] /\ served \in [Doc -> BOOLEAN]
  /\ changes \in 0 .. MaxChanges
  /\ pc \in Step /\ strategy \in Strategy
  /\ \A S \in {keyword, hits, semantic, strong, seeds, sources, claims, found, ranked,
               anchors, chapter, target, context, seen, steady} : S \subseteq Chunk
  /\ ranked \cup context \subseteq Content
  /\ rawPaths \subseteq SUBSET Chunk /\ paths \subseteq SUBSET Chunk
  /\ {warned, truncated} \subseteq BOOLEAN

Init ==
  /\ current \in [Doc -> Version] /\ served = [d \in Doc |-> TRUE]
  /\ changes = 0 /\ pc = "idle" /\ strategy = "keyword"
  /\ keyword = {} /\ hits = {} /\ semantic = {} /\ strong = {} /\ seeds = {}
  /\ rawPaths = {} /\ paths = {} /\ sources = {} /\ claims = {}
  /\ found = {} /\ ranked = {} /\ anchors = {} /\ chapter = {}
  /\ target = {} /\ context = {}
  /\ warned = FALSE /\ truncated = FALSE /\ seen = {} /\ steady = {}

Goto(label) == pc' = label

-----------------------------------------------------------------------------
(***************************************************************************)
(* Scans.                                                                  *)
(***************************************************************************)

\* A scan stores a version of a document (one that it had before has the chunks it
\* had), deletes the document, or fails on it.  Chunks, evidence, assertions and
\* claims of the old version go in the same transaction.
Change ==
  /\ changes < MaxChanges /\ changes' = changes + 1
  /\ pc \notin {"idle", "answered", "raised"}
  /\ \E d \in Doc :
       \/ \E v \in (Version \cup {NoVersion}) \ {current[d]} :
            /\ current' = [current EXCEPT ![d] = v]
            /\ served' = [served EXCEPT ![d] = v # NoVersion]
       \/ /\ served[d]
          /\ served' = [served EXCEPT ![d] = FALSE]
          /\ UNCHANGED current
  /\ seen' = seen \cup Served(current', served')
  /\ steady' = steady \cap Served(current', served')
  /\ UNCHANGED <<pc, strategy, channels, result, warned, truncated>>

-----------------------------------------------------------------------------
(***************************************************************************)
(* The channels.                                                           *)
(***************************************************************************)

\* The planner: the cues it finds in a hybrid query only name its type.
Plan(s) == IF s = "hybrid" THEN {"keyword", "semantic", "entity", "graph", "claim"} ELSE {s}

Room == MaxFound - Cardinality(keyword) - Cardinality(hits) - Cardinality(seeds)
          - Cardinality(UNION rawPaths)

\* What a search in S may find.
Search(S) == Some(S, Room)

Begin(s) ==
  /\ pc = "idle" /\ Goto(IF "keyword" \in Plan(s) THEN "searching" ELSE "embedding")
  /\ strategy' = s
  /\ seen' = Current /\ steady' = Current
  /\ UNCHANGED <<database, channels, result, warned, truncated>>

KeywordSearch ==
  /\ pc = "searching" /\ Goto(IF "semantic" \in Plan(strategy) THEN "embedding" ELSE "gating")
  /\ keyword' \in Search(Current)
  /\ UNCHANGED <<database, strategy, hits, semantic, strong, seeds, rawPaths, paths, sources,
                 claims, result, warned, truncated, seen, steady>>

AfterSemantic == IF "graph" \in Plan(strategy) THEN "seeding" ELSE "gating"

\* There is no profile or provider, the provider fails, or Qdrant answers with an error.
SemanticFails ==
  /\ pc = "embedding" /\ Goto(AfterSemantic)
  /\ warned' = TRUE
  /\ UNCHANGED <<database, strategy, channels, result, truncated, seen, steady>>

\* Qdrant names chunks that it was given at some time.
VectorSearch ==
  /\ pc = "embedding" /\ Goto("hydrating")
  /\ hits' \in Search(Chunk)
  /\ UNCHANGED <<database, strategy, keyword, semantic, strong, seeds, rawPaths, paths, sources,
                 claims, result, warned, truncated, seen, steady>>

\* Mutant: hits are taken as they are.
HydrateNothing(S) == S

\* hydrate_current.
Hydrate(S) == S \cap Current

HydrateHits ==
  /\ pc = "hydrating" /\ Goto(AfterSemantic)
  /\ semantic' = Hydrate(hits)
  /\ strong' \in {T \in SUBSET semantic' : T = {} <=> semantic' = {}}
  /\ warned' = (warned \/ semantic' # hits)
  /\ UNCHANGED <<database, strategy, keyword, hits, seeds, rawPaths, paths, sources, claims,
                 result, truncated, seen, steady>>

\* entity_seeds, those the query names: entities that current chunks mention.
EntitySeeds ==
  /\ pc = "seeding"
  /\ seeds' \in Search(Current)
  /\ Goto(IF seeds' = {} THEN "claiming" ELSE "grounding")
  /\ UNCHANGED <<database, strategy, keyword, hits, semantic, strong, rawPaths, paths, sources,
                 claims, result, warned, truncated, seen, steady>>

\* A seed's source that is not current any more is dropped without a warning.
GroundSeeds ==
  /\ pc = "grounding" /\ Goto("expanding")
  /\ sources' = Hydrate(seeds)
  /\ UNCHANGED <<database, strategy, keyword, hits, semantic, strong, seeds, rawPaths, paths,
                 claims, result, warned, truncated, seen, steady>>

ExpandFails ==
  /\ pc = "expanding" /\ Goto("claiming")
  /\ warned' = TRUE
  /\ UNCHANGED <<database, strategy, channels, result, truncated, seen, steady>>

\* Sets of at most MaxPaths paths; a path is the chunks of its assertions.
Paths ==
  {{}} \cup {{path[i] : i \in 1 .. MaxPaths} :
            path \in [1 .. MaxPaths -> Some(Chunk, MaxHops) \ {{}}]}

\* Neo4j names paths of assertions that it was given at some time; one more than
\* MaxPaths are asked for.
Expand ==
  /\ pc = "expanding" /\ Goto("confirming")
  /\ rawPaths' \in {P \in Paths : Cardinality(UNION P) <= Room}
  /\ truncated' \in {FALSE, Cardinality(rawPaths') = MaxPaths}
  /\ UNCHANGED <<database, strategy, keyword, hits, semantic, strong, seeds, paths, sources,
                 claims, result, warned, seen, steady>>

\* hydrate_assertions: of the assertions named, those that are active, between active
\* entities, and whose evidence is in a current chunk.
ConfirmPaths ==
  /\ pc = "confirming" /\ Goto("claiming")
  /\ \E hydrated \in SUBSET Hydrate(UNION rawPaths) :
       paths' = {p \in rawPaths : p \subseteq hydrated}
  /\ sources' = sources \cup UNION paths'
  /\ warned' = (warned \/ paths' # rawPaths)
  /\ UNCHANGED <<database, strategy, keyword, hits, semantic, strong, seeds, rawPaths, claims,
                 result, truncated, seen, steady>>

\* claim_candidates, one more than ClaimLimit.
ClaimCandidates ==
  /\ pc = "claiming" /\ Goto("gating")
  /\ claims' \in {C \in Some(Current, ClaimLimit) : Cardinality(C) <= Room}
  /\ truncated' \in {truncated, truncated \/ Cardinality(claims') = ClaimLimit}
  /\ UNCHANGED <<database, strategy, keyword, hits, semantic, strong, seeds, rawPaths, paths,
                 sources, result, warned, seen, steady>>

-----------------------------------------------------------------------------
(***************************************************************************)
(* The consensus gate, the ranking and the context.                        *)
(***************************************************************************)

\* Found by the words of the query, and near to its meaning.
Consensus == keyword \cap strong

\* With consensus only that passes, and what is known of the entities that the query names.
Allowed ==
  IF Consensus = {} THEN Chunk
  ELSE Consensus \cup (IF seeds = {} THEN {} ELSE sources \cup claims)

\* Mutant: the gate is not counted as a cut.
IsCutByLimit(all, passed) == Cardinality(passed \cap Content) > Limit

IsCut(all, passed) == passed # all \/ Cardinality(passed \cap Content) > Limit

\* The chunks of S that are not of an index, if all of them are of one document.
OfOneDocument(S) ==
  LET T == {c \in S : c.doc \notin Navigation} IN
  IF Cardinality({c.doc : c \in T}) = 1 THEN T ELSE {}

\* What is not read again, by the code or by a property, is forgotten.
Gate ==
  LET all == keyword \cup semantic \cup sources \cup claims
      passed == all \cap Allowed IN
  /\ pc = "gating" /\ Goto("anchor_seeds")
  /\ found' = all
  /\ ranked' \in Some(passed \cap Content, Limit)
  /\ Cardinality(ranked') < Limit => ranked' = passed \cap Content
  /\ truncated' = (truncated \/ IsCut(all, passed))
  /\ anchors' = OfOneDocument(passed \cap Heading)
  /\ chapter' = OfOneDocument(ranked' \cap Consensus)
  /\ keyword' = {} /\ semantic' = {} /\ strong' = {} /\ sources' = {}
  /\ UNCHANGED <<database, strategy, hits, seeds, rawPaths, paths, claims, target, context,
                 warned, seen, steady>>

SameVersion(c, e) == c.doc = e.doc /\ c.version = e.version

\* document_context looks its seeds up ...
LookUp(S, here, next) ==
  /\ pc = here /\ Goto(next)
  /\ target' = Hydrate(S)
  /\ UNCHANGED <<database, strategy, channels, found, ranked, anchors, chapter, context, warned,
                 truncated, seen, steady>>

\* ... and reads rows, as many as two limits allow.
AddContext(rows, here, next) ==
  /\ pc = here /\ Goto(next)
  /\ \E kept \in Some(rows, MaxContext) :
       /\ context' = context \cup kept
       /\ truncated' = (truncated \/ kept # rows)
  /\ target' = {}
  /\ UNCHANGED <<database, strategy, channels, found, ranked, anchors, chapter, warned, seen,
                 steady>>

\* Mutant: the rows of whatever version is current by now.
DocumentRowsNow(t, c) == c.doc = t.doc

\* Is c in the document version of t?
DocumentRows(t, c) == SameVersion(t, c)

\* ... in the section of t, or one below it?
ChapterRows(t, c) == SameVersion(t, c) /\ t.section \in Within[c.section]

AnchorSeeds == LookUp(anchors, "anchor_seeds", "anchor_rows")

AnchorRows ==
  AddContext({c \in CurrentContent \ anchors : \E t \in target : DocumentRows(t, c)},
             "anchor_rows", "document_seeds")

DocumentSeeds == LookUp(chapter, "document_seeds", "document_rows")

ChapterContext ==
  AddContext({c \in CurrentContent \ chapter : \E t \in target : ChapterRows(t, c)},
             "document_rows", "section_rows")

\* section_context: the neighbours in the section.  It reads the seeds' places first;
\* a section is of one version, so that no change in between makes a difference.
SectionContext ==
  /\ pc = "section_rows" /\ Goto("answered")
  /\ context' = (context \cup {c \in CurrentContent :
       \E r \in ranked : /\ SameVersion(r, c) /\ r.section = c.section
                         /\ c.ordinal \in r.ordinal - 1 .. r.ordinal + 1}) \ ranked
  /\ UNCHANGED <<database, strategy, channels, found, ranked, anchors, chapter, target, warned,
                 truncated, seen, steady>>

\* A database error, or a service that cannot be reached: neither client turns a failed
\* connection into the error that retrieve expects.
Raise ==
  /\ pc \notin {"idle", "answered", "raised"} /\ Goto("raised")
  /\ keyword' = {} /\ hits' = {} /\ semantic' = {} /\ strong' = {} /\ seeds' = {}
  /\ rawPaths' = {} /\ paths' = {} /\ sources' = {} /\ claims' = {} /\ found' = {}
  /\ ranked' = {} /\ anchors' = {} /\ chapter' = {} /\ target' = {} /\ context' = {}
  /\ seen' = {} /\ steady' = {} /\ warned' = FALSE /\ truncated' = FALSE
  /\ UNCHANGED <<database, strategy>>

Query ==
  \/ \E s \in Strategy : Begin(s)
  \/ KeywordSearch \/ SemanticFails \/ VectorSearch \/ HydrateHits
  \/ EntitySeeds \/ GroundSeeds \/ ExpandFails \/ Expand \/ ConfirmPaths \/ ClaimCandidates
  \/ Gate \/ AnchorSeeds \/ AnchorRows \/ DocumentSeeds \/ ChapterContext \/ SectionContext
  \/ Raise

Next == Change \/ Query

Spec == Init /\ [][Next]_vars

-----------------------------------------------------------------------------
(***************************************************************************)
(* The answer, and what holds of it.                                       *)
(***************************************************************************)

\* Sources: the chunks that are returned.
Shown == ranked \cup context

VisibleClaims == claims \cap Shown

\* A path is shown with its sources, or not at all.
VisiblePaths == {p \in paths : p \subseteq Shown}

\* Every chunk of the answer was current at some moment of the query, however far Qdrant
\* and Neo4j lag behind and whatever scans do meanwhile.
AnswerWasCurrent == pc = "answered" => Shown \subseteq seen

\* Context is of the very version that something found is of, though it is looked up and
\* read in two queries and the document may change in between.
ContextBelongsToFound ==
  pc = "answered" => \A c \in context : \E f \in found : SameVersion(c, f)

\* An answer without a warning that is not marked as truncated leaves out nothing of
\*   - what keyword search, the seeds' sources, the paths and the claims confirmed,
\*   - the hits of Qdrant, the paths of Neo4j and the claims, as they were named,
\*   - the sources of the entities that the query names, as they were named, that were
\*     current all along: one that goes stale is dropped without a word, and no more than
\*     this can be said of them,
\* except what only headings support: those are never shown.
SilenceMeansComplete ==
  pc = "answered" /\ ~warned /\ ~truncated =>
    /\ (found \cup hits \cup (seeds \cap steady)) \cap Content \subseteq ranked
    /\ {p \in rawPaths : p \subseteq Content} \subseteq VisiblePaths
    /\ claims \cap Content \subseteq VisibleClaims
=============================================================================
