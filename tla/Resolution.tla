----------------------------- MODULE Resolution -----------------------------
(***************************************************************************)
(* From candidates to entities and assertions: EntityResolutionService     *)
(* over ResolutionStore, beside the extraction jobs that record candidates *)
(* and the scans that take them away.  Every candidate is decided in a     *)
(* transaction of its own, which first looks entities up by the strong     *)
(* identifiers of the candidate and then writes; two workers may resolve   *)
(* at once.  What refers to a deleted row is deleted with it (ON DELETE    *)
(* CASCADE).                                                               *)
(*                                                                         *)
(* An entity is known by the candidate it was created from.  An identifier *)
(* stands for kind, normalized value, entity type and scope: the strong    *)
(* identity under UNIQUE.  Mentions, aliases and review candidates come    *)
(* and go with their decision (SourceRetention has the rows); they and     *)
(* claims are left out here.                                               *)
(***************************************************************************)
EXTENDS Extraction

CONSTANTS
  Resolver,    \* workers that run resolution jobs
  Identifier,
  NoEntity,    \* matched_entity_id IS NULL
  MaxResolves  \* bound: runs resolved

ASSUME ResolutionAssumption ==
  /\ MaxResolves \in Nat /\ Job \cup Chunk \cup Local \subseteq Nat
  /\ NoEntity \notin [job : Job, chunk : Chunk, local : Local]
  /\ \A a \in Answer : \A l \in DOMAIN a.entities :
       a.entities[l].identifiers \subseteq Identifier

VARIABLES
  entities,     \* by the candidate they were created from
  identifiers,  \* entity_identifiers
  decisions,    \* resolution_decisions
  assertions,   \* relationship_assertions
  lost,         \* identifiers that were deleted without their entity
  at,           \* at[w]: where w is in resolve_run
  run,          \* run[w]: the run it resolves
  todo,         \* todo[w]: unresolved candidates it has loaded and not decided
  hand,         \* hand[w]: the candidate at hand
  matched,      \* matched[w]: entities its identifiers have led to
  resolved,     \* resolved[w]: decisions materialize_assertions has read
  disturbed,    \* disturbed[w]: have candidates come or gone since it began?
  resolves

knowledge == <<entities, identifiers, decisions, assertions, lost>>
resolver == <<at, run, todo, hand, matched, resolved, disturbed>>
vars == <<extractionVars, knowledge, resolver, resolves>>

Candidate == [job : Job, chunk : Chunk, local : Local]
Identity == [identifier : Identifier, entity : Candidate, source : Candidate]
Decision == [candidate : Candidate, decision : {"create", "merge", "defer"},
             entity : Candidate \cup {NoEntity}]

\* The answer that a candidate is part of, and what it says of it.
AnswerOf(k) == answers[k.job][k.chunk]
Exists(k) == k.local \in DOMAIN AnswerOf(k).entities
IdentifiersOf(k) == AnswerOf(k).entities[k.local].identifiers
Valid(k) == Exists(k) /\ AnswerOf(k).entities[k.local].sound

CandidatesOf(j, c) == {k \in Candidate : k.job = j /\ k.chunk = c /\ Exists(k)}

Decided == {d.candidate : d \in decisions}

TypeOK ==
  /\ ExtractionTypeOK
  /\ entities \subseteq Candidate /\ identifiers \subseteq Identity
  /\ decisions \subseteq Decision /\ lost \subseteq Identifier
  /\ \A d, e \in decisions : d.candidate = e.candidate => d = e
  /\ \A i, h \in identifiers : i.identifier = h.identifier => i = h
  /\ at \in [Resolver -> {"idle", "deciding", "writing", "reading", "inserting", "returned"}]
  /\ run \in [Resolver -> Job] /\ todo \in [Resolver -> SUBSET Candidate]
  /\ matched \in [Resolver -> SUBSET Candidate] /\ resolved \in [Resolver -> SUBSET Decision]
  /\ hand \in [Resolver -> Candidate \cup {NoEntity}]
  /\ \A w \in Resolver : at[w] = "writing" => hand[w] \in todo[w]
  /\ disturbed \in [Resolver -> BOOLEAN] /\ resolves \in 0 .. MaxResolves

Init ==
  /\ ExtractionInit
  /\ entities = {} /\ identifiers = {} /\ decisions = {} /\ assertions = {}
  /\ lost = {}
  /\ at = [w \in Resolver |-> "idle"]
  /\ run = [w \in Resolver |-> CHOOSE j \in Job : TRUE]
  /\ todo = [w \in Resolver |-> {}] /\ hand = [w \in Resolver |-> NoEntity]
  /\ matched = [w \in Resolver |-> {}] /\ resolved = [w \in Resolver |-> {}]
  /\ disturbed = [w \in Resolver |-> FALSE]
  /\ resolves = 0

GoOn(w, label) == at' = [at EXCEPT ![w] = label]

EndResolve(w) ==
  /\ GoOn(w, "idle")
  /\ todo' = [todo EXCEPT ![w] = {}] /\ hand' = [hand EXCEPT ![w] = NoEntity]
  /\ matched' = [matched EXCEPT ![w] = {}] /\ resolved' = [resolved EXCEPT ![w] = {}]
  /\ disturbed' = [disturbed EXCEPT ![w] = FALSE]
  /\ UNCHANGED run

-----------------------------------------------------------------------------
(***************************************************************************)
(* Candidates that come and go.                                            *)
(***************************************************************************)

\* Mutants: identifiers outlive the candidate they are from; assertions outlive
\* the entities they are about.
SurvivingIdentifiersOfEntities(gone) == {i \in identifiers : i.entity \notin gone}

SurvivingAssertionsOfCandidates(gone, pairs) ==
  {a \in assertions : <<a.job, a.chunk>> \notin pairs}

\* What is left when the candidates "gone" are deleted.
SurvivingIdentifiers(gone) ==
  {i \in identifiers : i.entity \notin gone /\ i.source \notin gone}

SurvivingAssertions(gone, pairs) ==
  {a \in assertions : /\ <<a.job, a.chunk>> \notin pairs
                      /\ a.subject \notin gone /\ a.object \notin gone}

\* The candidates of some chunks in some runs are deleted.  A resolver that has one
\* of them in memory can no longer write what refers to it.
Cascade(pairs) ==
  LET gone == UNION {CandidatesOf(p[1], p[2]) : p \in pairs} IN
  /\ entities' = entities \ gone
  /\ identifiers' = SurvivingIdentifiers(gone)
  /\ decisions' = {d \in decisions : d.candidate \notin gone /\ d.entity \notin gone}
  /\ assertions' = SurvivingAssertions(gone, pairs)
  /\ lost' = lost \cup {i.identifier : i \in {h \in identifiers :
                          h.source \in gone /\ h.entity \notin gone}}

\* A step of a scan, or of an extraction job that records candidates.
Unsettle(J) ==
  /\ disturbed' = [w \in Resolver |-> disturbed[w] \/ (at[w] # "idle" /\ run[w] \in J)]
  /\ UNCHANGED <<at, run, todo, hand, matched, resolved, resolves>>

Scan ==
  /\ \E c \in Chunk, state \in {"current", "error", "deleted"} :
       /\ EditChunk(c, state)
       /\ Cascade(IF state = "deleted" THEN Job \X {c} ELSE {})
  /\ Unsettle(Job)

ExtractionStep(x) ==
  \/ /\ \/ Select(x) \/ Prepare(x) \/ Load(x) \/ Finalize(x) \/ Return(x)
        \/ Abort(x)
        \/ \E c \in Chunk : RecordSchemaInvalid(x, c) \/ RecordProviderFailure(x, c)
     /\ UNCHANGED <<knowledge, resolver, resolves>>
  \/ /\ \E c \in Chunk, a \in Answer :
          RecordSuccess(x, c, a) /\ Cascade({<<job[x], c>>})
     /\ Unsettle({job[x]})

-----------------------------------------------------------------------------
(***************************************************************************)
(* resolve_run.                                                            *)
(***************************************************************************)

\* Mutant: what was decided before is loaded, what was not is left.
UnresolvedOfNew(j) == {k \in Candidate : k.job = j /\ Valid(k) /\ identifiers = {}}

Unresolved(j) == {k \in Candidate : k.job = j /\ Valid(k) /\ k \notin Decided}

NextCandidate(w, left) == GoOn(w, IF left = {} THEN "reading" ELSE "deciding")

\* load_unresolved_candidates, of a run there is.
BeginResolve(w) ==
  /\ at[w] = "idle"
  /\ resolves < MaxResolves /\ resolves' = resolves + 1
  /\ \E j \in Job :
       /\ runs[j] # "none"
       /\ run' = [run EXCEPT ![w] = j]
       /\ todo' = [todo EXCEPT ![w] = Unresolved(j)]
       /\ NextCandidate(w, Unresolved(j))
  /\ UNCHANGED <<extractionVars, knowledge, hand, matched, resolved, disturbed>>

\* Candidates are taken by chunk and local id.
IsFirst(k, S) ==
  \A h \in S : k.chunk < h.chunk \/ (k.chunk = h.chunk /\ k.local <= h.local)

\* resolve_candidate up to its first INSERT: the decision there is, or the entities
\* that the identifiers lead to.
LookUp(w) ==
  /\ at[w] = "deciding"
  /\ \E k \in todo[w] :
       /\ IsFirst(k, todo[w])
       /\ \/ /\ k \in Decided
             /\ todo' = [todo EXCEPT ![w] = @ \ {k}]
             /\ NextCandidate(w, todo[w] \ {k})
             /\ UNCHANGED <<hand, matched>>
          \/ /\ k \notin Decided /\ Exists(k)
             /\ hand' = [hand EXCEPT ![w] = k]
             /\ matched' = [matched EXCEPT ![w] =
                  {i.entity : i \in {h \in identifiers : h.identifier \in IdentifiersOf(k)}}]
             /\ GoOn(w, "writing")
             /\ UNCHANGED todo
  /\ UNCHANGED <<extractionVars, knowledge, run, resolved, disturbed, resolves>>

\* Mutant: the constraint is on the candidate's rows only.
UniqueInCandidate(k, e) == \A i \in identifiers : i.source = k => i.entity = e

\* The identifiers of k are not another entity's: uq_entity_identifiers_strong_identity.
Unique(k, e) ==
  \A i \in identifiers : i.identifier \in IdentifiersOf(k) => i.entity = e

\* ... and the rest.  It succeeds if the rows it refers to are still there and the
\* constraints hold: a candidate has one decision, an identifier one entity.
Write(w) ==
  LET k == hand[w]
      e == IF matched[w] = {} THEN k ELSE CHOOSE m \in matched[w] : TRUE IN
  /\ at[w] = "writing"
  /\ Exists(k) /\ k \notin Decided
  /\ IF Cardinality(matched[w]) > 1
     THEN /\ decisions' = decisions \cup
               {[candidate |-> k, decision |-> "defer", entity |-> NoEntity]}
          /\ UNCHANGED <<entities, identifiers>>
     ELSE /\ e = k \/ e \in entities
          /\ Unique(k, e)
          /\ entities' = entities \cup {e}
          /\ identifiers' = identifiers \cup
               {[identifier |-> i, entity |-> e, source |-> k] :
                  i \in {n \in IdentifiersOf(k) :
                         \A h \in identifiers : h.entity # e \/ h.identifier # n}}
          /\ decisions' = decisions \cup
               {[candidate |-> k, entity |-> e,
                 decision |-> IF e = k THEN "create" ELSE "merge"]}
  /\ todo' = [todo EXCEPT ![w] = @ \ {k}]
  /\ hand' = [hand EXCEPT ![w] = NoEntity] /\ matched' = [matched EXCEPT ![w] = {}]
  /\ NextCandidate(w, todo[w] \ {k})
  /\ UNCHANGED <<extractionVars, assertions, lost, run, resolved, disturbed, resolves>>

ResolvedOf(j) == {d \in decisions : d.candidate.job = j /\ d.entity # NoEntity}

\* materialize_assertions reads the decisions of the run ...
ReadDecisions(w) ==
  /\ at[w] = "reading" /\ GoOn(w, "inserting")
  /\ resolved' = [resolved EXCEPT ![w] = ResolvedOf(run[w])]
  /\ UNCHANGED <<extractionVars, knowledge, run, todo, hand, matched, disturbed, resolves>>

Assertion(j, c, r, s, o) ==
  [job |-> j, chunk |-> c, relationship |-> r, subject |-> s, object |-> o]

\* The assertions to be made of the valid relationships of a run and of decisions D;
\* one with an end that is not resolved is passed over.
AssertionsOf(j, D) ==
  UNION {{Assertion(j, c, r, s.entity, o.entity) :
            r \in {q \in ValidRelationships(answers[j][c]) :
                     /\ q.subject = s.candidate.local /\ s.candidate.chunk = c
                     /\ q.object = o.candidate.local /\ o.candidate.chunk = c}} :
         c \in Chunk, s \in D, o \in D}

Asserted(a) ==
  \E b \in assertions : b.job = a.job /\ b.chunk = a.chunk /\ b.relationship = a.relationship

\* ... then the relationships, and inserts what is not there yet.
InsertAssertions(w) ==
  LET new == {a \in AssertionsOf(run[w], resolved[w]) : ~ Asserted(a)} IN
  /\ at[w] = "inserting" /\ GoOn(w, "returned")
  /\ \A a \in new : {a.subject, a.object} \subseteq entities
  /\ assertions' = assertions \cup new
  /\ UNCHANGED <<extractionVars, entities, identifiers, decisions, lost, run, todo, hand,
                 matched, resolved, disturbed, resolves>>

ReturnResolve(w) ==
  /\ at[w] = "returned" /\ EndResolve(w)
  /\ UNCHANGED <<extractionVars, knowledge, resolves>>

\* The worker dies, or a step raises: a row it refers to is gone, a constraint is
\* violated, the database does not answer.
AbortResolve(w) ==
  /\ at[w] \notin {"idle", "returned"} /\ EndResolve(w)
  /\ UNCHANGED <<extractionVars, knowledge, resolves>>

ResolutionStep(w) ==
  \/ BeginResolve(w) \/ LookUp(w) \/ Write(w) \/ ReadDecisions(w) \/ InsertAssertions(w)
  \/ ReturnResolve(w) \/ AbortResolve(w)

Next ==
  \/ Scan
  \/ \E x \in Extractor : ExtractionStep(x)
  \/ \E w \in Resolver : ResolutionStep(w)

Spec == Init /\ [][Next]_vars

-----------------------------------------------------------------------------
(***************************************************************************)
(* Properties.                                                             *)
(***************************************************************************)

\* docs/architecture/overview.md: exact identifiers merge by themselves.  Whoever
\* resolves whatever run in whatever order, candidates that show one strong
\* identifier end up in one entity, or are deferred; unless the row of that
\* identifier went with a candidate that its entity outlived.
SameIdentifierSameEntity ==
  \A d, e \in decisions :
    NoEntity \notin {d.entity, e.entity} /\ d.entity # e.entity =>
      IdentifiersOf(d.candidate) \cap IdentifiersOf(e.candidate) \subseteq lost

\* Nothing canonical is without a source that is there (ADR 0005): an entity has the
\* decision it was created by, and an identifier is shown by a candidate resolved to
\* its entity.
KnowledgeIsGrounded ==
  /\ \A e \in entities : \E d \in decisions :
       d.candidate = e /\ d.entity = e /\ Valid(e)
  /\ \A i \in identifiers : \E d \in decisions :
       /\ d.candidate = i.source /\ d.entity = i.entity
       /\ Valid(i.source) /\ i.identifier \in IdentifiersOf(i.source)

\* An assertion speaks of the entities that the ends of its relationship are
\* resolved to now, whatever entities were deleted and created again.
AssertionsAreGrounded ==
  \A a \in assertions :
    /\ a.relationship \in ValidRelationships(answers[a.job][a.chunk])
    /\ \A end \in {<<a.relationship.subject, a.subject>>, <<a.relationship.object, a.object>>} :
         \E d \in decisions :
           /\ d.candidate = [job |-> a.job, chunk |-> a.chunk, local |-> end[1]]
           /\ d.entity = end[2]

\* Resolving a run, again if need be, makes it whole: when nothing of it has come or
\* gone meanwhile, every valid candidate is decided and every valid relationship
\* between resolved candidates has its assertion, whatever an earlier resolution
\* left undone or a cascade took away, and whoever resolves beside it.
ResolvedRunIsWhole ==
  \A w \in Resolver :
    at[w] = "returned" /\ ~ disturbed[w] =>
      /\ Unresolved(run[w]) = {}
      /\ AssertionsOf(run[w], ResolvedOf(run[w])) \subseteq assertions
=============================================================================
