--------------------------- MODULE SourceRetention ---------------------------
(***************************************************************************)
(* What becomes of everything that was made of a document's text when the  *)
(* text is superseded or deleted (docs/adr/0005): the tables of migrations *)
(* 0002, 0004, 0006 and 0008, row by row, with their foreign keys.         *)
(*                                                                         *)
(* The program itself deletes the parsed rows of a version and, before it  *)
(* records an answer again, the candidates and evidence of the answer      *)
(* before; the rest is ON DELETE CASCADE.  Rows of vaults, documents,      *)
(* document_versions, extraction_runs and the registries are never         *)
(* deleted, so that keys that refer to them are left out.                  *)
(*                                                                         *)
(* One section, block, link and chunk stand for all of a version; one      *)
(* candidate of each kind, with its evidence, for all of a chunk in a run. *)
(***************************************************************************)
EXTENDS Naturals

CONSTANTS
  Doc, Text,
  Run,       \* extraction runs
  None,      \* no text, no run, no entity
  MaxScans,  \* bound: documents stored or deleted
  MaxAnswers \* bound: answers recorded

VARIABLES
  current,  \* content of the current version of each document
  rows,     \* rows of all the tables
  selected, \* chunks that runs were started on
  struck,   \* what the last step set out to delete
  scans, answers

vars == <<current, rows, selected, struck, scans, answers>>

\* A version, by uuid5(document_id, content_sha256); its chunk has an id to match.
Source == [doc : Doc, text : Text]

\* The candidates of a chunk in a run; entities are known by the one they were created
\* from.  Parsed rows have no run.
Origin == [source : Source, run : Run \cup {None}]
Candidate == {k \in Origin : k.run # None}

ASSUME RetentionAssumption ==
  None \notin Text \cup Run \cup Origin /\ {MaxScans, MaxAnswers} \subseteq Nat

ParsedTable == {"sections", "content_blocks", "chunks", "document_links"}
ExtractedTable == {"evidence_spans", "entity_candidates", "relationship_candidates",
                   "claim_candidates"}
CanonicalTable == {"entities", "entity_aliases", "entity_identifiers", "entity_mentions",
                   "resolution_decisions", "resolution_review_candidates",
                   "relationship_assertions", "claims"}
Table == ParsedTable \cup {"extraction_chunks"} \cup ExtractedTable \cup CanonicalTable

\* A row, what it was made of, and the entities it refers to.
Row == [table : Table, from : Origin, entity : Candidate \cup {None},
        target : Candidate \cup {None}]

RowOf(table, k) == [table |-> table, from |-> k, entity |-> None, target |-> None]
About(table, k, e) == [RowOf(table, k) EXCEPT !.entity = e]

-----------------------------------------------------------------------------
(***************************************************************************)
(* Foreign keys, all of them ON DELETE CASCADE: rows of one table refer to *)
(* the row of another by version, by candidate, or by an entity.           *)
(***************************************************************************)

ForeignKey == [of : Table, to : Table, by : {"version", "candidate", "entity", "target"}]

Keys(of, to, by) == [of : of, to : to, by : by]

ParsedKeys ==
  Keys({"content_blocks", "chunks"}, {"sections"}, {"version"})
    \cup Keys({"document_links"}, {"chunks"}, {"version"})

EvidenceKeys ==
  Keys({"evidence_spans"}, {"sections", "chunks"}, {"version"})
    \cup Keys({"extraction_chunks"}, {"chunks"}, {"version"})

CandidateKeys ==
  LET candidates == ExtractedTable \ {"evidence_spans"} IN
  Keys(candidates, {"chunks"}, {"version"})
    \cup Keys(candidates, {"evidence_spans"}, {"candidate"})

\* Mutant: the key of entities is missing, and they outlive the candidate they were
\* created from.
EntityKeysMissing ==
  Keys({"claims"}, {"claim_candidates", "evidence_spans"}, {"candidate"})

EntityKeys ==
  Keys({"entities"}, {"entity_candidates"}, {"candidate"})
    \cup Keys({"claims"}, {"claim_candidates", "evidence_spans"}, {"candidate"})

AttributeKeys ==
  LET attributes == {"entity_aliases", "entity_identifiers", "entity_mentions"} IN
  Keys(attributes, {"entities"}, {"entity"})
    \cup Keys(attributes, {"entity_candidates", "evidence_spans"}, {"candidate"})
    \cup Keys({"entity_mentions"}, {"chunks"}, {"version"})

AssertionKeys ==
  Keys({"relationship_assertions"}, {"entities"}, {"entity", "target"})
    \cup Keys({"relationship_assertions"}, {"relationship_candidates", "evidence_spans"},
              {"candidate"})

\* Mutant: the key of decisions to entities is missing, and a decision names an entity
\* that is gone.  (Were it SET NULL, a decision would become one that was deferred.)
DecisionKeysMissing ==
  Keys({"resolution_decisions", "resolution_review_candidates"}, {"entity_candidates"},
       {"candidate"})
    \cup Keys({"resolution_review_candidates"}, {"entities"}, {"entity", "target"})

DecisionKeys ==
  Keys({"resolution_decisions", "resolution_review_candidates"}, {"entity_candidates"},
       {"candidate"})
    \cup Keys({"resolution_decisions"}, {"entities"}, {"entity"})
    \cup Keys({"resolution_review_candidates"}, {"entities"}, {"entity", "target"})

Schema == ParsedKeys \cup EvidenceKeys \cup CandidateKeys \cup EntityKeys
            \cup AttributeKeys \cup AssertionKeys \cup DecisionKeys

\* What the key of row r names, for rows of table key.to; None is NULL.
Named(r, key) ==
  CASE key.by = "version"   -> [r.from EXCEPT !.run = IF key.to \in ParsedTable THEN None ELSE @]
    [] key.by = "candidate" -> r.from
    [] key.by = "entity"    -> r.entity
    [] key.by = "target"    -> r.target

KeysOf == [table \in Table |-> {key \in Schema : key.of = table}]

\* Rows S, and the rows that refer to them.
WithReferring(S) ==
  LET names == {<<x.table, x.from>> : x \in S} IN
  S \cup {r \in rows : \E key \in KeysOf[r.table] : <<key.to, Named(r, key)>> \in names}

\* What goes when rows S are deleted.  No chain of keys is longer than from a section to a
\* chunk, evidence, candidate, entity and assertion.
Cascade(S) ==
  WithReferring(WithReferring(WithReferring(WithReferring(WithReferring(S \cap rows)))))

\* Every key of r refers to a row of R, or is NULL.
Sound(r, R) ==
  \A key \in KeysOf[r.table] :
    Named(r, key) # None => RowOf(key.to, Named(r, key)) \in R

\* Keys refer to rows, and but for reviews a candidate has one row in each table.
TypeOK ==
  /\ current \in [Doc -> Text \cup {None}]
  /\ rows \subseteq Row /\ Schema \subseteq ForeignKey
  /\ \A r \in rows : Sound(r, rows)
  /\ \A r \in rows : r.table # "resolution_review_candidates" =>
       \A q \in rows : q.table = r.table /\ q.from = r.from => q = r
  /\ selected \subseteq Candidate /\ struck \subseteq Origin
  /\ scans \in 0 .. MaxScans /\ answers \in 0 .. MaxAnswers

-----------------------------------------------------------------------------
(***************************************************************************)
(* Scans.                                                                  *)
(***************************************************************************)

Parsed(s) == {RowOf(t, [source |-> s, run |-> None]) : t \in ParsedTable}

Init ==
  /\ current = [d \in Doc |-> None] /\ rows = {} /\ selected = {} /\ struck = {}
  /\ scans = 0 /\ answers = 0

VersionsOf(d) == {s \in Source : s.doc = d /\ s.text = current[d]}

OriginsIn(S) == {k \in Origin : k.source \in S}

Scan == scans < MaxScans /\ scans' = scans + 1 /\ UNCHANGED <<selected, answers>>

\* store_document: the parsed rows of the version, if there are any, are deleted and made
\* again; those of the version before are deleted.
StoreDocument(d, t) ==
  LET s == [doc |-> d, text |-> t]
      old == VersionsOf(d) \cup {s} IN
  /\ Scan
  /\ rows' = (rows \ Cascade(UNION {Parsed(v) : v \in old})) \cup Parsed(s)
  /\ current' = [current EXCEPT ![d] = t]
  /\ struck' = OriginsIn(old)

\* _delete_document_source.
DeleteDocumentSource(d) ==
  /\ Scan /\ current[d] # None
  /\ rows' = rows \ Cascade(UNION {Parsed(v) : v \in VersionsOf(d)})
  /\ current' = [current EXCEPT ![d] = None]
  /\ struck' = OriginsIn(VersionsOf(d))

-----------------------------------------------------------------------------
(***************************************************************************)
(* Extraction and resolution.                                              *)
(***************************************************************************)

\* A transaction that inserts rows is refused if a key of one refers to nothing.
Insert(new) ==
  /\ \A r \in new : Sound(r, rows \cup new)
  /\ rows' = rows \cup new
  /\ struck' = {}

\* prepare_run: the chunks selected.
PrepareRun(run) ==
  /\ \A k \in selected : k.run # run
  /\ \E S \in SUBSET Source \ {{}} :
       LET chosen == {[source |-> s, run |-> run] : s \in S} IN
       /\ Insert({RowOf("extraction_chunks", k) : k \in chosen})
       /\ selected' = selected \cup chosen
  /\ UNCHANGED <<current, scans, answers>>

\* Mutant: the answers of other runs are deleted too.
AnswerBeforeOfAnyRun(k) ==
  {r \in rows : r.table \in ExtractedTable /\ r.from.source = k.source}

AnswerBefore(k) == {r \in rows : r.table \in ExtractedTable /\ r.from = k}

\* record_success, for a chunk there is: what the run had recorded for it is replaced.
\* An item whose quote was not found has no evidence and is never resolved; it is left out.
RecordSuccess(k) ==
  LET new == {RowOf(t, k) : t \in ExtractedTable} IN
  /\ k \in selected
  /\ answers < MaxAnswers /\ answers' = answers + 1
  /\ \A r \in new : Sound(r, rows \cup new)
  /\ rows' = (rows \ Cascade(AnswerBefore(k))) \cup new
  /\ struck' = {k}
  /\ UNCHANGED <<current, selected, scans>>

Decided(k) == \E r \in rows : r.table = "resolution_decisions" /\ r.from = k

Entity == {r.from : r \in {q \in rows : q.table = "entities"}}
Identified ==
  Entity \cap {r.entity : r \in {q \in rows : q.table = "entity_identifiers"}}

\* resolve_candidate: none, if its identifiers lead to more entities (which may be of
\* documents that are not among Doc); the one that they lead to; or one of its own.  An
\* identifier that the entity lacks; other entities of its name are to be reviewed.
Resolve(k) ==
  /\ RowOf("entity_candidates", k) \in rows /\ ~ Decided(k)
  /\ \/ Insert({RowOf("resolution_decisions", k)})
     \/ \E e \in Identified \cup {k}, identified \in SUBSET {"entity_identifiers"},
          named \in SUBSET (Entity \ {k}) :
          /\ e \notin named
          /\ Insert({RowOf("entities", e)}
               \cup {About(t, k, e) : t \in {"entity_aliases", "entity_mentions",
                                             "resolution_decisions"} \cup identified}
               \cup {[About("resolution_review_candidates", k, e) EXCEPT !.target = x] :
                       x \in named})
  /\ UNCHANGED <<current, selected, scans, answers>>

\* Mutant: nothing keeps a candidate from being materialized twice.
NotYetInAny(run, table) == {r \in rows : r.from.run = run}

\* What ON CONFLICT DO NOTHING lets in: one row of a candidate.
NotYetIn(run, table) ==
  LET there == {r.from : r \in {q \in rows : q.table = table}} IN
  {r \in rows : r.from.run = run /\ r.from \notin there}

\* materialize_assertions, for relationships whose ends are resolved, and claims.  The
\* object may be another candidate's entity.
MaterializeAssertions(run) ==
  LET decided == {r \in NotYetIn(run, "relationship_assertions") :
                    r.table = "resolution_decisions" /\ r.entity # None}
      claims == {r \in NotYetIn(run, "claims") : r.table = "claim_candidates"} IN
  /\ decided # {} \/ claims # {}
  /\ \E object \in Entity \cup {None} :
       Insert({RowOf("claims", r.from) : r \in claims}
         \cup {[About("relationship_assertions", d.from, d.entity) EXCEPT
                  !.target = IF object = None THEN d.entity ELSE object] : d \in decided})
  /\ UNCHANGED <<current, selected, scans, answers>>

Next ==
  \/ \E d \in Doc : DeleteDocumentSource(d) \/ \E t \in Text : StoreDocument(d, t)
  \/ \E run \in Run : PrepareRun(run) \/ MaterializeAssertions(run)
  \/ \E k \in Candidate : RecordSuccess(k) \/ Resolve(k)

Spec == Init /\ [][Next]_vars

-----------------------------------------------------------------------------
(***************************************************************************)
(* Properties.                                                             *)
(***************************************************************************)

\* docs/adr/0005: of a text that is superseded or deleted nothing is kept, in any table of
\* what is derived from it (front matter and title stay with the version), however far it
\* has got: every row was made of a current text.
NoTextOutlivesItsSource ==
  \A r \in rows : current[r.from.source.doc] = r.from.source.text

\* A candidate is resolved as a whole or not at all, whatever a cascade takes and in
\* whatever order it is resolved again: its alias and its mention name the entity of its
\* decision, and an identifier or an assertion it gave is of a candidate still resolved.
DecisionsAreWhole ==
  LET resolved(t) == {<<r.from, r.entity>> : r \in {q \in rows : q.table = t /\ q.entity # None}}
      decided == resolved("resolution_decisions") IN
  /\ decided = resolved("entity_aliases") /\ decided = resolved("entity_mentions")
  /\ resolved("entity_identifiers") \cup resolved("relationship_assertions") \subseteq decided

\* What a step takes away it set out to take, or it is about an entity that was created
\* from what it set out to take: another run's answer for the same chunk, or another
\* document's, is left as it was.  That rows of other sources go with an entity is what
\* the code does, and allowed here.
OnlyItsOwnGoes ==
  [][\A r \in rows \ rows' : {r.from, r.entity, r.target} \cap struck' # {}]_vars
=============================================================================
