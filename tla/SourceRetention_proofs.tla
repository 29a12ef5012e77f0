----------------------- MODULE SourceRetention_proofs -----------------------
(***************************************************************************)
(* What TLAPS proves of SourceRetention for every number of documents,     *)
(* texts and runs: deleting the parsed rows of a version takes all that    *)
(* was made of its text, and nothing that was not; keys keep referring to  *)
(* rows; and what a resolution made goes as a whole.                       *)
(***************************************************************************)
EXTENDS SourceRetention, TLAPS

\* How many keys a row can be away from a section.
Rank(t) ==
  IF t = "sections" THEN 0
  ELSE IF t \in {"content_blocks", "chunks"} THEN 1
  ELSE IF t \in {"document_links", "evidence_spans", "extraction_chunks"} THEN 2
  ELSE IF t \in ExtractedTable THEN 3
  ELSE IF t \in {"entities", "claims"} THEN 4 ELSE 5

\* The tables that keys refer to.
Referred == {"sections", "chunks", "entities"} \cup ExtractedTable

\* Keys lead down in rank; keys by version lead to parsed rows, and only they do; an
\* entity is named by what nothing refers to.
LEMMA KeysLeadDown ==
  ASSUME NEW key \in Schema
  PROVE  /\ key.of \in Table /\ key.to \in Referred
         /\ Rank(key.to) + 1 <= Rank(key.of)
         /\ Rank(key.of) \in 0 .. 5 /\ Rank(key.to) \in 0 .. 5
         /\ key.by \in {"version", "candidate", "entity", "target"}
         /\ key.by = "version" <=> key.to \in ParsedTable
         /\ key.of \in ParsedTable => key.by = "version"
         /\ key.by \in {"entity", "target"} => key.to = "entities" /\ key.of \notin Referred
  <1> USE DEF Keys, Rank, Referred, Table, ParsedTable, ExtractedTable, CanonicalTable
  <1>1. CASE key \in ParsedKeys BY <1>1 DEF ParsedKeys
  <1>2. CASE key \in EvidenceKeys BY <1>2 DEF EvidenceKeys
  <1>3. CASE key \in CandidateKeys BY <1>3 DEF CandidateKeys
  <1>4. CASE key \in EntityKeys BY <1>4 DEF EntityKeys
  <1>5. CASE key \in AttributeKeys BY <1>5 DEF AttributeKeys
  <1>6. CASE key \in AssertionKeys BY <1>6 DEF AssertionKeys
  <1>7. CASE key \in DecisionKeys BY <1>7 DEF DecisionKeys
  <1> QED BY <1>1, <1>2, <1>3, <1>4, <1>5, <1>6, <1>7 DEF Schema

\* What is not a parsed row refers to a chunk by version, or to a candidate that does.
LEMMA KeysLeadToChunks ==
  /\ \A t \in ExtractedTable \cup {"extraction_chunks"} :
       \E key \in KeysOf[t] : key.to = "chunks" /\ key.by = "version"
  /\ \A t \in CanonicalTable :
       \E key \in KeysOf[t] :
         key.to \in ExtractedTable \ {"evidence_spans"} /\ key.by = "candidate"
  <1> USE DEF Keys, Table, ParsedTable, ExtractedTable, CanonicalTable, KeysOf, Schema
  <1>1. ASSUME NEW t \in ExtractedTable \cup {"extraction_chunks"}
        PROVE  \E key \in KeysOf[t] : key.to = "chunks" /\ key.by = "version"
    <2> DEFINE key == [of |-> t, to |-> "chunks", by |-> "version"]
    <2>1. key \in EvidenceKeys \cup CandidateKeys BY <1>1 DEF EvidenceKeys, CandidateKeys
    <2> QED BY <2>1, <1>1
  <1>2. ASSUME NEW t \in CanonicalTable
        PROVE  \E key \in KeysOf[t] :
                 key.to \in ExtractedTable \ {"evidence_spans"} /\ key.by = "candidate"
    <2> DEFINE to == IF t = "claims" THEN "claim_candidates"
                     ELSE IF t = "relationship_assertions" THEN "relationship_candidates"
                     ELSE "entity_candidates"
               key == [of |-> t, to |-> to, by |-> "candidate"]
    <2>1. key \in EntityKeys \cup AttributeKeys \cup AssertionKeys \cup DecisionKeys
      BY <1>2 DEF EntityKeys, AttributeKeys, AssertionKeys, DecisionKeys
    <2> QED BY <2>1, <1>2
  <1> QED BY <1>1, <1>2

\* What a key names.
LEMMA NamedIs ==
  ASSUME NEW r, NEW key
  PROVE  /\ key.by = "version" /\ key.to \in ParsedTable
              => Named(r, key) = [r.from EXCEPT !.run = None]
         /\ key.by = "candidate" => Named(r, key) = r.from
         /\ key.by = "entity" => Named(r, key) = r.entity
         /\ key.by = "target" => Named(r, key) = r.target
  BY DEF Named

RefersTo(r, x) == \E key \in KeysOf[r.table] : x.table = key.to /\ x.from = Named(r, key)

LEMMA GrowsByReferring ==
  ASSUME NEW S, NEW r
  PROVE  r \in WithReferring(S) <=> r \in S \/ (r \in rows /\ \E x \in S : RefersTo(r, x))
  BY DEF WithReferring, RefersTo

\* A cascade stays in every set of rows that holds what is deleted and is closed.
LEMMA CascadeWithin ==
  ASSUME NEW S, NEW K \in SUBSET rows, S \cap rows \subseteq K,
         \A r \in rows, x \in K : RefersTo(r, x) => r \in K
  PROVE  Cascade(S) \subseteq K
  <1>1. ASSUME NEW Q \in SUBSET K PROVE WithReferring(Q) \in SUBSET K
    BY <1>1, GrowsByReferring
  <1> QED BY <1>1 DEF Cascade

\* It is itself one: each round adds rows of a higher rank than the round before, and
\* there is none above the fifth.
LEMMA CascadeIsClosed ==
  ASSUME rows \subseteq Row, NEW S
  PROVE  /\ S \cap rows \subseteq Cascade(S) /\ Cascade(S) \subseteq rows
         /\ \A r \in rows, x \in Cascade(S) : RefersTo(r, x) => r \in Cascade(S)
  <1> DEFINE G0 == S \cap rows
             G1 == WithReferring(G0)
             G2 == WithReferring(G1)
             G3 == WithReferring(G2)
             G4 == WithReferring(G3)
             G5 == WithReferring(G4)
             G6 == WithReferring(G5)
             New(Q, n) == \A r \in WithReferring(Q) : r \in Q \/ Rank(r.table) >= n
  <1>1. ASSUME NEW Q \in SUBSET rows
        PROVE  Q \subseteq WithReferring(Q) /\ WithReferring(Q) \in SUBSET rows
    BY <1>1, GrowsByReferring
  <1>2. \A r \in rows : r.table \in Table BY DEF Row
  <1>3. ASSUME NEW r \in rows, NEW x \in rows, RefersTo(r, x)
        PROVE  Rank(r.table) >= Rank(x.table) + 1
    BY <1>2, <1>3, KeysLeadDown DEF RefersTo, KeysOf
  <1>4. \A r \in rows : Rank(r.table) \in 0 .. 5
    BY <1>2 DEF Rank
  <1>5. ASSUME NEW Q \in SUBSET rows, NEW n \in Nat, New(Q, n)
        PROVE  New(WithReferring(Q), n + 1)
    <2> SUFFICES ASSUME NEW r \in WithReferring(WithReferring(Q)), r \notin WithReferring(Q)
                 PROVE  Rank(r.table) >= n + 1
      OBVIOUS
    <2>1. PICK x \in WithReferring(Q) : r \in rows /\ RefersTo(r, x) BY GrowsByReferring
    <2>2. x \notin Q BY <2>1, GrowsByReferring
    <2>3. x \in rows BY <1>1
    <2>4. Rank(x.table) >= n BY <1>5, <2>2
    <2> QED BY <1>3, <1>4, <2>1, <2>3, <2>4
  <1> HIDE DEF New
  <1>6. /\ G0 \in SUBSET rows /\ G1 \in SUBSET rows /\ G2 \in SUBSET rows
        /\ G3 \in SUBSET rows /\ G4 \in SUBSET rows /\ G5 \in SUBSET rows
    BY <1>1
  <1>7. New(G0, 1)
    <2>1. ASSUME NEW r \in G1, r \notin G0 PROVE Rank(r.table) >= 1
      <3>1. PICK x \in G0 : r \in rows /\ RefersTo(r, x) BY <2>1, GrowsByReferring
      <3> QED BY <3>1, <1>3, <1>4
    <2> QED BY <2>1 DEF New
  <1> HIDE DEF G0
  <1>8. New(G5, 6) BY <1>5, <1>6, <1>7
  <1>9. G6 = G5
    <2>1. \A r \in G6 : r \in G5 \/ Rank(r.table) >= 6 BY <1>8 DEF New
    <2>2. G5 \subseteq G6 /\ G6 \subseteq rows BY <1>1, <1>6
    <2>3. \A r \in G6 : r \in G5 BY <2>1, <2>2, <1>4
    <2> QED BY <2>2, <2>3
  <1>10. Cascade(S) = G5 BY DEF Cascade, G0
  <1>11. G0 \subseteq G5 BY <1>1, <1>6
  <1> QED BY <1>6, <1>9, <1>10, <1>11, GrowsByReferring DEF G0

-----------------------------------------------------------------------------
(***************************************************************************)
(* The invariant: keys refer to rows, rows to sources that are current.    *)
(***************************************************************************)

KeysHold == \A r \in rows : Sound(r, rows)

\* Parsed rows are what a version has of them; other rows belong to a run.
RowsOfTheirKind ==
  \A r \in rows :
    IF r.table \in ParsedTable THEN r \in Parsed(r.from.source) ELSE r.from \in Candidate

RowsOfSources ==
  /\ current \in [Doc -> Text \cup {None}]
  /\ rows \subseteq Row /\ selected \subseteq Candidate
  /\ KeysHold /\ RowsOfTheirKind /\ NoTextOutlivesItsSource

\* Origins that a step set out to delete come with those of the parsed rows among them.
Whole(T) == \A o \in Origin : [o EXCEPT !.run = None] \in T => o \in T

\* A cascade takes rows of the origins it begins with, or about them.
LEMMA CascadeTakesItsOwn ==
  ASSUME rows \subseteq Row, NEW S, NEW T, Whole(T), \A r \in S \cap rows : r.from \in T
  PROVE  \A r \in Cascade(S) : {r.from, r.entity, r.target} \cap T # {}
  <1> DEFINE K == {r \in rows : /\ {r.from, r.entity, r.target} \cap T # {}
                                /\ r.table \in Referred => r.from \in T}
  <1>1. ASSUME NEW r \in rows, NEW x \in K, RefersTo(r, x) PROVE r \in K
    <2>1. PICK key \in KeysOf[r.table] : x.table = key.to /\ x.from = Named(r, key)
      BY <1>1 DEF RefersTo
    <2>2. r.table \in Table /\ r.from \in Origin BY DEF Row
    <2>3. key \in Schema /\ key.of = r.table BY <2>2 DEF KeysOf
    <2>4. Named(r, key) \in T BY <2>1, <2>3, KeysLeadDown
    <2>5. CASE key.by = "version"
      BY <2>2, <2>3, <2>4, <2>5, NamedIs, KeysLeadDown DEF Whole
    <2>6. CASE key.by = "candidate" BY <2>4, <2>6, NamedIs
    <2>7. CASE key.by \in {"entity", "target"}
      BY <2>3, <2>4, <2>7, NamedIs, KeysLeadDown
    <2> QED BY <2>3, <2>5, <2>6, <2>7, KeysLeadDown
  <1>2. S \cap rows \subseteq K OBVIOUS
  <1>3. Cascade(S) \subseteq K BY <1>1, <1>2, CascadeWithin
  <1> QED BY <1>3

\* A cascade that begins with none takes no parsed row.
LEMMA CascadeSparesParsed ==
  ASSUME rows \subseteq Row, NEW S, \A r \in S \cap rows : r.table \notin ParsedTable
  PROVE  \A r \in Cascade(S) : r.table \notin ParsedTable
  <1> DEFINE K == {r \in rows : r.table \notin ParsedTable}
  <1>1. ASSUME NEW r \in rows, NEW x \in K, RefersTo(r, x) PROVE r \in K
    <2>1. PICK key \in KeysOf[r.table] : x.table = key.to BY <1>1 DEF RefersTo
    <2>2. key \in Schema /\ key.of = r.table BY DEF Row, KeysOf
    <2> QED BY <2>1, <2>2, KeysLeadDown
  <1>2. Cascade(S) \subseteq K BY <1>1, CascadeWithin
  <1> QED BY <1>2

\* Where keys hold, a cascade that begins with the parsed rows of a source takes all that
\* was made of it.
LEMMA CascadeTakesSource ==
  ASSUME RowsOfSources, NEW S, NEW r \in rows, Parsed(r.from.source) \subseteq S
  PROVE  r \in Cascade(S)
  <1> USE DEF RowsOfSources
  <1>1. \A q \in rows : q.table \in Table /\ q.from \in Origin BY DEF Row
  <1>2. ASSUME NEW q \in rows, q.table \in ParsedTable, q.from.source = r.from.source
        PROVE  q \in Cascade(S)
    BY <1>2, CascadeIsClosed DEF RowsOfTheirKind
  <1>3. ASSUME NEW q \in rows, NEW key \in KeysOf[q.table], NEW o \in Origin,
               Named(q, key) = o, o.source = q.from.source,
               RowOf(key.to, o) \in Cascade(S)
        PROVE  q \in Cascade(S)
    <2>1. RefersTo(q, RowOf(key.to, o)) BY <1>3 DEF RefersTo, RowOf
    <2> QED BY <1>3, <2>1, CascadeIsClosed
  <1>4. ASSUME NEW q \in rows, q.table \in ExtractedTable \cup {"extraction_chunks"},
               q.from.source = r.from.source
        PROVE  q \in Cascade(S)
    <2>1. PICK key \in KeysOf[q.table] : key.to = "chunks" /\ key.by = "version"
      BY <1>4, KeysLeadToChunks
    <2> DEFINE o == [q.from EXCEPT !.run = None]
    <2>2. o \in Origin /\ o.source = r.from.source BY <1>1, <1>4 DEF Origin
    <2>3. Named(q, key) = o BY <2>1, NamedIs DEF ParsedTable
    <2>4. RowOf("chunks", o) \in rows
      BY <2>1, <2>2, <2>3, RetentionAssumption DEF KeysHold, Sound
    <2>5. RowOf("chunks", o) \in Cascade(S)
      BY <1>2, <2>2, <2>4 DEF RowOf, ParsedTable
    <2> QED BY <1>3, <1>4, <2>1, <2>2, <2>3, <2>5
  <1>5. ASSUME NEW q \in rows, q.table \in CanonicalTable, q.from.source = r.from.source
        PROVE  q \in Cascade(S)
    <2>1. PICK key \in KeysOf[q.table] :
            key.to \in ExtractedTable \ {"evidence_spans"} /\ key.by = "candidate"
      BY <1>5, KeysLeadToChunks
    <2>2. Named(q, key) = q.from BY <2>1, NamedIs
    <2>3. RowOf(key.to, q.from) \in rows
      BY <1>1, <2>1, <2>2, RetentionAssumption DEF KeysHold, Sound
    <2>4. RowOf(key.to, q.from) \in Cascade(S)
      BY <1>4, <1>5, <2>1, <2>3 DEF RowOf
    <2> QED BY <1>1, <1>3, <1>5, <2>1, <2>2, <2>4
  <1> QED BY <1>1, <1>2, <1>4, <1>5 DEF Table

\* What a cascade leaves refers to what it leaves.
LEMMA SurvivorsHold ==
  ASSUME RowsOfSources, NEW S, NEW r \in rows \ Cascade(S)
  PROVE  Sound(r, rows \ Cascade(S))
  <1> USE DEF RowsOfSources
  <1> SUFFICES ASSUME NEW key \in KeysOf[r.table], Named(r, key) # None
               PROVE  RowOf(key.to, Named(r, key)) \in rows \ Cascade(S)
    BY DEF Sound
  <1>1. RowOf(key.to, Named(r, key)) \in rows BY DEF KeysHold, Sound
  <1>2. RefersTo(r, RowOf(key.to, Named(r, key))) BY DEF RefersTo, RowOf
  <1> QED BY <1>1, <1>2, CascadeIsClosed

\* More rows do no harm.
LEMMA MoreRowsHold ==
  ASSUME NEW R, NEW Q, R \subseteq Q, NEW r, Sound(r, R)
  PROVE  Sound(r, Q)
  BY DEF Sound

\* The parsed rows of a version hold each other.
LEMMA ParsedHolds ==
  ASSUME NEW s \in Source
  PROVE  /\ Parsed(s) \subseteq Row
         /\ \A r \in Parsed(s) : /\ r.table \in ParsedTable
                                 /\ r.from \in Origin /\ r.from.source = s
                                 /\ Sound(r, Parsed(s))
  <1> DEFINE o == [source |-> s, run |-> None]
  <1>1. o \in Origin BY DEF Origin
  <1>2. \A r \in Parsed(s) : /\ r.table \in ParsedTable /\ r.from = o /\ o.source = s
                             /\ r = RowOf(r.table, o)
    BY DEF Parsed, RowOf
  <1>3. Parsed(s) \subseteq Row BY <1>1 DEF Parsed, RowOf, Row, Table
  <1>4. ASSUME NEW r \in Parsed(s), NEW key \in KeysOf[r.table]
        PROVE  RowOf(key.to, Named(r, key)) \in Parsed(s)
    <2>1. key \in Schema /\ key.of = r.table BY <1>2 DEF KeysOf, Table
    <2>2. key.by = "version" /\ key.to \in ParsedTable BY <1>2, <2>1, KeysLeadDown
    <2>3. Named(r, key) = o BY <1>2, <2>2, NamedIs
    <2> QED BY <2>2, <2>3 DEF Parsed
  <1> QED BY <1>1, <1>2, <1>3, <1>4 DEF Sound

\* A candidate that may be recorded is of a text that is current.
LEMMA ChunkIsCurrent ==
  ASSUME RowsOfSources, NEW k \in Candidate, NEW t \in ExtractedTable \cup {"extraction_chunks"},
         NEW new, \A r \in new : r.table \notin ParsedTable,
         Sound(RowOf(t, k), rows \cup new)
  PROVE  current[k.source.doc] = k.source.text
  <1> DEFINE o == [k EXCEPT !.run = None]
  <1>1. PICK key \in KeysOf[t] : key.to = "chunks" /\ key.by = "version"
    BY KeysLeadToChunks
  <1>2. o \in Origin /\ o.source = k.source BY DEF Candidate, Origin
  <1>3. Named(RowOf(t, k), key) = o BY <1>1, NamedIs DEF RowOf, ParsedTable
  <1>4. RowOf("chunks", o) \in rows \cup new
    BY <1>1, <1>2, <1>3, RetentionAssumption DEF Sound, RowOf
  <1>5. RowOf("chunks", o) \in rows BY <1>4 DEF RowOf, ParsedTable
  <1> QED BY <1>2, <1>5 DEF RowsOfSources, NoTextOutlivesItsSource, RowOf

\* Inserting rows of candidates of current texts.
LEMMA InsertStep ==
  ASSUME RowsOfSources, NEW new \in SUBSET Row, Insert(new), UNCHANGED current,
         selected' \subseteq Candidate,
         \A r \in new : /\ r.table \notin ParsedTable /\ r.from \in Candidate
                        /\ current[r.from.source.doc] = r.from.source.text
  PROVE  RowsOfSources' /\ rows \subseteq rows'
  <1> USE DEF RowsOfSources
  <1>1. rows' = rows \cup new BY DEF Insert
  <1>2. KeysHold'
    <2>1. \A r \in rows : Sound(r, rows') BY <1>1, MoreRowsHold DEF KeysHold
    <2>2. \A r \in new : Sound(r, rows') BY <1>1 DEF Insert
    <2> QED BY <1>1, <2>1, <2>2 DEF KeysHold
  <1>3. RowsOfTheirKind' BY <1>1 DEF RowsOfTheirKind
  <1>4. NoTextOutlivesItsSource' BY <1>1 DEF NoTextOutlivesItsSource
  <1> QED BY <1>1, <1>2, <1>3, <1>4

LEMMA InitRows == Init => RowsOfSources
  BY DEF Init, RowsOfSources, KeysHold, RowsOfTheirKind, NoTextOutlivesItsSource

OwnGoes == \A r \in rows \ rows' : {r.from, r.entity, r.target} \cap struck' # {}

\* Versions of a document are deleted, and perhaps one is stored.
LEMMA ScanStep ==
  ASSUME RowsOfSources, NEW d \in Doc, NEW t \in Text \cup {None}, NEW old \in SUBSET Source,
         VersionsOf(d) \subseteq old, \A v \in old : v.doc = d,
         NEW new, IF t = None THEN new = {} ELSE new = Parsed([doc |-> d, text |-> t]),
         rows' = (rows \ Cascade(UNION {Parsed(v) : v \in old})) \cup new,
         current' = [current EXCEPT ![d] = t], struck' = OriginsIn(old), UNCHANGED selected
  PROVE  RowsOfSources' /\ OwnGoes
  <1> USE DEF RowsOfSources
  <1> DEFINE S == UNION {Parsed(v) : v \in old}
  <1>1. /\ new \subseteq Row
        /\ \A r \in new : /\ r.table \in ParsedTable
                          /\ r.from.source = [doc |-> d, text |-> t] /\ r \in Parsed(r.from.source)
                          /\ Sound(r, new)
    <2>1. CASE t = None BY <2>1
    <2>2. CASE t # None
      <3> DEFINE s == [doc |-> d, text |-> t]
      <3>1. s \in Source /\ new = Parsed(s) BY <2>2 DEF Source
      <3>2. \A r \in Parsed(s) : r.from.source = s BY <3>1, ParsedHolds
      <3> QED BY <3>1, <3>2, ParsedHolds
    <2> QED BY <2>1, <2>2
  <1>2. \A r \in rows \ Cascade(S) : r.from.source \notin old
    <2> SUFFICES ASSUME NEW r \in rows, r.from.source \in old PROVE r \in Cascade(S)
      OBVIOUS
    <2>1. Parsed(r.from.source) \subseteq S OBVIOUS
    <2> QED BY <2>1, CascadeTakesSource
  <1>3. \A r \in rows : r.from \in Origin /\ r.from.source \in Source
    BY DEF Row, Origin
  <1>4. KeysHold'
    <2>1. \A r \in rows \ Cascade(S) : Sound(r, rows') BY SurvivorsHold, MoreRowsHold
    <2>2. \A r \in new : Sound(r, rows') BY <1>1, MoreRowsHold
    <2> QED BY <2>1, <2>2 DEF KeysHold
  <1>5. RowsOfTheirKind' BY <1>1 DEF RowsOfTheirKind
  <1>6. NoTextOutlivesItsSource'
    <2>1. ASSUME NEW r \in rows \ Cascade(S)
          PROVE  current'[r.from.source.doc] = r.from.source.text
      <3>1. current[r.from.source.doc] = r.from.source.text BY DEF NoTextOutlivesItsSource
      <3>2. r.from.source.doc # d BY <1>2, <1>3, <2>1, <3>1 DEF VersionsOf
      <3>3. r.from.source.doc \in Doc BY <1>3 DEF Source
      <3> QED BY <3>1, <3>2, <3>3
    <2>2. \A r \in new : current'[r.from.source.doc] = r.from.source.text BY <1>1
    <2> QED BY <2>1, <2>2 DEF NoTextOutlivesItsSource
  <1>7. OwnGoes
    <2>1. Whole(struck') BY DEF Whole, OriginsIn, Origin
    <2>2. \A r \in S \cap rows : r.from \in struck'
      <3> SUFFICES ASSUME NEW r \in rows, NEW v \in old, r \in Parsed(v)
                   PROVE  r.from \in struck'
        OBVIOUS
      <3>1. r.from.source = v BY ParsedHolds
      <3> QED BY <1>3, <3>1 DEF OriginsIn
    <2>3. \A r \in Cascade(S) : {r.from, r.entity, r.target} \cap struck' # {}
      BY <2>1, <2>2, CascadeTakesItsOwn
    <2> QED BY <2>3 DEF OwnGoes
  <1>8. current' \in [Doc -> Text \cup {None}] OBVIOUS
  <1>9. rows' \subseteq Row BY <1>1
  <1> QED BY <1>4, <1>5, <1>6, <1>7, <1>8, <1>9

\* What a run had recorded for a chunk is replaced.
LEMMA RecordStep ==
  ASSUME RowsOfSources, NEW k \in Candidate, RecordSuccess(k)
  PROVE  RowsOfSources' /\ OwnGoes
  <1> USE DEF RowsOfSources
  <1> DEFINE new == {RowOf(t, k) : t \in ExtractedTable}
             S == AnswerBefore(k)
  <1>1. /\ \A r \in new : Sound(r, rows \cup new)
        /\ rows' = (rows \ Cascade(S)) \cup new
        /\ struck' = {k} /\ UNCHANGED <<current, selected>>
    BY DEF RecordSuccess
  <1>2. k \in Origin BY DEF Candidate
  <1>3. /\ new \subseteq Row
        /\ \A r \in new : r.table \in ExtractedTable /\ r.from = k
        /\ ExtractedTable \cap ParsedTable = {}
    BY <1>2 DEF Row, RowOf, Table, ExtractedTable, ParsedTable
  <1>4. \A r \in Cascade(S) : r.table \notin ParsedTable
    BY <1>3, CascadeSparesParsed DEF AnswerBefore
  <1>5. KeysHold'
    <2>1. ASSUME NEW r \in rows \ Cascade(S) PROVE Sound(r, rows')
      <3>1. Sound(r, rows \ Cascade(S)) BY SurvivorsHold
      <3> QED BY <1>1, <3>1, MoreRowsHold
    <2>2. ASSUME NEW r \in new, NEW key \in KeysOf[r.table], Named(r, key) # None
          PROVE  RowOf(key.to, Named(r, key)) \in rows'
      <3>1. RowOf(key.to, Named(r, key)) \in rows \cup new BY <1>1, <2>2 DEF Sound
      <3>2. key \in Schema /\ key.of = r.table BY <1>3 DEF KeysOf, Table
      <3>3. CASE key.by = "version"
        <4>1. RowOf(key.to, Named(r, key)).table \in ParsedTable
          BY <3>2, <3>3, KeysLeadDown DEF RowOf
        <4> QED BY <1>1, <1>4, <3>1, <4>1
      <3>4. CASE key.by = "candidate"
        <4>1. key.to \in ExtractedTable
          BY <1>3, <3>2, <3>4, KeysLeadDown DEF Referred, Rank, ExtractedTable, ParsedTable
        <4> QED BY <1>1, <1>3, <3>4, <4>1, NamedIs
      <3>5. CASE key.by \in {"entity", "target"}
        BY <1>3, <3>2, <3>5, KeysLeadDown DEF Referred
      <3> QED BY <3>2, <3>3, <3>4, <3>5, KeysLeadDown
    <2>3. \A r \in new : Sound(r, rows') BY <2>2 DEF Sound
    <2> QED BY <1>1, <2>1, <2>3 DEF KeysHold
  <1>6. RowsOfTheirKind' BY <1>1, <1>3 DEF RowsOfTheirKind
  <1>7. NoTextOutlivesItsSource'
    <2>1. RowOf("entity_candidates", k) \in new BY DEF ExtractedTable
    <2>2. current[k.source.doc] = k.source.text
      BY <1>1, <1>3, <2>1, ChunkIsCurrent DEF ExtractedTable
    <2> QED BY <1>1, <1>3, <2>2 DEF NoTextOutlivesItsSource
  <1>8. OwnGoes
    <2>1. Whole(struck') BY <1>1 DEF Whole, Candidate, Origin
    <2>2. \A r \in S \cap rows : r.from \in struck' BY <1>1 DEF AnswerBefore
    <2>3. \A r \in Cascade(S) : {r.from, r.entity, r.target} \cap struck' # {}
      BY <2>1, <2>2, CascadeTakesItsOwn
    <2> QED BY <1>1, <2>3 DEF OwnGoes
  <1> QED BY <1>1, <1>3, <1>5, <1>6, <1>7, <1>8

LEMMA DeleteStep ==
  ASSUME RowsOfSources, NEW d \in Doc, DeleteDocumentSource(d)
  PROVE  RowsOfSources' /\ OwnGoes
  <1>1. VersionsOf(d) \in SUBSET Source /\ \A v \in VersionsOf(d) : v.doc = d
    BY DEF VersionsOf
  <1>2. /\ rows' = (rows \ Cascade(UNION {Parsed(v) : v \in VersionsOf(d)})) \cup {}
        /\ current' = [current EXCEPT ![d] = None]
        /\ struck' = OriginsIn(VersionsOf(d)) /\ UNCHANGED selected
    BY DEF DeleteDocumentSource, Scan
  <1> QED BY <1>1, <1>2, ScanStep

LEMMA StoreStep ==
  ASSUME RowsOfSources, NEW d \in Doc, NEW t \in Text, StoreDocument(d, t)
  PROVE  RowsOfSources' /\ OwnGoes
  <1> DEFINE s == [doc |-> d, text |-> t]
             old == VersionsOf(d) \cup {s}
  <1>1. old \in SUBSET Source /\ \A v \in old : v.doc = d BY DEF VersionsOf, Source
  <1>2. /\ rows' = (rows \ Cascade(UNION {Parsed(v) : v \in old})) \cup Parsed(s)
        /\ current' = [current EXCEPT ![d] = t]
        /\ struck' = OriginsIn(old) /\ UNCHANGED selected
    BY DEF StoreDocument, Scan
  <1>3. t # None BY RetentionAssumption
  <1> HIDE DEF old
  <1>4. VersionsOf(d) \subseteq old BY DEF old
  <1> QED BY <1>1, <1>2, <1>3, <1>4, ScanStep

LEMMA PrepareStep ==
  ASSUME RowsOfSources, NEW run \in Run, PrepareRun(run)
  PROVE  RowsOfSources' /\ OwnGoes
  <1> PICK S \in SUBSET Source :
        /\ Insert({RowOf("extraction_chunks", k) : k \in {[source |-> s, run |-> run] : s \in S}})
        /\ selected' = selected \cup {[source |-> s, run |-> run] : s \in S}
    BY DEF PrepareRun
  <1> DEFINE chosen == {[source |-> s, run |-> run] : s \in S}
             new == {RowOf("extraction_chunks", k) : k \in chosen}
  <1>1. chosen \subseteq Candidate
    BY RetentionAssumption DEF Candidate, Origin
  <1>2. new \in SUBSET Row
    BY <1>1 DEF Row, RowOf, Table, Candidate
  <1>3. ASSUME NEW r \in new
        PROVE  /\ r.table \notin ParsedTable /\ r.from \in Candidate
               /\ current[r.from.source.doc] = r.from.source.text
    <2>1. PICK k \in chosen : r = RowOf("extraction_chunks", k) OBVIOUS
    <2>2. Sound(r, rows \cup new) BY DEF Insert
    <2>3. \A q \in new : q.table \notin ParsedTable BY DEF RowOf, ParsedTable
    <2>4. k \in Candidate BY <1>1
    <2> HIDE DEF new, chosen
    <2>5. current[k.source.doc] = k.source.text
      BY <2>1, <2>2, <2>3, <2>4, ChunkIsCurrent
    <2> QED BY <2>1, <2>3, <2>4, <2>5 DEF RowOf
  <1>4. UNCHANGED current /\ selected' \subseteq Candidate
    BY <1>1 DEF PrepareRun, RowsOfSources
  <1>5. Insert(new) OBVIOUS
  <1> HIDE DEF new
  <1>6. RowsOfSources' /\ rows \subseteq rows' BY <1>2, <1>3, <1>4, <1>5, InsertStep
  <1> QED BY <1>6 DEF OwnGoes

\* Entities are of candidates of current texts.
LEMMA EntitiesAreCurrent ==
  ASSUME RowsOfSources, NEW e \in Entity
  PROVE  e \in Candidate /\ current[e.source.doc] = e.source.text
  BY DEF RowsOfSources, RowsOfTheirKind, NoTextOutlivesItsSource, Entity, ParsedTable

LEMMA ResolveStep ==
  ASSUME RowsOfSources, NEW k \in Candidate, Resolve(k)
  PROVE  RowsOfSources' /\ OwnGoes
  <1> DEFINE Fine(r) == /\ r \in Row /\ r.table \notin ParsedTable /\ r.from \in Candidate
                        /\ current[r.from.source.doc] = r.from.source.text
  <1>1. ASSUME NEW new, Insert(new), \A r \in new : Fine(r)
        PROVE  RowsOfSources' /\ OwnGoes
    <2>1. UNCHANGED <<current, selected>> BY DEF Resolve
    <2>2. new \in SUBSET Row BY <1>1
    <2>3. RowsOfSources' /\ rows \subseteq rows'
      BY <1>1, <2>1, <2>2, InsertStep DEF RowsOfSources
    <2> QED BY <2>3 DEF OwnGoes
  <1>2. current[k.source.doc] = k.source.text
    BY DEF Resolve, RowsOfSources, NoTextOutlivesItsSource, RowOf
  <1>3. CASE Insert({RowOf("resolution_decisions", k)})
    <2>1. Fine(RowOf("resolution_decisions", k))
      BY <1>2 DEF Row, RowOf, Table, CanonicalTable, ParsedTable, Candidate
    <2> QED BY <1>1, <1>3, <2>1
  <1>4. ASSUME NEW e \in Identified \cup {k}, NEW identified \in SUBSET {"entity_identifiers"},
               NEW named \in SUBSET (Entity \ {k}),
               Insert({RowOf("entities", e)}
                 \cup {About(t, k, e) : t \in {"entity_aliases", "entity_mentions",
                                               "resolution_decisions"} \cup identified}
                 \cup {[About("resolution_review_candidates", k, e) EXCEPT !.target = x] :
                         x \in named})
        PROVE  RowsOfSources' /\ OwnGoes
    <2>1. e \in Candidate /\ current[e.source.doc] = e.source.text
      BY <1>2, EntitiesAreCurrent DEF Identified
    <2>2. Fine(RowOf("entities", e))
      BY <2>1 DEF Row, RowOf, Table, CanonicalTable, ParsedTable, Candidate
    <2>3. \A t \in CanonicalTable : Fine(About(t, k, e))
      BY <1>2, <2>1 DEF Row, RowOf, About, Table, CanonicalTable, ParsedTable, Candidate
    <2>4. \A x \in named :
            Fine([About("resolution_review_candidates", k, e) EXCEPT !.target = x])
      BY <1>2, <2>1, EntitiesAreCurrent
         DEF Row, RowOf, About, Table, CanonicalTable, ParsedTable, Candidate
    <2>5. {"entity_aliases", "entity_mentions", "resolution_decisions"} \cup identified
            \subseteq CanonicalTable
      BY DEF CanonicalTable
    <2> HIDE DEF Fine
    <2> QED BY <1>1, <1>4, <2>2, <2>3, <2>4, <2>5
  <1> QED BY <1>3, <1>4 DEF Resolve

LEMMA MaterializeStep ==
  ASSUME RowsOfSources, NEW run \in Run, MaterializeAssertions(run)
  PROVE  RowsOfSources' /\ OwnGoes
  <1> DEFINE decided == {r \in NotYetIn(run, "relationship_assertions") :
                           r.table = "resolution_decisions" /\ r.entity # None}
             claims == {r \in NotYetIn(run, "claims") : r.table = "claim_candidates"}
             object(x, d) == IF x = None THEN d.entity ELSE x
             claimed == {RowOf("claims", r.from) : r \in claims}
             asserted(x) ==
               {[About("relationship_assertions", d.from, d.entity) EXCEPT !.target = object(x, d)] :
                  d \in decided}
  <1>1. PICK x \in Entity \cup {None} : Insert(claimed \cup asserted(x))
    BY DEF MaterializeAssertions
  <1>2. UNCHANGED <<current, selected>> BY DEF MaterializeAssertions
  <1>3. \A r \in decided \cup claims :
          /\ r \in rows /\ r \in Row /\ r.from \in Candidate
          /\ current[r.from.source.doc] = r.from.source.text
    BY DEF NotYetIn, RowsOfSources, RowsOfTheirKind, NoTextOutlivesItsSource, ParsedTable
  <1>4. \A r \in claimed : /\ r \in Row /\ r.table \notin ParsedTable /\ r.from \in Candidate
                           /\ current[r.from.source.doc] = r.from.source.text
    BY <1>3 DEF Row, RowOf, Table, CanonicalTable, ParsedTable, Candidate
  <1>5. \A r \in asserted(x) : /\ r \in Row /\ r.table \notin ParsedTable
                               /\ r.from \in Candidate
                               /\ current[r.from.source.doc] = r.from.source.text
    <2> SUFFICES ASSUME NEW d \in decided
                 PROVE  LET r == [About("relationship_assertions", d.from, d.entity)
                                    EXCEPT !.target = object(x, d)]
                        IN  /\ r \in Row /\ r.table \notin ParsedTable
                            /\ r.from \in Candidate
                            /\ current[r.from.source.doc] = r.from.source.text
      OBVIOUS
    <2>1. d.entity \in Candidate BY <1>3 DEF Row
    <2>2. object(x, d) \in Candidate BY <2>1, EntitiesAreCurrent
    <2>3. d.from \in Candidate /\ current[d.from.source.doc] = d.from.source.text BY <1>3
    <2> HIDE DEF decided, object
    <2> QED BY <2>1, <2>2, <2>3
          DEF Row, RowOf, About, Table, CanonicalTable, ParsedTable, Candidate
  <1> DEFINE new == claimed \cup asserted(x)
  <1>6. /\ new \in SUBSET Row
        /\ \A r \in new : /\ r.table \notin ParsedTable /\ r.from \in Candidate
                          /\ current[r.from.source.doc] = r.from.source.text
    <2> HIDE DEF claimed, asserted
    <2> QED BY <1>4, <1>5
  <1>7. Insert(new) BY <1>1
  <1> HIDE DEF new
  <1>8. RowsOfSources' /\ rows \subseteq rows'
    BY <1>2, <1>6, <1>7, InsertStep DEF RowsOfSources
  <1> QED BY <1>8 DEF OwnGoes

\* Every step keeps the invariant and takes only its own.
LEMMA RowsStep ==
  ASSUME RowsOfSources, [Next]_vars
  PROVE  RowsOfSources' /\ [OwnGoes]_vars
  <1>1. CASE Next
    <2>1. ASSUME NEW d \in Doc, DeleteDocumentSource(d) PROVE RowsOfSources' /\ OwnGoes
      BY <2>1, DeleteStep
    <2>2. ASSUME NEW d \in Doc, NEW t \in Text, StoreDocument(d, t)
          PROVE  RowsOfSources' /\ OwnGoes
      BY <2>2, StoreStep
    <2>3. ASSUME NEW run \in Run, PrepareRun(run) \/ MaterializeAssertions(run)
          PROVE  RowsOfSources' /\ OwnGoes
      BY <2>3, PrepareStep, MaterializeStep
    <2>4. ASSUME NEW k \in Candidate, RecordSuccess(k) \/ Resolve(k)
          PROVE  RowsOfSources' /\ OwnGoes
      BY <2>4, RecordStep, ResolveStep
    <2> QED BY <1>1, <2>1, <2>2, <2>3, <2>4 DEF Next
  <1>2. CASE UNCHANGED vars
    BY <1>2 DEF vars, RowsOfSources, KeysHold, Sound, RowsOfTheirKind,
                NoTextOutlivesItsSource
  <1> QED BY <1>1, <1>2

LEMMA RowsHaveSources == Spec => []RowsOfSources
  BY InitRows, RowsStep, PTL DEF Spec

\* Of a text that is superseded or deleted nothing is kept in any derived table (docs/adr/0005),
\* for all documents, texts and runs: the delete of the parsed rows reaches, over the
\* foreign keys of the migrations, whatever extraction and resolution made of them.
THEOREM NothingOutlivesItsSource == Spec => []NoTextOutlivesItsSource
  BY RowsHaveSources, PTL DEF RowsOfSources

\* Deleting a version's rows, or recording a chunk again, takes nothing that is neither
\* made of what is deleted nor about an entity created from it, for all documents, texts
\* and runs.
THEOREM CascadesTakeTheirOwn == Spec => OnlyItsOwnGoes
  <1>1. RowsOfSources /\ [Next]_vars => [OwnGoes]_vars BY RowsStep
  <1>2. Spec => [][OwnGoes]_vars BY <1>1, RowsHaveSources, PTL DEF Spec
  <1> QED BY <1>2 DEF OnlyItsOwnGoes, OwnGoes
-----------------------------------------------------------------------------
(***************************************************************************)
(* Resolutions stay whole.  A cascade takes a decision and what came with  *)
(* it together, since it has reached the candidate or the entity of both.  *)
(***************************************************************************)

\* What a decision for an entity comes with, or leads to.
Attribute == {"entity_aliases", "entity_identifiers", "entity_mentions"}
Attached == Attribute \cup {"relationship_assertions"}

\* Only these name an entity, and each of them names one.
ShapedIn(R) ==
  \A r \in R :
    /\ r.table \notin Attached \cup {"resolution_decisions", "resolution_review_candidates"}
         => r = RowOf(r.table, r.from)
    /\ r.table \in Attribute \cup {"resolution_decisions"} => r = About(r.table, r.from, r.entity)
    /\ r.table \in Attached => r.entity # None

\* They are of a decision, and a decision has an alias and a mention.
LinkedIn(R) ==
  \A r \in R :
    /\ r.table \in Attached => About("resolution_decisions", r.from, r.entity) \in R
    /\ r.table = "resolution_decisions" /\ r.entity # None
         => \A t \in {"entity_aliases", "entity_mentions"} : About(t, r.from, r.entity) \in R

\* One decision, and one assertion, of a candidate.
OnceIn(R) ==
  \A r, q \in R :
    r.table = q.table /\ r.from = q.from
    /\ r.table \in {"resolution_decisions", "relationship_assertions"} => r = q

WholeIn(R) == ShapedIn(R) /\ LinkedIn(R) /\ OnceIn(R)

\* A delete begins with parsed rows, or with all that was extracted from a chunk.
Begins(S) ==
  \A r \in S \cap rows :
    \/ r.table \in ParsedTable
    \/ /\ r.table \in ExtractedTable
       /\ \A q \in rows : q.table \in ExtractedTable /\ q.from = r.from => q \in S

\* The keys of a decision lead to its candidate and its entity; what came with it has such
\* keys too, and others that lead to what the candidate refers to itself.
LEMMA ResolutionKeys ==
  /\ \A key \in KeysOf["resolution_decisions"] :
       \/ key.to = "entity_candidates" /\ key.by = "candidate"
       \/ key.to = "entities" /\ key.by = "entity"
  /\ \A key \in KeysOf["entity_aliases"] \cup KeysOf["entity_mentions"] :
       \/ key.to = "entities" /\ key.by = "entity"
       \/ key.to \in {"entity_candidates", "evidence_spans"} /\ key.by = "candidate"
       \/ key.to = "chunks" /\ key.by = "version"
  /\ \A key \in KeysOf["entity_candidates"] :
       \/ key.to = "chunks" /\ key.by = "version"
       \/ key.to = "evidence_spans" /\ key.by = "candidate"
  <1> USE DEF KeysOf, Schema, Keys, ParsedTable, ExtractedTable, CanonicalTable, Table
  <1>1. ASSUME NEW key \in Schema, key.of = "resolution_decisions"
        PROVE  \/ key.to = "entity_candidates" /\ key.by = "candidate"
               \/ key.to = "entities" /\ key.by = "entity"
    <2>1. key \in DecisionKeys
      BY <1>1 DEF ParsedKeys, EvidenceKeys, CandidateKeys, EntityKeys, AttributeKeys,
                  AssertionKeys
    <2> QED BY <1>1, <2>1 DEF DecisionKeys
  <1>2. ASSUME NEW key \in Schema, key.of \in {"entity_aliases", "entity_mentions"}
        PROVE  \/ key.to = "entities" /\ key.by = "entity"
               \/ key.to \in {"entity_candidates", "evidence_spans"} /\ key.by = "candidate"
               \/ key.to = "chunks" /\ key.by = "version"
    <2>1. key \in AttributeKeys
      BY <1>2 DEF ParsedKeys, EvidenceKeys, CandidateKeys, EntityKeys, DecisionKeys,
                  AssertionKeys
    <2> QED BY <1>2, <2>1 DEF AttributeKeys
  <1>3. ASSUME NEW key \in Schema, key.of = "entity_candidates"
        PROVE  \/ key.to = "chunks" /\ key.by = "version"
               \/ key.to = "evidence_spans" /\ key.by = "candidate"
    <2>1. key \in CandidateKeys
      BY <1>3 DEF ParsedKeys, EvidenceKeys, AttributeKeys, EntityKeys, DecisionKeys,
                  AssertionKeys
    <2> QED BY <1>3, <2>1 DEF CandidateKeys
  <1> QED BY <1>1, <1>2, <1>3

LEMMA ResolutionHasKeys ==
  /\ \A t \in Attached \cup {"resolution_decisions"} :
       [of |-> t, to |-> "entities", by |-> "entity"] \in KeysOf[t]
  /\ \A t \in Attribute \cup {"resolution_decisions"} :
       [of |-> t, to |-> "entity_candidates", by |-> "candidate"] \in KeysOf[t]
  /\ [of |-> "relationship_assertions", to |-> "relationship_candidates", by |-> "candidate"]
       \in KeysOf["relationship_assertions"]
  /\ \A t \in ExtractedTable \ {"evidence_spans"} :
       /\ [of |-> t, to |-> "chunks", by |-> "version"] \in KeysOf[t]
       /\ [of |-> t, to |-> "evidence_spans", by |-> "candidate"] \in KeysOf[t]
  <1> USE DEF KeysOf, Schema, Keys, ParsedTable, ExtractedTable, CanonicalTable, Table, Attached,
              Attribute
  <1>1. ASSUME NEW t \in Attached \cup {"resolution_decisions"}
        PROVE  [of |-> t, to |-> "entities", by |-> "entity"] \in KeysOf[t]
    <2>1. [of |-> t, to |-> "entities", by |-> "entity"]
            \in AttributeKeys \cup AssertionKeys \cup DecisionKeys
      BY <1>1 DEF AttributeKeys, AssertionKeys, DecisionKeys
    <2> QED BY <1>1, <2>1
  <1>2. ASSUME NEW t \in Attribute \cup {"resolution_decisions"}
        PROVE  [of |-> t, to |-> "entity_candidates", by |-> "candidate"] \in KeysOf[t]
    <2>1. [of |-> t, to |-> "entity_candidates", by |-> "candidate"]
            \in AttributeKeys \cup DecisionKeys
      BY <1>2 DEF AttributeKeys, DecisionKeys
    <2> QED BY <1>2, <2>1
  <1>3. [of |-> "relationship_assertions", to |-> "relationship_candidates", by |-> "candidate"]
          \in KeysOf["relationship_assertions"]
    BY DEF AssertionKeys
  <1>4. ASSUME NEW t \in ExtractedTable \ {"evidence_spans"}
        PROVE  /\ [of |-> t, to |-> "chunks", by |-> "version"] \in KeysOf[t]
               /\ [of |-> t, to |-> "evidence_spans", by |-> "candidate"] \in KeysOf[t]
    <2>1. /\ [of |-> t, to |-> "chunks", by |-> "version"] \in CandidateKeys
          /\ [of |-> t, to |-> "evidence_spans", by |-> "candidate"] \in CandidateKeys
      BY <1>4 DEF CandidateKeys
    <2> QED BY <1>4, <2>1
  <1> QED BY <1>1, <1>2, <1>3, <1>4

\* What a cascade takes, it begins with or refers to something else that it takes.
LEMMA CascadeHasReasons ==
  ASSUME rows \subseteq Row, NEW S, NEW r \in Cascade(S), r \notin S
  PROVE  \E x \in Cascade(S) : RefersTo(r, x)
  <1> DEFINE K == {q \in Cascade(S) : q \in S \/ \E x \in Cascade(S) : RefersTo(q, x)}
  <1>1. K \in SUBSET rows /\ S \cap rows \subseteq K BY CascadeIsClosed
  <1>2. ASSUME NEW q \in rows, NEW x \in K, RefersTo(q, x) PROVE q \in K
    <2>1. q \in Cascade(S) BY <1>2, CascadeIsClosed
    <2> QED BY <1>2, <2>1
  <1> HIDE DEF K
  <1>3. Cascade(S) \subseteq K BY <1>1, <1>2, CascadeWithin
  <1> QED BY <1>3 DEF K

\* All that was extracted from a chunk goes with its entity candidates.
LEMMA ExtractedGoTogether ==
  ASSUME RowsOfSources, NEW S, Begins(S), NEW k,
         RowOf("entity_candidates", k) \in Cascade(S),
         NEW t \in ExtractedTable \ {"evidence_spans"}, RowOf(t, k) \in rows
  PROVE  RowOf(t, k) \in Cascade(S)
  <1> DEFINE c == RowOf("entity_candidates", k)
  <1>0. /\ c.table = "entity_candidates" /\ c.from = k
        /\ RowOf(t, k).table = t /\ RowOf(t, k).from = k
    BY DEF RowOf
  <1> HIDE DEF c
  <1>1. c \in Cascade(S) /\ Cascade(S) \subseteq rows /\ rows \subseteq Row
    BY CascadeIsClosed DEF RowsOfSources, c
  <1>2. CASE c \in S
    <2>1. c.table \notin ParsedTable BY <1>0 DEF ParsedTable
    <2>2. RowOf(t, k) \in S BY <1>0, <1>1, <1>2, <2>1 DEF Begins
    <2> QED BY <1>1, <2>2, CascadeIsClosed
  <1>3. CASE c \notin S
    <2>1. PICK x \in Cascade(S) : RefersTo(c, x) BY <1>1, <1>3, CascadeHasReasons
    <2>2. PICK key \in KeysOf["entity_candidates"] : x.table = key.to /\ x.from = Named(c, key)
      BY <1>0, <2>1 DEF RefersTo
    <2> DEFINE own == [of |-> t, to |-> key.to, by |-> key.by]
    <2>3. own \in KeysOf[t] BY <2>2, ResolutionKeys, ResolutionHasKeys
    <2>4. Named(RowOf(t, k), own) = Named(c, key)
      BY <1>0, <2>2, NamedIs, ResolutionKeys DEF ParsedTable
    <2>5. RefersTo(RowOf(t, k), x) BY <1>0, <2>2, <2>3, <2>4 DEF RefersTo
    <2> QED BY <1>1, <2>1, <2>5, CascadeIsClosed
  <1> QED BY <1>2, <1>3
\* What is attached to an entity goes with the decision for it ...
LEMMA AttachedGoes ==
  ASSUME RowsOfSources, ShapedIn(rows), NEW S, Begins(S),
         NEW r \in rows, r.table \in Attached,
         About("resolution_decisions", r.from, r.entity) \in Cascade(S)
  PROVE  r \in Cascade(S)
  <1> DEFINE d == About("resolution_decisions", r.from, r.entity)
  <1>1. /\ d.table = "resolution_decisions" /\ d.from = r.from /\ d.entity = r.entity
    BY DEF About, RowOf
  <1> HIDE DEF d
  <1>2. /\ d \in Cascade(S) /\ Cascade(S) \subseteq rows /\ rows \subseteq Row
        /\ r.from \in Origin
    BY CascadeIsClosed DEF RowsOfSources, d, Row
  <1>3. d \notin S
    BY <1>1, <1>2 DEF Begins, ParsedTable, ExtractedTable
  <1>4. PICK x \in Cascade(S) : RefersTo(d, x) BY <1>2, <1>3, CascadeHasReasons
  <1>5. PICK key \in KeysOf["resolution_decisions"] : x.table = key.to /\ x.from = Named(d, key)
    BY <1>1, <1>4 DEF RefersTo
  <1>6. ASSUME NEW own \in KeysOf[r.table], NEW y \in Cascade(S), y.table = own.to,
               y.from = Named(r, own)
        PROVE  r \in Cascade(S)
    BY <1>2, <1>6, CascadeIsClosed DEF RefersTo
  <1>7. CASE key.to = "entities" /\ key.by = "entity"
    <2>1. x.from = r.entity BY <1>1, <1>5, <1>7, NamedIs
    <2> DEFINE own == [of |-> r.table, to |-> "entities", by |-> "entity"]
    <2>2. own \in KeysOf[r.table] /\ Named(r, own) = r.entity BY ResolutionHasKeys, NamedIs
    <2> QED BY <1>5, <1>6, <1>7, <2>1, <2>2
  <1>8. CASE key.to = "entity_candidates" /\ key.by = "candidate"
    <2>1. x.from = r.from BY <1>1, <1>5, <1>8, NamedIs
    <2>2. CASE r.table \in Attribute
      <3> DEFINE own == [of |-> r.table, to |-> "entity_candidates", by |-> "candidate"]
      <3>1. own \in KeysOf[r.table] /\ Named(r, own) = r.from
        BY <2>2, ResolutionHasKeys, NamedIs
      <3> QED BY <1>5, <1>6, <1>8, <2>1, <3>1
    <2>3. CASE r.table = "relationship_assertions"
      <3> DEFINE own == [of |-> r.table, to |-> "relationship_candidates", by |-> "candidate"]
                 y == RowOf("relationship_candidates", r.from)
      <3>1. own \in KeysOf[r.table] /\ Named(r, own) = r.from
        BY <2>3, ResolutionHasKeys, NamedIs
      <3>2. y \in rows
        BY <1>2, <3>1, RetentionAssumption DEF RowsOfSources, KeysHold, Sound
      <3>3. x = RowOf("entity_candidates", r.from)
        <4>1. x.table = "entity_candidates" BY <1>5, <1>8
        <4> QED BY <1>2, <2>1, <4>1 DEF ShapedIn, Attached, Attribute
      <3>4. y \in Cascade(S) BY <3>2, <3>3, ExtractedGoTogether DEF ExtractedTable
      <3>5. y.table = own.to /\ y.from = r.from BY DEF RowOf
      <3> QED BY <1>6, <3>1, <3>4, <3>5
    <2> QED BY <2>2, <2>3 DEF Attached
  <1> QED BY <1>5, <1>7, <1>8, ResolutionKeys

\* ... and the decision with its alias or mention.
LEMMA DecisionGoes ==
  ASSUME RowsOfSources, ShapedIn(rows), NEW S, Begins(S),
         NEW r \in Cascade(S), r.table \in {"entity_aliases", "entity_mentions"},
         About("resolution_decisions", r.from, r.entity) \in rows
  PROVE  About("resolution_decisions", r.from, r.entity) \in Cascade(S)
  <1> DEFINE d == About("resolution_decisions", r.from, r.entity)
             c == RowOf("entity_candidates", r.from)
  <1>1. /\ d.table = "resolution_decisions" /\ d.from = r.from /\ d.entity = r.entity
        /\ c.table = "entity_candidates" /\ c.from = r.from
    BY DEF About, RowOf
  <1>2. /\ d \in rows /\ Cascade(S) \subseteq rows /\ rows \subseteq Row /\ r.from \in Origin
        /\ r \in rows
    BY CascadeIsClosed DEF RowsOfSources, Row
  <1> SUFFICES d \in Cascade(S) OBVIOUS
  <1> HIDE DEF d
  <1>3. r \notin S BY <1>2 DEF Begins, ParsedTable, ExtractedTable
  <1>4. PICK x \in Cascade(S) : RefersTo(r, x) BY <1>2, <1>3, CascadeHasReasons
  <1>5. PICK key \in KeysOf[r.table] : x.table = key.to /\ x.from = Named(r, key)
    BY <1>4 DEF RefersTo
  <1>6. /\ [of |-> r.table, to |-> "entity_candidates", by |-> "candidate"] \in KeysOf[r.table]
        /\ [of |-> d.table, to |-> "entity_candidates", by |-> "candidate"] \in KeysOf[d.table]
        /\ [of |-> d.table, to |-> "entities", by |-> "entity"] \in KeysOf[d.table]
    BY <1>1, ResolutionHasKeys DEF Attribute
  <1>7. ASSUME NEW y \in Cascade(S),
               \/ y.table = "entity_candidates" /\ y.from = r.from
               \/ y.table = "entities" /\ y.from = r.entity
        PROVE  d \in Cascade(S)
    <2>1. RefersTo(d, y)
      <3>1. CASE y.table = "entity_candidates" /\ y.from = r.from
        <4> DEFINE own == [of |-> d.table, to |-> "entity_candidates", by |-> "candidate"]
        <4>1. Named(d, own) = r.from BY <1>1, NamedIs
        <4> QED BY <1>6, <3>1, <4>1 DEF RefersTo
      <3>2. CASE y.table = "entities" /\ y.from = r.entity
        <4> DEFINE own == [of |-> d.table, to |-> "entities", by |-> "entity"]
        <4>1. Named(d, own) = r.entity BY <1>1, NamedIs
        <4> QED BY <1>6, <3>2, <4>1 DEF RefersTo
      <3> QED BY <1>7, <3>1, <3>2
    <2> QED BY <1>2, <2>1, CascadeIsClosed
  <1>8. CASE key.by = "entity" \/ key.to = "entity_candidates"
    BY <1>5, <1>7, <1>8, NamedIs, ResolutionKeys
  <1>9. CASE (key.to = "evidence_spans" /\ key.by = "candidate")
             \/ (key.to = "chunks" /\ key.by = "version")
    <2> DEFINE ref == [of |-> r.table, to |-> "entity_candidates", by |-> "candidate"]
               own == [of |-> "entity_candidates", to |-> key.to, by |-> key.by]
    <2>1. c \in rows
      <3>1. Named(r, ref) = r.from BY NamedIs
      <3> QED BY <1>2, <1>6, <3>1, RetentionAssumption DEF RowsOfSources, KeysHold, Sound
    <2>2. own \in KeysOf["entity_candidates"]
      BY <1>9, ResolutionHasKeys DEF ExtractedTable
    <2>3. Named(c, own) = Named(r, key) BY <1>1, <1>9, NamedIs DEF ParsedTable
    <2> HIDE DEF c
    <2>4. RefersTo(c, x) BY <1>1, <1>5, <2>2, <2>3 DEF RefersTo
    <2>5. c \in Cascade(S) BY <1>2, <1>4, <2>1, <2>4, CascadeIsClosed
    <2> QED BY <1>1, <1>7, <2>5
  <1> QED BY <1>5, <1>8, <1>9, ResolutionKeys

LEMMA WholeSurvives ==
  ASSUME RowsOfSources, WholeIn(rows), NEW S, Begins(S)
  PROVE  WholeIn(rows \ Cascade(S))
  <1> DEFINE R == rows \ Cascade(S)
  <1>1. ShapedIn(R) /\ OnceIn(R) BY DEF WholeIn, ShapedIn, OnceIn
  <1>2. ASSUME NEW r \in R, r.table \in Attached
        PROVE  About("resolution_decisions", r.from, r.entity) \in R
    <2>1. About("resolution_decisions", r.from, r.entity) \in rows
      BY <1>2 DEF WholeIn, LinkedIn
    <2> QED BY <1>2, <2>1, AttachedGoes DEF WholeIn
  <1>3. ASSUME NEW r \in R, r.table = "resolution_decisions", r.entity # None,
               NEW t \in {"entity_aliases", "entity_mentions"}
        PROVE  About(t, r.from, r.entity) \in R
    <2> DEFINE a == About(t, r.from, r.entity)
    <2>1. a \in rows BY <1>3 DEF WholeIn, LinkedIn
    <2>2. a.table = t /\ a.from = r.from /\ a.entity = r.entity BY DEF About, RowOf
    <2>3. r = About("resolution_decisions", r.from, r.entity)
      BY <1>3 DEF WholeIn, ShapedIn
    <2> HIDE DEF a
    <2>4. a \notin Cascade(S)
      <3> SUFFICES ASSUME a \in Cascade(S) PROVE r \in Cascade(S) OBVIOUS
      <3> QED BY <2>2, <2>3, DecisionGoes DEF WholeIn
    <2> QED BY <2>1, <2>4 DEF a
  <1>4. LinkedIn(R) BY <1>2, <1>3 DEF LinkedIn
  <1> QED BY <1>1, <1>4 DEF WholeIn

\* Rows that neither name an entity nor decide do no harm.
LEMMA PlainRowsKeepWhole ==
  ASSUME NEW R, WholeIn(R), NEW new,
         \A r \in new :
           /\ r.table \notin Attached \cup {"resolution_decisions", "resolution_review_candidates"}
           /\ r = RowOf(r.table, r.from)
  PROVE  WholeIn(R \cup new)
  BY DEF WholeIn, ShapedIn, LinkedIn, OnceIn, Attached, Attribute
RetentionInv ==
  /\ RowsOfSources /\ WholeIn(rows) /\ struck \subseteq Origin
  /\ scans \in 0 .. MaxScans /\ answers \in 0 .. MaxAnswers

LEMMA InitWhole == Init => RetentionInv
  BY InitRows, RetentionAssumption
     DEF Init, RetentionInv, WholeIn, ShapedIn, LinkedIn, OnceIn

\* Parsed rows may be deleted, and made again.
LEMMA ParsedKeepWhole ==
  ASSUME RowsOfSources, WholeIn(rows), NEW old \in SUBSET Source, NEW new,
         new = {} \/ \E s \in Source : new = Parsed(s)
  PROVE  WholeIn((rows \ Cascade(UNION {Parsed(v) : v \in old})) \cup new)
  <1> DEFINE S == UNION {Parsed(v) : v \in old}
  <1>1. Begins(S)
    <2>1. \A r \in S : r.table \in ParsedTable BY ParsedHolds
    <2> QED BY <2>1 DEF Begins
  <1> HIDE DEF S
  <1>2. WholeIn(rows \ Cascade(S)) BY <1>1, WholeSurvives
  <1>3. \A r \in new :
          /\ r.table \notin Attached \cup {"resolution_decisions", "resolution_review_candidates"}
          /\ r = RowOf(r.table, r.from)
    BY DEF Parsed, RowOf, ParsedTable, Attached, Attribute
  <1>4. WholeIn((rows \ Cascade(S)) \cup new) BY <1>2, <1>3, PlainRowsKeepWhole
  <1> QED BY <1>4 DEF S

LEMMA RecordKeepsWhole ==
  ASSUME RowsOfSources, WholeIn(rows), NEW k \in Candidate, RecordSuccess(k)
  PROVE  WholeIn(rows')
  <1> DEFINE S == AnswerBefore(k)
             new == {RowOf(t, k) : t \in ExtractedTable}
  <1>1. Begins(S) BY DEF Begins, AnswerBefore
  <1>2. WholeIn(rows \ Cascade(S)) BY <1>1, WholeSurvives
  <1>3. \A r \in new :
          /\ r.table \notin Attached \cup {"resolution_decisions", "resolution_review_candidates"}
          /\ r = RowOf(r.table, r.from)
    BY DEF RowOf, ExtractedTable, Attached, Attribute
  <1>4. rows' = (rows \ Cascade(S)) \cup new BY DEF RecordSuccess
  <1> HIDE DEF S, new
  <1> QED BY <1>2, <1>3, <1>4, PlainRowsKeepWhole

LEMMA PrepareKeepsWhole ==
  ASSUME RowsOfSources, WholeIn(rows), NEW run \in Run, PrepareRun(run)
  PROVE  WholeIn(rows')
  <1>1. PICK S \in SUBSET Source :
          Insert({RowOf("extraction_chunks", k) : k \in {[source |-> s, run |-> run] : s \in S}})
    BY DEF PrepareRun
  <1> DEFINE chosen == {[source |-> s, run |-> run] : s \in S}
             new == {RowOf("extraction_chunks", k) : k \in chosen}
  <1>2. rows' = rows \cup new BY <1>1 DEF Insert
  <1>3. \A r \in new :
          /\ r.table \notin Attached \cup {"resolution_decisions", "resolution_review_candidates"}
          /\ r = RowOf(r.table, r.from)
    <2> HIDE DEF chosen
    <2> QED BY DEF RowOf, Attached, Attribute
  <1> HIDE DEF new
  <1> QED BY <1>2, <1>3, PlainRowsKeepWhole

\* A candidate that is not decided has nothing attached to an entity yet.
LEMMA ResolveKeepsWhole ==
  ASSUME RowsOfSources, WholeIn(rows), NEW k \in Candidate, Resolve(k)
  PROVE  WholeIn(rows')
  <1>1. \A r \in rows : r.table = "resolution_decisions" => r.from # k
    BY DEF Resolve, Decided
  <1>2. CASE Insert({RowOf("resolution_decisions", k)})
    <2>1. rows' = rows \cup {RowOf("resolution_decisions", k)} BY <1>2 DEF Insert
    <2>2. /\ RowOf("resolution_decisions", k).table = "resolution_decisions"
          /\ RowOf("resolution_decisions", k).from = k
          /\ RowOf("resolution_decisions", k).entity = None
          /\ RowOf("resolution_decisions", k) = About("resolution_decisions", k, None)
      BY DEF RowOf, About
    <2> QED BY <1>1, <2>1, <2>2 DEF WholeIn, ShapedIn, LinkedIn, OnceIn, Attached, Attribute
  <1>3. ASSUME NEW e \in Identified \cup {k}, NEW identified \in SUBSET {"entity_identifiers"},
               NEW named \in SUBSET (Entity \ {k}),
               Insert({RowOf("entities", e)}
                 \cup {About(t, k, e) : t \in {"entity_aliases", "entity_mentions",
                                               "resolution_decisions"} \cup identified}
                 \cup {[About("resolution_review_candidates", k, e) EXCEPT !.target = x] :
                         x \in named})
        PROVE  WholeIn(rows')
    <2> DEFINE T == {"entity_aliases", "entity_mentions", "resolution_decisions"} \cup identified
               own == {About(t, k, e) : t \in T}
               new == rows' \ rows
    <2>1. /\ rows' = rows \cup new /\ own \subseteq rows'
          /\ \A r \in new : \/ r = RowOf("entities", e)
                            \/ \E t \in T : r = About(t, k, e)
                            \/ r.table = "resolution_review_candidates"
      BY <1>3 DEF Insert, About, RowOf
    <2>2. e # None
      <3>1. e \in Origin BY EntitiesAreCurrent DEF Identified, Candidate
      <3> QED BY <3>1, RetentionAssumption
    <2>3. /\ RowOf("entities", e).table = "entities"
          /\ RowOf("entities", e) = RowOf("entities", RowOf("entities", e).from)
          /\ \A t \in T : LET a == About(t, k, e) IN a.table = t /\ a.from = k /\ a.entity = e
      BY DEF RowOf, About
    <2>4. /\ T \subseteq Attribute \cup {"resolution_decisions"}
          /\ {"entity_aliases", "entity_mentions", "resolution_decisions"} \subseteq T
      BY DEF Attribute
    <2> HIDE DEF T, new
    <2>5. ShapedIn(rows')
      <3>1. ASSUME NEW r \in new
            PROVE  /\ r.table \notin Attached \cup {"resolution_decisions",
                                                   "resolution_review_candidates"}
                        => r = RowOf(r.table, r.from)
                   /\ r.table \in Attribute \cup {"resolution_decisions"}
                        => r = About(r.table, r.from, r.entity)
                   /\ r.table \in Attached => r.entity # None
        <4>1. CASE r = RowOf("entities", e) BY <4>1, <2>3 DEF Attached, Attribute
        <4>2. ASSUME NEW t \in T, r = About(t, k, e)
              PROVE  /\ r.table = t /\ r.from = k /\ r.entity = e
                     /\ r.table \in Attribute \cup {"resolution_decisions"}
          BY <2>3, <2>4, <4>2
        <4>3. CASE r.table = "resolution_review_candidates" BY <4>3 DEF Attached, Attribute
        <4> QED BY <2>1, <2>2, <4>1, <4>2, <4>3 DEF Attached
      <3> QED BY <2>1, <3>1 DEF WholeIn, ShapedIn
    <2>6. \A r \in new :
            r.table \in Attached \cup {"resolution_decisions"} => r.from = k /\ r.entity = e
                                       /\ r.table # "relationship_assertions"
      BY <2>1, <2>3, <2>4 DEF Attached, Attribute
    <2>7. LinkedIn(rows')
      <3>1. \A t \in T : About(t, k, e) \in rows' BY <2>1
      <3> QED BY <2>1, <2>4, <2>6, <3>1 DEF WholeIn, LinkedIn
    <2>8. OnceIn(rows')
      <3> SUFFICES ASSUME NEW r \in rows', NEW q \in rows', r.table = q.table, r.from = q.from,
                          r.table \in {"resolution_decisions", "relationship_assertions"}
                   PROVE  r = q
        BY DEF OnceIn
      <3>1. CASE r \in rows /\ q \in rows BY <3>1 DEF WholeIn, OnceIn
      <3>2. CASE r \in new /\ q \in new
        BY <2>5, <2>6, <3>2 DEF ShapedIn
      <3>3. CASE (r \in rows /\ q \in new) \/ (r \in new /\ q \in rows)
        BY <1>1, <2>6, <3>3 DEF Attached
      <3> QED BY <2>1, <3>1, <3>2, <3>3
    <2> QED BY <2>5, <2>7, <2>8 DEF WholeIn
  <1> QED BY <1>2, <1>3 DEF Resolve

\* An assertion is of a decision, and none of a candidate that has one.
LEMMA MaterializeKeepsWhole ==
  ASSUME RowsOfSources, WholeIn(rows), NEW run \in Run, MaterializeAssertions(run)
  PROVE  WholeIn(rows')
  <1> DEFINE decided == {r \in NotYetIn(run, "relationship_assertions") :
                           r.table = "resolution_decisions" /\ r.entity # None}
             claims == {r \in NotYetIn(run, "claims") : r.table = "claim_candidates"}
             object(x, d) == IF x = None THEN d.entity ELSE x
             claimed == {RowOf("claims", r.from) : r \in claims}
             asserted(x) ==
               {[About("relationship_assertions", d.from, d.entity) EXCEPT !.target = object(x, d)] :
                  d \in decided}
  <1>1. PICK x \in Entity \cup {None} : Insert(claimed \cup asserted(x))
    BY DEF MaterializeAssertions
  <1>2. rows' = (rows \cup claimed) \cup asserted(x) BY <1>1 DEF Insert
  <1>3. WholeIn(rows \cup claimed)
    <2>1. \A r \in claimed :
            /\ r.table \notin Attached \cup {"resolution_decisions",
                                            "resolution_review_candidates"}
            /\ r = RowOf(r.table, r.from)
      BY DEF RowOf, Attached, Attribute
    <2> HIDE DEF claimed
    <2> QED BY <2>1, PlainRowsKeepWhole
  <1>4. \A d \in decided :
          /\ d \in rows /\ d.table = "resolution_decisions" /\ d.entity # None
          /\ \A r \in rows : r.table = "relationship_assertions" => r.from # d.from
    BY DEF NotYetIn
  <1>5. \A r \in claimed : r.table = "claims" BY DEF RowOf
  <1>6. \A r \in asserted(x) :
          \E d \in decided : /\ r.table = "relationship_assertions"
                             /\ r.from = d.from /\ r.entity = d.entity
                             /\ r = [About("relationship_assertions", d.from, d.entity) EXCEPT
                                       !.target = object(x, d)]
    BY DEF RowOf, About
  <1> DEFINE R == rows \cup claimed
             new == asserted(x)
  <1> HIDE DEF decided, claimed, asserted, R, new
  <1>7. ShapedIn(R \cup new)
    BY <1>3, <1>4, <1>6 DEF WholeIn, ShapedIn, Attached, Attribute, R, new
  <1>8. LinkedIn(R \cup new)
    <2>1. ASSUME NEW r \in new
          PROVE  /\ r.table = "relationship_assertions"
                 /\ About("resolution_decisions", r.from, r.entity) \in R
      <3>1. PICK d \in decided : /\ r.table = "relationship_assertions"
                                 /\ r.from = d.from /\ r.entity = d.entity
        BY <1>6 DEF new
      <3>2. d = About("resolution_decisions", d.from, d.entity)
        BY <1>4 DEF WholeIn, ShapedIn
      <3> QED BY <1>4, <3>1, <3>2 DEF R
    <2> QED BY <1>3, <2>1 DEF WholeIn, LinkedIn, R
  <1>9. OnceIn(R \cup new)
    <2> SUFFICES ASSUME NEW r \in R \cup new, NEW q \in R \cup new,
                        r.table = q.table, r.from = q.from,
                        r.table \in {"resolution_decisions", "relationship_assertions"}
                 PROVE  r = q
      BY DEF OnceIn
    <2>1. CASE r \in R /\ q \in R BY <1>3, <2>1 DEF WholeIn, OnceIn, R
    <2>2. CASE r \in new /\ q \in new
      <3>1. PICK d \in decided : /\ r.from = d.from
                                 /\ r = [About("relationship_assertions", d.from, d.entity) EXCEPT
                                           !.target = object(x, d)]
        BY <1>6, <2>2 DEF new
      <3>2. PICK e \in decided : /\ q.from = e.from
                                 /\ q = [About("relationship_assertions", e.from, e.entity) EXCEPT
                                           !.target = object(x, e)]
        BY <1>6, <2>2 DEF new
      <3>3. d = e BY <1>4, <3>1, <3>2 DEF WholeIn, OnceIn
      <3> QED BY <3>1, <3>2, <3>3
    <2>3. \A a \in new, b \in R : a.table = b.table => a.from # b.from
      BY <1>4, <1>5, <1>6 DEF R, new
    <2> QED BY <2>1, <2>2, <2>3
  <1> QED BY <1>2, <1>7, <1>8, <1>9 DEF WholeIn, R, new
LEMMA RetentionStep == RetentionInv /\ [Next]_vars => RetentionInv'
  <1> SUFFICES ASSUME RetentionInv, [Next]_vars PROVE RetentionInv' OBVIOUS
  <1> USE DEF RetentionInv
  <1>1. RowsOfSources' BY RowsStep
  <1>2. ASSUME NEW d \in Doc, DeleteDocumentSource(d) PROVE RetentionInv'
    <2>1. rows' = (rows \ Cascade(UNION {Parsed(v) : v \in VersionsOf(d)})) \cup {}
      BY <1>2 DEF DeleteDocumentSource
    <2>2. VersionsOf(d) \in SUBSET Source BY DEF VersionsOf
    <2>3. WholeIn(rows') BY <2>1, <2>2, ParsedKeepWhole
    <2>4. /\ struck' \subseteq Origin /\ scans < MaxScans /\ scans' = scans + 1
          /\ answers' = answers
      BY <1>2 DEF DeleteDocumentSource, Scan, OriginsIn
    <2> QED BY <1>1, <2>3, <2>4, RetentionAssumption
  <1>3. ASSUME NEW d \in Doc, NEW t \in Text, StoreDocument(d, t) PROVE RetentionInv'
    <2> DEFINE s == [doc |-> d, text |-> t]
               old == VersionsOf(d) \cup {s}
    <2>1. rows' = (rows \ Cascade(UNION {Parsed(v) : v \in old})) \cup Parsed(s)
      BY <1>3 DEF StoreDocument
    <2>2. old \in SUBSET Source /\ s \in Source BY DEF VersionsOf, Source
    <2> HIDE DEF old
    <2>3. WholeIn(rows') BY <2>1, <2>2, ParsedKeepWhole
    <2>4. /\ struck' \subseteq Origin /\ scans < MaxScans /\ scans' = scans + 1
          /\ answers' = answers
      BY <1>3 DEF StoreDocument, Scan, OriginsIn
    <2> QED BY <1>1, <2>3, <2>4, RetentionAssumption
  <1>4. ASSUME NEW run \in Run, PrepareRun(run) PROVE RetentionInv'
    <2>1. WholeIn(rows') BY <1>4, PrepareKeepsWhole
    <2>2. struck' = {} /\ UNCHANGED <<scans, answers>> BY <1>4 DEF PrepareRun, Insert
    <2> QED BY <1>1, <2>1, <2>2
  <1>5. ASSUME NEW run \in Run, MaterializeAssertions(run) PROVE RetentionInv'
    <2>1. WholeIn(rows') BY <1>5, MaterializeKeepsWhole
    <2>2. struck' = {} /\ UNCHANGED <<scans, answers>>
      BY <1>5 DEF MaterializeAssertions, Insert
    <2> QED BY <1>1, <2>1, <2>2
  <1>6. ASSUME NEW k \in Candidate, RecordSuccess(k) PROVE RetentionInv'
    <2>1. WholeIn(rows') BY <1>6, RecordKeepsWhole
    <2>2. /\ struck' = {k} /\ answers < MaxAnswers /\ answers' = answers + 1
          /\ scans' = scans
      BY <1>6 DEF RecordSuccess
    <2> QED BY <1>1, <2>1, <2>2, RetentionAssumption DEF Candidate
  <1>7. ASSUME NEW k \in Candidate, Resolve(k) PROVE RetentionInv'
    <2>1. WholeIn(rows') BY <1>7, ResolveKeepsWhole
    <2>2. struck' = {} /\ UNCHANGED <<scans, answers>> BY <1>7 DEF Resolve, Insert
    <2> QED BY <1>1, <2>1, <2>2
  <1>8. CASE UNCHANGED vars BY <1>1, <1>8 DEF vars, WholeIn, ShapedIn, LinkedIn, OnceIn
  <1> QED BY <1>2, <1>3, <1>4, <1>5, <1>6, <1>7, <1>8 DEF Next

LEMMA RetentionInvariant == Spec => []RetentionInv
  BY InitWhole, RetentionStep, PTL DEF Spec

LEMMA SchemaIsTyped == Schema \subseteq ForeignKey
  <1> SUFFICES ASSUME NEW key \in Schema PROVE key \in ForeignKey OBVIOUS
  <1>1. key.to \in Table BY KeysLeadDown DEF Referred, Table, ParsedTable, CanonicalTable
  <1>2. key = [of |-> key.of, to |-> key.to, by |-> key.by]
    BY DEF Schema, Keys, ParsedKeys, EvidenceKeys, CandidateKeys, EntityKeys, AttributeKeys,
           AssertionKeys, DecisionKeys
  <1> QED BY <1>1, <1>2, KeysLeadDown DEF ForeignKey

\* Keys always refer to rows, whatever has been deleted and inserted since, and a
\* candidate is decided, aliased, mentioned, asserted once: nothing is left over from a
\* resolution that a cascade took when the candidate is resolved again.
THEOREM RowsAreTyped == Spec => []TypeOK
  <1>1. RetentionInv => TypeOK
    <2> SUFFICES ASSUME RetentionInv PROVE TypeOK OBVIOUS
    <2> USE DEF RetentionInv, RowsOfSources
    <2>1. ASSUME NEW r \in rows, r.table # "resolution_review_candidates",
                 NEW q \in rows, q.table = r.table, q.from = r.from
          PROVE  q = r
      <3>1. CASE r.table \in {"resolution_decisions", "relationship_assertions"}
        BY <2>1, <3>1 DEF WholeIn, OnceIn
      <3>2. CASE r.table \in Attribute
        <4> DEFINE d(x) == About("resolution_decisions", x.from, x.entity)
        <4>1. d(r) \in rows /\ d(q) \in rows
          BY <2>1, <3>2 DEF WholeIn, LinkedIn, Attached
        <4>2. \A x : /\ d(x).table = "resolution_decisions" /\ d(x).from = x.from
                     /\ d(x).entity = x.entity
          BY DEF About, RowOf
        <4>3. d(r) = d(q) BY <2>1, <4>1, <4>2 DEF WholeIn, OnceIn
        <4>4. r.entity = q.entity BY <4>2, <4>3
        <4> QED BY <2>1, <3>2, <4>4 DEF WholeIn, ShapedIn
      <3>3. CASE r.table \notin Attached \cup {"resolution_decisions"}
        BY <2>1, <3>3 DEF WholeIn, ShapedIn
      <3> QED BY <3>1, <3>2, <3>3 DEF Attached
    <2>2. selected \subseteq Candidate /\ current \in [Doc -> Text \cup {None}] OBVIOUS
    <2> QED BY <2>1, <2>2, SchemaIsTyped DEF TypeOK, KeysHold
  <1> QED BY <1>1, RetentionInvariant, PTL

\* A resolution is kept as a whole or not at all: a cascade never takes the decision and
\* leaves an alias, a mention, an identifier or an assertion, nor the other way round.
THEOREM DecisionsStayWhole == Spec => []DecisionsAreWhole
  <1>1. RetentionInv => DecisionsAreWhole
    <2> SUFFICES ASSUME RetentionInv PROVE DecisionsAreWhole OBVIOUS
    <2> DEFINE resolved(t) ==
                 {<<r.from, r.entity>> : r \in {q \in rows : q.table = t /\ q.entity # None}}
    <2>1. \A t, k, e : About(t, k, e).table = t /\ About(t, k, e).from = k
                       /\ About(t, k, e).entity = e
      BY DEF About, RowOf
    <2>2. ASSUME NEW t \in Attached PROVE resolved(t) \subseteq resolved("resolution_decisions")
      <3> SUFFICES ASSUME NEW r \in rows, r.table = t, r.entity # None
                   PROVE  <<r.from, r.entity>> \in resolved("resolution_decisions")
        OBVIOUS
      <3>1. About("resolution_decisions", r.from, r.entity) \in rows
        BY DEF RetentionInv, WholeIn, LinkedIn
      <3> QED BY <2>1, <3>1
    <2>3. ASSUME NEW t \in {"entity_aliases", "entity_mentions"}
          PROVE  resolved("resolution_decisions") \subseteq resolved(t)
      <3> SUFFICES ASSUME NEW r \in rows, r.table = "resolution_decisions", r.entity # None
                   PROVE  <<r.from, r.entity>> \in resolved(t)
        OBVIOUS
      <3>1. About(t, r.from, r.entity) \in rows
        BY DEF RetentionInv, WholeIn, LinkedIn
      <3> QED BY <2>1, <3>1
    <2> HIDE DEF resolved
    <2>4. /\ resolved("resolution_decisions") = resolved("entity_aliases")
          /\ resolved("resolution_decisions") = resolved("entity_mentions")
          /\ resolved("entity_identifiers") \cup resolved("relationship_assertions")
               \subseteq resolved("resolution_decisions")
      BY <2>2, <2>3 DEF Attached, Attribute
    <2> QED BY <2>4 DEF DecisionsAreWhole, resolved
  <1> QED BY <1>1, RetentionInvariant, PTL
=============================================================================
