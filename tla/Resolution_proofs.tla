-------------------------- MODULE Resolution_proofs --------------------------
(***************************************************************************)
(* Proofs about Resolution, with Extraction underneath.                    *)
(*                                                                         *)
(* Three invariants, each on top of the one before.  IdentityInv says that *)
(* an identifier which is not lost is recorded with the entity of whoever  *)
(* shows it; it needs nothing of who extracts what.  GroundedInv adds what *)
(* extraction keeps: an answer that is there is never replaced, so that    *)
(* candidates go only with their chunk, and what a resolver has read is    *)
(* still so unless a chunk is gone.  WholeInv adds that an undisturbed     *)
(* resolver has left nothing out.  The last two need that one worker at a  *)
(* time extracts, which is what the lease of a job is for.                 *)
(***************************************************************************)
EXTENDS Resolution, TLAPS

-----------------------------------------------------------------------------
(***************************************************************************)
(* The invariants.                                                         *)
(***************************************************************************)

\* A decision has its candidate, and the entity it leads to, if any.
DecisionsExist ==
  \A d \in decisions : Exists(d.candidate) /\ d.entity \in entities \cup {NoEntity}

\* The identifiers of a resolved candidate are those of its entity, or lost.
IdentifiersRecorded ==
  \A d \in decisions : d.entity # NoEntity =>
    \A n \in IdentifiersOf(d.candidate) :
      n \in lost \/ \E i \in identifiers : i.identifier = n /\ i.entity = d.entity

IdentityInv == TypeOK /\ DecisionsExist /\ IdentifiersRecorded

\* What is answered is there and has succeeded; a run that is not there has no rows;
\* what is left to be asked is pending, and while no chunk changes nothing pending is
\* left out.
AnswersSucceeded ==
  \A j \in Job, c \in Chunk :
    answers[j][c] # NoAnswer => chunks[c] # "deleted" /\ rows[j][c] = "succeeded"

RowsHaveRun == \A j \in Job, c \in Chunk : runs[j] = "none" => rows[j][c] = "none"

QueueIsPending ==
  \A x \in Extractor :
    /\ pc[x] # "asking" => queue[x] = {}
    /\ \A c \in queue[x] : chunks[c] = "deleted" \/ rows[job[x]][c] \in Pending

QueueIsWhole ==
  \A x \in Extractor :
    pc[x] \in {"asking", "returned"} /\ ~ touched[x] =>
      ToAsk(job[x]) \subseteq queue[x]

ExtractionInv ==
  /\ ExtractionTypeOK
  /\ AnswersSucceeded /\ RowsHaveRun /\ QueueIsPending /\ QueueIsWhole

\* What a resolver has in memory is of its run, and still so unless a chunk is gone.
TodoIsValid ==
  \A w \in Resolver : \A k \in todo[w] :
    k.job = run[w] /\ (Valid(k) \/ chunks[k.chunk] = "deleted")

ResolvedIsDecided ==
  \A w \in Resolver :
    /\ at[w] \in {"inserting", "returned"} \/ resolved[w] = {}
    /\ \A d \in resolved[w] :
         /\ d.candidate.job = run[w] /\ d.entity # NoEntity
         /\ \/ d \in decisions
            \/ chunks[d.candidate.chunk] = "deleted" \/ chunks[d.entity.chunk] = "deleted"

AssertionsAreRows ==
  \A a \in assertions :
    /\ a.job \in Job /\ a.chunk \in Chunk
    /\ a = Assertion(a.job, a.chunk, a.relationship, a.subject, a.object)

GroundedInv ==
  /\ IdentityInv /\ ExtractionInv
  /\ KnowledgeIsGrounded /\ AssertionsAreGrounded
  /\ TodoIsValid /\ ResolvedIsDecided /\ AssertionsAreRows

\* An undisturbed resolver has loaded all that is not resolved, has read all that is,
\* and has asserted all that follows.
Begun(w) == at[w] # "idle" /\ ~ disturbed[w]

IsThorough(w) ==
  /\ at[w] \notin {"deciding", "writing"} => todo[w] = {}
  /\ Begun(w) => Unresolved(run[w]) \subseteq todo[w]
  /\ Begun(w) /\ at[w] \in {"inserting", "returned"} => resolved[w] = ResolvedOf(run[w])
  /\ Begun(w) /\ at[w] = "returned" => AssertionsOf(run[w], resolved[w]) \subseteq assertions

WholeInv == GroundedInv /\ \A w \in Resolver : IsThorough(w)

-----------------------------------------------------------------------------
(***************************************************************************)
(* Types of the extraction.                                                *)
(***************************************************************************)

\* What every extractor does but recording an answer.
QuietStep(x) ==
  \/ Select(x) \/ Prepare(x) \/ Load(x) \/ Finalize(x) \/ Return(x) \/ Abort(x)
  \/ \E c \in Chunk : RecordSchemaInvalid(x, c) \/ RecordProviderFailure(x, c)

\* A scan keeps the types of the extraction.
LEMMA EditTypes ==
  ASSUME ExtractionTypeOK, NEW c \in Chunk, NEW state \in {"current", "error", "deleted"},
         EditChunk(c, state)
  PROVE  ExtractionTypeOK'
<1>1. /\ chunks' \in [Chunk -> {"current", "error", "deleted"}]
      /\ edits' \in 0 .. MaxEdits
  BY ExtractionAssumption DEF ExtractionTypeOK, EditChunk
<1>2. /\ rows' \in [Job -> [Chunk -> Pending \cup {"none", "succeeded", "schema_invalid"}]]
      /\ answers' \in [Job -> [Chunk -> Answer \cup {NoAnswer}]]
  <2>1. CASE state = "deleted"
    <3>1. /\ rows' = [j \in Job |-> [rows[j] EXCEPT ![c] = "none"]]
          /\ answers' = [j \in Job |-> [answers[j] EXCEPT ![c] = NoAnswer]]
      BY <2>1 DEF EditChunk
    <3>2. rows' \in [Job -> [Chunk -> Pending \cup {"none", "succeeded", "schema_invalid"}]]
      BY <3>1 DEF ExtractionTypeOK
    <3>3. answers' \in [Job -> [Chunk -> Answer \cup {NoAnswer}]]
      BY <3>1 DEF ExtractionTypeOK
    <3> QED BY <3>2, <3>3
  <2>2. CASE state # "deleted"
    BY <2>2 DEF ExtractionTypeOK, EditChunk
  <2> QED BY <2>1, <2>2
<1>3. touched' \in [Extractor -> BOOLEAN]
  BY DEF EditChunk
<1> QED BY <1>1, <1>2, <1>3 DEF ExtractionTypeOK, EditChunk

\* The end of an attempt keeps the types of what a worker has in memory.
LEMMA EndTypes ==
  ASSUME ExtractionTypeOK, NEW x \in Extractor, End(x)
  PROVE  /\ pc' \in [Extractor -> {"idle", "preparing", "loading", "asking", "returned"}]
         /\ job' \in [Extractor -> Job]
         /\ selected' \in [Extractor -> SUBSET Chunk]
         /\ queue' \in [Extractor -> SUBSET Chunk]
         /\ touched' \in [Extractor -> BOOLEAN]
BY DEF ExtractionTypeOK, End, Goto

\* Setting the status of a chunk of a run keeps the type of the rows.
LEMMA SetRowTypes ==
  ASSUME ExtractionTypeOK, NEW j \in Job, NEW c \in Chunk,
         NEW status \in {"succeeded", "schema_invalid", "provider_failed"},
         SetRow(j, c, status)
  PROVE  rows' \in [Job -> [Chunk -> Pending \cup {"none", "succeeded", "schema_invalid"}]]
BY DEF ExtractionTypeOK, SetRow, Pending

\* An extractor keeps the types of the extraction, but for recording an answer.
LEMMA QuietTypes ==
  ASSUME ExtractionTypeOK, NEW x \in Extractor, QuietStep(x)
  PROVE  ExtractionTypeOK'
<1>1. CASE Select(x)
  <2>1. starts' \in 0 .. MaxStarts
    BY <1>1, ExtractionAssumption DEF ExtractionTypeOK, Select
  <2>2. job' \in [Extractor -> Job] /\ selected' \in [Extractor -> SUBSET Chunk]
    BY <1>1 DEF ExtractionTypeOK, Select
  <2> QED BY <1>1, <2>1, <2>2 DEF ExtractionTypeOK, Select, Goto, tables
<1>2. CASE Prepare(x)
  <2>1. CASE End(x) /\ UNCHANGED tables
    BY <2>1, <1>2, EndTypes DEF ExtractionTypeOK, Prepare, tables
  <2>2. CASE Prepared(x) /\ UNCHANGED tables
    BY <2>2, <1>2 DEF ExtractionTypeOK, Prepare, Prepared, Goto, tables
  <2>3. CASE /\ Prepared(x) /\ UNCHANGED answers
             /\ runs' = [runs EXCEPT ![job[x]] = "running"]
             /\ rows' = [rows EXCEPT ![job[x]] = [c \in Chunk |->
                           IF c \in selected[x] THEN "pending" ELSE "none"]]
    BY <2>3, <1>2 DEF ExtractionTypeOK, Prepare, Prepared, Goto, Pending
  <2> QED BY <1>2, <2>1, <2>2, <2>3 DEF Prepare
<1>3. CASE Load(x)
  BY <1>3 DEF ExtractionTypeOK, Load, ToAsk, Goto, tables
<1>4. CASE Finalize(x)
  BY <1>4 DEF ExtractionTypeOK, Finalize, Goto
<1>5. CASE Return(x) \/ Abort(x)
  BY <1>5, EndTypes DEF ExtractionTypeOK, Return, Abort, tables
<1>6. ASSUME NEW c \in Chunk, RecordSchemaInvalid(x, c)
      PROVE  ExtractionTypeOK'
  <2>1. rows' \in [Job -> [Chunk -> Pending \cup {"none", "succeeded", "schema_invalid"}]]
    BY <1>6, SetRowTypes DEF ExtractionTypeOK, RecordSchemaInvalid
  <2> QED BY <1>6, <2>1 DEF ExtractionTypeOK, RecordSchemaInvalid, Asked
<1>7. ASSUME NEW c \in Chunk, RecordProviderFailure(x, c)
      PROVE  ExtractionTypeOK'
  <2>1. rows' \in [Job -> [Chunk -> Pending \cup {"none", "succeeded", "schema_invalid"}]]
    BY <1>7, SetRowTypes DEF ExtractionTypeOK, RecordProviderFailure
  <2> QED BY <1>7, <2>1, EndTypes DEF ExtractionTypeOK, RecordProviderFailure
<1> QED BY <1>1, <1>2, <1>3, <1>4, <1>5, <1>6, <1>7 DEF QuietStep

\* So does recording an answer.
LEMMA RecordTypes ==
  ASSUME ExtractionTypeOK, NEW x \in Extractor, NEW c \in Chunk, NEW a \in Answer,
         RecordSuccess(x, c, a)
  PROVE  ExtractionTypeOK'
<1>1. rows' \in [Job -> [Chunk -> Pending \cup {"none", "succeeded", "schema_invalid"}]]
  BY SetRowTypes DEF ExtractionTypeOK, RecordSuccess
<1>2. answers' \in [Job -> [Chunk -> Answer \cup {NoAnswer}]]
  BY DEF ExtractionTypeOK, RecordSuccess
<1> QED BY <1>1, <1>2 DEF ExtractionTypeOK, RecordSuccess, Asked

-----------------------------------------------------------------------------
(***************************************************************************)
(* Cascades.                                                               *)
(***************************************************************************)

KnowledgeTypeOK ==
  /\ entities \subseteq Candidate /\ identifiers \subseteq Identity
  /\ decisions \subseteq Decision /\ lost \subseteq Identifier
  /\ \A d, e \in decisions : d.candidate = e.candidate => d = e
  /\ \A i, h \in identifiers : i.identifier = h.identifier => i = h

ResolverTypeOK ==
  /\ at \in [Resolver -> {"idle", "deciding", "writing", "reading", "inserting", "returned"}]
  /\ run \in [Resolver -> Job] /\ todo \in [Resolver -> SUBSET Candidate]
  /\ matched \in [Resolver -> SUBSET Candidate] /\ resolved \in [Resolver -> SUBSET Decision]
  /\ hand \in [Resolver -> Candidate \cup {NoEntity}]
  /\ \A w \in Resolver : at[w] = "writing" => hand[w] \in todo[w]
  /\ disturbed \in [Resolver -> BOOLEAN] /\ resolves \in 0 .. MaxResolves

\* The type invariant has these parts.
LEMMA TypeParts == TypeOK <=> ExtractionTypeOK /\ KnowledgeTypeOK /\ ResolverTypeOK
BY DEF TypeOK, KnowledgeTypeOK, ResolverTypeOK

Gone(pairs) == UNION {CandidatesOf(p[1], p[2]) : p \in pairs}

AnswersElsewhere(pairs) ==
  \A j \in Job, c \in Chunk : <<j, c>> \notin pairs => answers'[j][c] = answers[j][c]

\* What is gone are the candidates there were of the pairs.
LEMMA GoneCandidates ==
  ASSUME NEW pairs \in SUBSET (Job \X Chunk), NEW k \in Candidate
  PROVE  k \in Gone(pairs) <=> Exists(k) /\ <<k.job, k.chunk>> \in pairs
<1>1. ASSUME k \in Gone(pairs)
      PROVE  Exists(k) /\ <<k.job, k.chunk>> \in pairs
  <2>1. PICK p \in pairs : k \in CandidatesOf(p[1], p[2])
    BY <1>1 DEF Gone
  <2>2. k.job = p[1] /\ k.chunk = p[2] /\ Exists(k)
    BY <2>1 DEF CandidatesOf
  <2>3. p = <<p[1], p[2]>>
    OBVIOUS
  <2> QED BY <2>1, <2>2, <2>3
<1>2. ASSUME Exists(k), <<k.job, k.chunk>> \in pairs
      PROVE  k \in Gone(pairs)
  <2>1. k \in CandidatesOf(k.job, k.chunk)
    BY <1>2 DEF CandidatesOf
  <2> DEFINE p == <<k.job, k.chunk>>
  <2>2. p \in pairs /\ k \in CandidatesOf(p[1], p[2])
    BY <1>2, <2>1
  <2> QED BY <2>2 DEF Gone
<1> QED BY <1>1, <1>2

\* A candidate that is not gone with the pairs is what it was.
LEMMA OthersStay ==
  ASSUME NEW pairs \in SUBSET (Job \X Chunk), AnswersElsewhere(pairs),
         NEW k \in Candidate, Exists(k), k \notin Gone(pairs)
  PROVE  /\ AnswerOf(k)' = AnswerOf(k) /\ Exists(k)'
         /\ IdentifiersOf(k)' = IdentifiersOf(k)
         /\ Valid(k) => Valid(k)'
<1>1. <<k.job, k.chunk>> \notin pairs /\ k.job \in Job /\ k.chunk \in Chunk
  BY GoneCandidates DEF Candidate
<1>2. AnswerOf(k)' = AnswerOf(k)
  BY <1>1 DEF AnswersElsewhere, AnswerOf
<1> QED BY <1>2 DEF Exists, IdentifiersOf, Valid

\* What a cascade does, without the abbreviation of its definition.
LEMMA CascadeRows ==
  ASSUME NEW pairs \in SUBSET (Job \X Chunk), Cascade(pairs)
  PROVE  /\ entities' = entities \ Gone(pairs)
         /\ identifiers' = {i \in identifiers : /\ i.entity \notin Gone(pairs)
                                                /\ i.source \notin Gone(pairs)}
         /\ decisions' = {d \in decisions : /\ d.candidate \notin Gone(pairs)
                                            /\ d.entity \notin Gone(pairs)}
         /\ assertions' = {a \in assertions : /\ <<a.job, a.chunk>> \notin pairs
                                              /\ a.subject \notin Gone(pairs)
                                              /\ a.object \notin Gone(pairs)}
         /\ lost' = lost \cup {i.identifier : i \in {h \in identifiers :
                     h.source \in Gone(pairs) /\ h.entity \notin Gone(pairs)}}
BY DEF Cascade, Gone, SurvivingIdentifiers, SurvivingAssertions

\* A cascade keeps the types of the knowledge.
LEMMA CascadeTypes ==
  ASSUME KnowledgeTypeOK, NEW pairs \in SUBSET (Job \X Chunk), Cascade(pairs)
  PROVE  KnowledgeTypeOK'
<1> USE CascadeRows
<1>1. lost' \subseteq Identifier
  BY DEF KnowledgeTypeOK, Identity
<1>2. entities' \subseteq entities /\ identifiers' \subseteq identifiers
      /\ decisions' \subseteq decisions
  OBVIOUS
<1> QED BY <1>1, <1>2 DEF KnowledgeTypeOK

\* Decisions that a cascade leaves have their candidate, and their entity if any.
LEMMA CascadeDecisions ==
  ASSUME KnowledgeTypeOK, DecisionsExist,
         NEW pairs \in SUBSET (Job \X Chunk), Cascade(pairs), AnswersElsewhere(pairs)
  PROVE  DecisionsExist'
<1>1. SUFFICES ASSUME NEW d \in decisions'
               PROVE  Exists(d.candidate)' /\ d.entity \in entities' \cup {NoEntity}
  BY DEF DecisionsExist
<1>2. d \in decisions /\ d.candidate \notin Gone(pairs) /\ d.entity \notin Gone(pairs)
  BY CascadeRows
<1>3. d.candidate \in Candidate /\ Exists(d.candidate) /\ d.entity \in entities \cup {NoEntity}
  BY <1>2 DEF KnowledgeTypeOK, Decision, DecisionsExist
<1>4. Exists(d.candidate)'
  BY <1>2, <1>3, OthersStay
<1> QED BY <1>2, <1>3, <1>4, CascadeRows

\* An identifier of a resolved candidate is recorded, or lost: the row may go with
\* another candidate that showed it.
LEMMA CascadeIdentifiers ==
  ASSUME KnowledgeTypeOK, DecisionsExist, IdentifiersRecorded,
         NEW pairs \in SUBSET (Job \X Chunk), Cascade(pairs), AnswersElsewhere(pairs)
  PROVE  IdentifiersRecorded'
<1>1. SUFFICES ASSUME NEW d \in decisions', d.entity # NoEntity,
                      NEW n \in IdentifiersOf(d.candidate)', n \notin lost'
               PROVE  \E i \in identifiers' : i.identifier = n /\ i.entity = d.entity
  BY DEF IdentifiersRecorded
<1>2. d \in decisions /\ d.candidate \notin Gone(pairs) /\ d.entity \notin Gone(pairs)
  BY CascadeRows
<1>3. d.candidate \in Candidate /\ Exists(d.candidate)
  BY <1>2 DEF KnowledgeTypeOK, Decision, DecisionsExist
<1>4. n \in IdentifiersOf(d.candidate)
  BY <1>2, <1>3, OthersStay
<1>5. n \notin lost
  BY <1>1, CascadeRows
<1>6. PICK i \in identifiers : i.identifier = n /\ i.entity = d.entity
  BY <1>1, <1>2, <1>4, <1>5 DEF IdentifiersRecorded
<1>7. i.source \notin Gone(pairs)
  BY <1>1, <1>2, <1>6, CascadeRows
<1> QED BY <1>2, <1>6, <1>7, CascadeRows

\* A scan is a cascade of the answers it changes.
LEMMA ScanCascades ==
  ASSUME TypeOK, NEW c \in Chunk, NEW state \in {"current", "error", "deleted"},
         EditChunk(c, state), Cascade(IF state = "deleted" THEN Job \X {c} ELSE {})
  PROVE  \E pairs \in SUBSET (Job \X Chunk) :
           /\ pairs = IF state = "deleted" THEN Job \X {c} ELSE {}
           /\ Cascade(pairs) /\ AnswersElsewhere(pairs)
<1>1. CASE state = "deleted"
  <2>1. Job \X {c} \in SUBSET (Job \X Chunk)
    OBVIOUS
  <2>2. answers \in [Job -> [Chunk -> Answer \cup {NoAnswer}]]
    BY DEF TypeOK, ExtractionTypeOK
  <2>3. answers' = [j \in Job |-> [answers[j] EXCEPT ![c] = NoAnswer]]
    BY <1>1 DEF EditChunk
  <2>4. ASSUME NEW j \in Job, NEW b \in Chunk, <<j, b>> \notin Job \X {c}
        PROVE  answers'[j][b] = answers[j][b]
    <3>1. b # c
      BY <2>4
    <3>2. answers[j] \in [Chunk -> Answer \cup {NoAnswer}]
      BY <2>2
    <3> QED BY <2>3, <3>1, <3>2
  <2>5. AnswersElsewhere(Job \X {c})
    BY <2>4 DEF AnswersElsewhere
  <2> QED BY <1>1, <2>1, <2>5
<1>2. CASE state # "deleted"
  <2>1. answers' = answers
    BY <1>2 DEF EditChunk
  <2>2. AnswersElsewhere({})
    BY <2>1 DEF AnswersElsewhere
  <2> QED BY <1>2, <2>2
<1> QED BY <1>1, <1>2

\* Recording an answer is a cascade of the one it replaces.
LEMMA RecordCascades ==
  ASSUME TypeOK, NEW x \in Extractor, NEW c \in Chunk, NEW a \in Answer,
         RecordSuccess(x, c, a)
  PROVE  {<<job[x], c>>} \in SUBSET (Job \X Chunk) /\ AnswersElsewhere({<<job[x], c>>})
<1>1. job[x] \in Job /\ answers \in [Job -> [Chunk -> Answer \cup {NoAnswer}]]
  BY DEF TypeOK, ExtractionTypeOK
<1>2. answers' = [answers EXCEPT ![job[x]][c] = a]
  BY DEF RecordSuccess
<1>3. ASSUME NEW j \in Job, NEW b \in Chunk, <<j, b>> \notin {<<job[x], c>>}
      PROVE  answers'[j][b] = answers[j][b]
  <2>1. j # job[x] \/ b # c
    BY <1>3
  <2>2. answers[j] \in [Chunk -> Answer \cup {NoAnswer}]
    BY <1>1
  <2> QED BY <1>1, <1>2, <2>1, <2>2
<1> QED BY <1>1, <1>3 DEF AnswersElsewhere

\* What scans and recorded answers do to the resolvers keeps their types.
LEMMA UnsettleTypes ==
  ASSUME ResolverTypeOK, NEW J \in SUBSET Job, Unsettle(J)
  PROVE  ResolverTypeOK'
BY DEF ResolverTypeOK, Unsettle

-----------------------------------------------------------------------------
(***************************************************************************)
(* One identifier, one entity.                                             *)
(***************************************************************************)

Identities(k, e) ==
  {[identifier |-> i, entity |-> e, source |-> k] :
     i \in {n \in IdentifiersOf(k) :
              \A h \in identifiers : h.entity # e \/ h.identifier # n}}

\* The candidate is deferred.
Deferred(k) ==
  /\ decisions' = decisions \cup
       {[candidate |-> k, decision |-> "defer", entity |-> NoEntity]}
  /\ UNCHANGED <<entities, identifiers>>

\* The candidate is resolved to an entity, itself or one there is.
ResolvedTo(k, e) ==
  /\ e = k \/ e \in entities
  /\ Unique(k, e)
  /\ entities' = entities \cup {e}
  /\ identifiers' = identifiers \cup Identities(k, e)
  /\ decisions' = decisions \cup
       {[candidate |-> k, entity |-> e,
         decision |-> IF e = k THEN "create" ELSE "merge"]}

\* A decision that is written is a deferral, or one for the only entity that has the
\* identifiers of the candidate.
LEMMA WriteRows ==
  ASSUME TypeOK, NEW w \in Resolver, Write(w)
  PROVE  \E k \in todo[w] :
           /\ k = hand[w] /\ k \in Candidate /\ Exists(k) /\ k \notin Decided
           /\ Deferred(k) \/ \E e \in Candidate : ResolvedTo(k, e)
<1> DEFINE k == hand[w]
           e == IF matched[w] = {} THEN k ELSE CHOOSE m \in matched[w] : TRUE
<1>1. k \in todo[w] /\ todo[w] \subseteq Candidate /\ matched[w] \subseteq Candidate
  BY DEF TypeOK, Write
<1>2. k = hand[w] /\ Exists(k) /\ k \notin Decided
  BY DEF Write
<1>3. CASE Cardinality(matched[w]) > 1
  <2>1. Deferred(k)
    BY <1>3 DEF Write, Deferred
  <2> QED BY <1>1, <1>2, <2>1
<1>4. CASE ~ (Cardinality(matched[w]) > 1)
  <2>1. ResolvedTo(k, e)
    BY <1>4 DEF Write, Identities, ResolvedTo
  <2>2. e \in Candidate
    <3>1. CASE matched[w] = {}
      BY <1>1, <3>1
    <3>2. CASE matched[w] # {}
      BY <1>1, <3>2
    <3> QED BY <3>1, <3>2
  <2> HIDE DEF k, e
  <2> QED BY <1>1, <1>2, <2>1, <2>2
<1> QED BY <1>3, <1>4

\* The rows that record the identifiers of a candidate.
LEMMA IdentitiesAre ==
  ASSUME TypeOK, NEW k \in Candidate, Exists(k), NEW e \in Candidate
  PROVE  /\ Identities(k, e) \subseteq Identity
         /\ \A i \in Identities(k, e) :
              /\ i.identifier \in IdentifiersOf(k) /\ i.entity = e /\ i.source = k
              /\ \A h \in identifiers : h.entity # e \/ h.identifier # i.identifier
         /\ \A n \in IdentifiersOf(k) :
              \E i \in identifiers \cup Identities(k, e) : i.identifier = n /\ i.entity = e
<1>1. AnswerOf(k) \in Answer \cup {NoAnswer}
  BY DEF TypeOK, ExtractionTypeOK, AnswerOf, Candidate
<1>2. AnswerOf(k) # NoAnswer
  BY DEF Exists, NoAnswer
<1>3. IdentifiersOf(k) \subseteq Identifier
  BY <1>1, <1>2, ResolutionAssumption DEF Exists, IdentifiersOf
<1>4. ASSUME NEW i \in Identities(k, e)
      PROVE  /\ i \in Identity
             /\ i.identifier \in IdentifiersOf(k) /\ i.entity = e /\ i.source = k
             /\ \A h \in identifiers : h.entity # e \/ h.identifier # i.identifier
  <2>1. PICK n \in IdentifiersOf(k) :
          /\ i = [identifier |-> n, entity |-> e, source |-> k]
          /\ \A h \in identifiers : h.entity # e \/ h.identifier # n
    BY <1>4 DEF Identities
  <2> QED BY <1>3, <2>1 DEF Identity
<1>5. ASSUME NEW n \in IdentifiersOf(k)
      PROVE  \E i \in identifiers \cup Identities(k, e) : i.identifier = n /\ i.entity = e
  <2>1. CASE \A h \in identifiers : h.entity # e \/ h.identifier # n
    <3> DEFINE i == [identifier |-> n, entity |-> e, source |-> k]
    <3>1. i \in Identities(k, e) /\ i.identifier = n /\ i.entity = e
      BY <2>1, <1>5 DEF Identities
    <3> QED BY <3>1
  <2> QED BY <2>1
<1> QED BY <1>4, <1>5

\* Writing keeps the knowledge well typed: a candidate keeps to one decision and an
\* identifier to one entity.
LEMMA WriteTypes ==
  ASSUME TypeOK, NEW w \in Resolver, Write(w)
  PROVE  KnowledgeTypeOK'
<1>0. KnowledgeTypeOK /\ lost' = lost
  BY TypeParts DEF Write
<1>1. PICK k \in todo[w] :
           /\ k \in Candidate /\ Exists(k) /\ k \notin Decided
           /\ Deferred(k) \/ \E e \in Candidate : ResolvedTo(k, e)
  BY WriteRows
<1>2. \A d \in decisions : d.candidate # k
  BY <1>1 DEF Decided
<1>3. ASSUME NEW new \in Decision, new.candidate = k, decisions' = decisions \cup {new}
      PROVE  /\ decisions' \subseteq Decision
             /\ \A d, e \in decisions' : d.candidate = e.candidate => d = e
  BY <1>0, <1>2, <1>3 DEF KnowledgeTypeOK
<1>4. CASE Deferred(k)
  <2> DEFINE new == [candidate |-> k, decision |-> "defer", entity |-> NoEntity]
  <2>1. new \in Decision /\ new.candidate = k
    BY <1>1 DEF Decision
  <2>2. /\ decisions' \subseteq Decision
        /\ \A d, e \in decisions' : d.candidate = e.candidate => d = e
    <3> HIDE DEF new
    <3>1. decisions' = decisions \cup {new}
      BY <1>4 DEF new, Deferred
    <3> QED BY <1>3, <2>1, <3>1
  <2> QED BY <1>0, <1>4, <2>2 DEF KnowledgeTypeOK, Deferred
<1>5. ASSUME NEW e \in Candidate, ResolvedTo(k, e)
      PROVE  KnowledgeTypeOK'
  <2> DEFINE new == [candidate |-> k, entity |-> e,
                     decision |-> IF e = k THEN "create" ELSE "merge"]
  <2>1. new \in Decision /\ new.candidate = k
    BY <1>1 DEF Decision
  <2>2. /\ decisions' \subseteq Decision
        /\ \A d, f \in decisions' : d.candidate = f.candidate => d = f
    <3> HIDE DEF new
    <3>1. decisions' = decisions \cup {new}
      BY <1>5 DEF new, ResolvedTo
    <3> QED BY <1>3, <2>1, <3>1
  <2>3. identifiers' \subseteq Identity
    BY <1>0, <1>1, <1>5, IdentitiesAre DEF KnowledgeTypeOK, ResolvedTo
  <2>4. ASSUME NEW i \in identifiers', NEW h \in identifiers', i.identifier = h.identifier
        PROVE  i = h
    <3>1. ASSUME NEW p \in identifiers, NEW q \in Identities(k, e)
          PROVE  p.identifier # q.identifier
      BY <1>1, <1>5, <3>1, IdentitiesAre DEF Unique, ResolvedTo
    <3>2. CASE i \in identifiers /\ h \in identifiers
      BY <1>0, <2>4, <3>2 DEF KnowledgeTypeOK
    <3>3. CASE i \in Identities(k, e) /\ h \in Identities(k, e)
      <4>1. i \in Identity /\ h \in Identity
        BY <1>5, <2>3, <3>3
      <4>2. i.entity = h.entity /\ i.source = h.source
        BY <1>1, <1>5, <3>3, IdentitiesAre
      <4> QED BY <2>4, <4>1, <4>2 DEF Identity
    <3> QED BY <1>5, <2>4, <3>1, <3>2, <3>3 DEF ResolvedTo
  <2>5. entities' \subseteq Candidate
    BY <1>0, <1>5 DEF KnowledgeTypeOK, ResolvedTo
  <2> QED BY <1>0, <2>2, <2>3, <2>4, <2>5 DEF KnowledgeTypeOK
<1> QED BY <1>1, <1>4, <1>5

\* The decision written for k, with what it says recorded.
WritesDecision(k, new) ==
  /\ decisions' = decisions \cup {new}
  /\ new.candidate = k
  /\ new.entity \in entities' \cup {NoEntity}
  /\ new.entity # NoEntity => \A n \in IdentifiersOf(k) :
       \E i \in identifiers' : i.identifier = n /\ i.entity = new.entity

\* Writing keeps decisions and identifiers together: what the candidate shows is, or
\* is now, recorded with its entity.
LEMMA WriteIdentifiers ==
  ASSUME IdentityInv, NEW w \in Resolver, Write(w)
  PROVE  DecisionsExist' /\ IdentifiersRecorded'
<1>0. /\ TypeOK /\ lost' = lost
      /\ \A k \in Candidate : Exists(k)' = Exists(k) /\ IdentifiersOf(k)' = IdentifiersOf(k)
  BY DEF IdentityInv, Write, extractionVars, tables, Exists, IdentifiersOf, AnswerOf
<1>1. PICK k \in todo[w] :
           /\ k \in Candidate /\ Exists(k) /\ k \notin Decided
           /\ Deferred(k) \/ \E e \in Candidate : ResolvedTo(k, e)
  BY <1>0, WriteRows
<1>2. ASSUME NEW d \in decisions
      PROVE  /\ d.candidate \in Candidate
             /\ Exists(d.candidate) /\ d.entity \in entities \cup {NoEntity}
             /\ d.entity # NoEntity => \A n \in IdentifiersOf(d.candidate) :
                  n \in lost \/ \E i \in identifiers : i.identifier = n /\ i.entity = d.entity
  BY <1>2 DEF IdentityInv, TypeOK, Decision, DecisionsExist, IdentifiersRecorded
<1>3. entities \subseteq entities' /\ identifiers \subseteq identifiers'
  BY <1>1 DEF Deferred, ResolvedTo
<1>4. \E new : WritesDecision(k, new)
  <2>1. CASE Deferred(k)
    <3> DEFINE new == [candidate |-> k, decision |-> "defer", entity |-> NoEntity]
    <3>1. new.candidate = k /\ new.entity = NoEntity
      OBVIOUS
    <3> HIDE DEF new
    <3>2. decisions' = decisions \cup {new}
      BY <2>1 DEF new, Deferred
    <3>3. WritesDecision(k, new)
      BY <3>1, <3>2 DEF WritesDecision
    <3> QED BY <3>3
  <2>2. ASSUME NEW e \in Candidate, ResolvedTo(k, e)
        PROVE  \E new : WritesDecision(k, new)
    <3> DEFINE new == [candidate |-> k, entity |-> e,
                       decision |-> IF e = k THEN "create" ELSE "merge"]
    <3>1. new.candidate = k /\ new.entity = e
      OBVIOUS
    <3> HIDE DEF new
    <3>2. decisions' = decisions \cup {new}
      BY <2>2 DEF new, ResolvedTo
    <3>3. \A n \in IdentifiersOf(k) :
            \E i \in identifiers' : i.identifier = n /\ i.entity = e
      BY <1>0, <1>1, <2>2, IdentitiesAre DEF ResolvedTo
    <3>4. WritesDecision(k, new)
      BY <2>2, <3>1, <3>2, <3>3 DEF WritesDecision, ResolvedTo
    <3> QED BY <3>4
  <2> QED BY <1>1, <2>1, <2>2
<1>5. PICK new : WritesDecision(k, new)
  BY <1>4
<1>6. DecisionsExist'
  BY <1>0, <1>1, <1>2, <1>3, <1>5 DEF DecisionsExist, WritesDecision
<1>7. IdentifiersRecorded'
  <2>1. SUFFICES ASSUME NEW d \in decisions', d.entity # NoEntity,
                        NEW n \in IdentifiersOf(d.candidate)', n \notin lost
                 PROVE  \E i \in identifiers' : i.identifier = n /\ i.entity = d.entity
    BY <1>0 DEF IdentifiersRecorded
  <2>2. CASE d \in decisions
    BY <1>0, <1>2, <1>3, <2>1, <2>2
  <2>3. CASE d = new
    BY <1>0, <1>1, <1>5, <2>1, <2>3 DEF WritesDecision
  <2> QED BY <1>5, <2>2, <2>3 DEF WritesDecision
<1> QED BY <1>6, <1>7

\* A resolver keeps the types of what resolvers have in memory.
LEMMA ResolverTypes ==
  ASSUME TypeOK, NEW w \in Resolver, ResolutionStep(w)
  PROVE  ResolverTypeOK'
<1>0. ResolverTypeOK /\ KnowledgeTypeOK
  BY TypeParts
<1>1. CASE BeginResolve(w)
  <2>1. PICK j \in Job :
          /\ run' = [run EXCEPT ![w] = j]
          /\ todo' = [todo EXCEPT ![w] = Unresolved(j)]
          /\ NextCandidate(w, Unresolved(j))
    BY <1>1 DEF BeginResolve
  <2>2. Unresolved(j) \in SUBSET Candidate
    BY DEF Unresolved
  <2>3. resolves' \in 0 .. MaxResolves
    BY <1>0, <1>1, ResolutionAssumption DEF BeginResolve, ResolverTypeOK
  <2>4. UNCHANGED <<hand, matched, resolved, disturbed>>
    BY <1>1 DEF BeginResolve
  <2> QED
    BY <1>0, <2>1, <2>2, <2>3, <2>4 DEF ResolverTypeOK, NextCandidate, GoOn
<1>2. CASE LookUp(w)
  <2>1. PICK k \in todo[w] :
          \/ /\ k \in Decided
             /\ todo' = [todo EXCEPT ![w] = @ \ {k}]
             /\ NextCandidate(w, todo[w] \ {k})
             /\ UNCHANGED <<hand, matched>>
          \/ /\ k \notin Decided /\ Exists(k)
             /\ hand' = [hand EXCEPT ![w] = k]
             /\ matched' = [matched EXCEPT ![w] =
                  {i.entity : i \in {h \in identifiers : h.identifier \in IdentifiersOf(k)}}]
             /\ GoOn(w, "writing")
             /\ UNCHANGED todo
    BY <1>2 DEF LookUp
  <2>2. UNCHANGED <<run, resolved, disturbed, resolves>>
    BY <1>2 DEF LookUp
  <2>3. CASE /\ todo' = [todo EXCEPT ![w] = @ \ {k}]
             /\ NextCandidate(w, todo[w] \ {k})
             /\ UNCHANGED <<hand, matched>>
    BY <1>0, <2>2, <2>3 DEF ResolverTypeOK, NextCandidate, GoOn
  <2>4. CASE /\ hand' = [hand EXCEPT ![w] = k]
             /\ matched' = [matched EXCEPT ![w] =
                  {i.entity : i \in {h \in identifiers : h.identifier \in IdentifiersOf(k)}}]
             /\ GoOn(w, "writing")
             /\ UNCHANGED todo
    <3> DEFINE M == {i.entity : i \in {h \in identifiers : h.identifier \in IdentifiersOf(k)}}
    <3>1. M \in SUBSET Candidate
      BY <1>0 DEF KnowledgeTypeOK, Identity
    <3>2. matched' \in [Resolver -> SUBSET Candidate]
      <4> HIDE DEF M
      <4>1. matched' = [matched EXCEPT ![w] = M]
        BY <2>4 DEF M
      <4> QED BY <1>0, <3>1, <4>1 DEF ResolverTypeOK
    <3>3. k \in Candidate
      BY <1>0 DEF ResolverTypeOK
    <3> HIDE DEF M
    <3> QED BY <1>0, <2>2, <2>4, <3>2, <3>3 DEF ResolverTypeOK, GoOn
  <2> QED BY <2>1, <2>3, <2>4
<1>3. CASE Write(w)
  BY <1>0, <1>3 DEF Write, ResolverTypeOK, NextCandidate, GoOn
<1>4. CASE ReadDecisions(w)
  <2>1. ResolvedOf(run[w]) \in SUBSET Decision
    BY <1>0 DEF ResolvedOf, KnowledgeTypeOK
  <2> QED BY <1>0, <1>4, <2>1 DEF ReadDecisions, ResolverTypeOK, GoOn
<1>5. CASE InsertAssertions(w)
  BY <1>0, <1>5 DEF InsertAssertions, ResolverTypeOK, GoOn
<1>6. CASE ReturnResolve(w) \/ AbortResolve(w)
  BY <1>0, <1>6 DEF ReturnResolve, AbortResolve, EndResolve, ResolverTypeOK, GoOn
<1> QED BY <1>1, <1>2, <1>3, <1>4, <1>5, <1>6 DEF ResolutionStep

\* What leaves the answers and the knowledge alone leaves them as they should be.
LEMMA KnowledgeStays ==
  ASSUME IdentityInv, UNCHANGED <<answers, entities, identifiers, decisions, lost>>
  PROVE  KnowledgeTypeOK' /\ DecisionsExist' /\ IdentifiersRecorded'
BY TypeParts DEF IdentityInv, KnowledgeTypeOK, DecisionsExist, IdentifiersRecorded, Exists,
   IdentifiersOf, AnswerOf

\* A cascade keeps the invariant, whatever else the step does.
LEMMA CascadeKeepsIdentity ==
  ASSUME IdentityInv, ExtractionTypeOK', NEW J \in SUBSET Job, Unsettle(J),
         NEW pairs \in SUBSET (Job \X Chunk), Cascade(pairs), AnswersElsewhere(pairs)
  PROVE  IdentityInv'
<1>1. KnowledgeTypeOK' /\ ResolverTypeOK' /\ DecisionsExist' /\ IdentifiersRecorded'
  BY TypeParts, CascadeTypes, UnsettleTypes, CascadeDecisions, CascadeIdentifiers
     DEF IdentityInv
<1>2. TypeOK'
  BY <1>1 DEF TypeOK, KnowledgeTypeOK, ResolverTypeOK
<1> QED BY <1>1, <1>2 DEF IdentityInv

\* The invariant holds at first.
LEMMA IdentityInit == Init => IdentityInv
<1>1. SUFFICES ASSUME Init PROVE IdentityInv
  OBVIOUS
<1>2. ExtractionTypeOK
  BY <1>1, ExtractionAssumption DEF Init, ExtractionInit, ExtractionTypeOK, Pending
<1>3. (CHOOSE j \in Job : TRUE) \in Job
  BY ExtractionAssumption
<1>4. TypeOK
  BY <1>1, <1>2, <1>3, ResolutionAssumption DEF Init, TypeOK
<1> QED BY <1>1, <1>4 DEF Init, IdentityInv, DecisionsExist, IdentifiersRecorded

\* Every step keeps it.
LEMMA IdentityStep == IdentityInv /\ [Next]_vars => IdentityInv'
<1>1. SUFFICES ASSUME IdentityInv, [Next]_vars PROVE IdentityInv'
  OBVIOUS
<1>2. TypeOK /\ ExtractionTypeOK /\ KnowledgeTypeOK /\ ResolverTypeOK
  BY <1>1, TypeParts DEF IdentityInv
<1>3. CASE Scan
  <2>1. PICK c \in Chunk, state \in {"current", "error", "deleted"} :
          /\ EditChunk(c, state)
          /\ Cascade(IF state = "deleted" THEN Job \X {c} ELSE {})
    BY <1>3 DEF Scan
  <2>2. ExtractionTypeOK'
    BY <1>2, <2>1, EditTypes
  <2>3. Unsettle(Job) /\ Job \in SUBSET Job
    BY <1>3 DEF Scan
  <2> QED BY <1>1, <1>2, <2>1, <2>2, <2>3, ScanCascades, CascadeKeepsIdentity
<1>4. ASSUME NEW x \in Extractor, QuietStep(x), UNCHANGED <<knowledge, resolver, resolves>>
      PROVE  IdentityInv'
  <2>1. ExtractionTypeOK'
    BY <1>2, <1>4, QuietTypes
  <2>2. answers' = answers
    BY <1>4 DEF QuietStep, Select, Prepare, Load, Finalize, Return, Abort, tables,
       RecordSchemaInvalid, RecordProviderFailure
  <2>3. KnowledgeTypeOK' /\ DecisionsExist' /\ IdentifiersRecorded'
    BY <1>1, <1>4, <2>2, KnowledgeStays DEF knowledge
  <2>4. ResolverTypeOK'
    BY <1>2, <1>4 DEF ResolverTypeOK, resolver
  <2>5. TypeOK'
    BY <2>1, <2>3, <2>4 DEF TypeOK, KnowledgeTypeOK, ResolverTypeOK
  <2> QED BY <2>3, <2>5 DEF IdentityInv
<1>5. ASSUME NEW x \in Extractor, NEW c \in Chunk, NEW a \in Answer,
             RecordSuccess(x, c, a), Cascade({<<job[x], c>>}), Unsettle({job[x]})
      PROVE  IdentityInv'
  <2>1. ExtractionTypeOK'
    BY <1>2, <1>5, RecordTypes
  <2>2. {job[x]} \in SUBSET Job
    BY <1>2 DEF ExtractionTypeOK
  <2> QED BY <1>1, <1>2, <1>5, <2>1, <2>2, RecordCascades, CascadeKeepsIdentity
<1>6. ASSUME NEW w \in Resolver, ResolutionStep(w)
      PROVE  IdentityInv'
  <2>1. ResolverTypeOK'
    BY <1>2, <1>6, ResolverTypes
  <2>2. ExtractionTypeOK' /\ answers' = answers
    <3>1. UNCHANGED extractionVars
      BY <1>6 DEF ResolutionStep, BeginResolve, LookUp, Write, ReadDecisions,
         InsertAssertions, ReturnResolve, AbortResolve
    <3> QED BY <1>2, <3>1 DEF extractionVars, tables, memory, ExtractionTypeOK
  <2>3. KnowledgeTypeOK' /\ DecisionsExist' /\ IdentifiersRecorded'
    <3>1. CASE Write(w)
      BY <1>1, <1>2, <3>1, WriteTypes, WriteIdentifiers
    <3>2. CASE ~ Write(w)
      <4>1. UNCHANGED <<entities, identifiers, decisions, lost>>
        BY <1>6, <3>2 DEF ResolutionStep, BeginResolve, LookUp, ReadDecisions,
           InsertAssertions, ReturnResolve, AbortResolve, knowledge
      <4> QED BY <1>1, <2>2, <4>1, KnowledgeStays
    <3> QED BY <3>1, <3>2
  <2>4. TypeOK'
    BY <2>1, <2>2, <2>3 DEF TypeOK, KnowledgeTypeOK, ResolverTypeOK
  <2> QED BY <2>3, <2>4 DEF IdentityInv
<1>7. CASE UNCHANGED vars
  <2>1. UNCHANGED <<answers, entities, identifiers, decisions, lost>>
    BY <1>7 DEF vars, extractionVars, tables, knowledge
  <2>2. DecisionsExist' /\ IdentifiersRecorded'
    BY <1>1, <2>1, KnowledgeStays
  <2>3. TypeOK'
    BY <1>2, <1>7 DEF vars, extractionVars, tables, memory, knowledge, resolver, TypeOK,
       ExtractionTypeOK
  <2> QED BY <2>2, <2>3 DEF IdentityInv
<1> QED
  BY <1>1, <1>3, <1>4, <1>5, <1>6, <1>7 DEF Next, ExtractionStep, QuietStep

\* It is an invariant, however many workers extract and resolve whatever.
THEOREM IdentityInvariance == Spec => []IdentityInv
<1>1. Init => IdentityInv BY IdentityInit
<1>2. IdentityInv /\ [Next]_vars => IdentityInv' BY IdentityStep
<1> QED BY <1>1, <1>2, PTL DEF Spec

\* Types are kept: one decision for a candidate, one entity for an identifier.
THEOREM ResolutionTypes == Spec => []TypeOK
<1>1. IdentityInv => TypeOK BY DEF IdentityInv
<1> QED BY <1>1, IdentityInvariance, PTL

\* Candidates that show one strong identifier are resolved to one entity, deferred, or
\* the row of the identifier was lost; however many workers resolve at once.
THEOREM OneIdentifierOneEntity == Spec => []SameIdentifierSameEntity
<1>1. ASSUME IdentityInv PROVE SameIdentifierSameEntity
  <2>1. SUFFICES ASSUME NEW d \in decisions, NEW e \in decisions,
                        NoEntity \notin {d.entity, e.entity},
                        NEW n \in IdentifiersOf(d.candidate) \cap IdentifiersOf(e.candidate),
                        n \notin lost
                 PROVE  d.entity = e.entity
    BY DEF SameIdentifierSameEntity
  <2>2. \E i \in identifiers : i.identifier = n /\ i.entity = d.entity
    BY <1>1, <2>1 DEF IdentityInv, IdentifiersRecorded
  <2>3. \E i \in identifiers : i.identifier = n /\ i.entity = e.entity
    BY <1>1, <2>1 DEF IdentityInv, IdentifiersRecorded
  <2> QED BY <1>1, <2>2, <2>3 DEF IdentityInv, TypeOK
<1> QED BY <1>1, IdentityInvariance, PTL

-----------------------------------------------------------------------------
(***************************************************************************)
(* What extraction keeps.                                                  *)
(***************************************************************************)

\* The lease of a job lets one worker at a time run it.
OneExtractor == \A x, y \in Extractor : x = y

\* The cells of the tables after a row is set.
LEMMA SetRowCells ==
  ASSUME ExtractionTypeOK, NEW j \in Job, NEW c \in Chunk, NEW status, SetRow(j, c, status)
  PROVE  \A i \in Job, b \in Chunk :
           rows'[i][b] = IF i = j /\ b = c /\ rows[j][c] # "none" THEN status ELSE rows[i][b]
<1>1. rows \in [Job -> [Chunk -> Pending \cup {"none", "succeeded", "schema_invalid"}]]
  BY DEF ExtractionTypeOK
<1>2. rows' = [rows EXCEPT ![j] =
                 [rows[j] EXCEPT ![c] = IF rows[j][c] = "none" THEN rows[j][c] ELSE status]]
  BY DEF SetRow
<1>3. ASSUME NEW i \in Job, NEW b \in Chunk
      PROVE  rows'[i][b] = IF i = j /\ b = c /\ rows[j][c] # "none"
                           THEN status ELSE rows[i][b]
  <2>1. rows[i] \in [Chunk -> Pending \cup {"none", "succeeded", "schema_invalid"}]
        /\ rows[j] \in [Chunk -> Pending \cup {"none", "succeeded", "schema_invalid"}]
    BY <1>1
  <2>2. CASE i = j
    <3>1. rows'[i] =
          [rows[j] EXCEPT ![c] = IF rows[j][c] = "none" THEN rows[j][c] ELSE status]
      BY <1>1, <1>2, <2>2
    <3> QED BY <2>1, <2>2, <3>1
  <2>3. CASE i # j
    BY <1>1, <1>2, <2>3
  <2> QED BY <2>2, <2>3
<1> QED BY <1>3

\* A scan deletes what it deletes everywhere, and workers that are under way know.
LEMMA EditKeepsExtraction ==
  ASSUME ExtractionInv, NEW c \in Chunk, NEW state \in {"current", "error", "deleted"},
         EditChunk(c, state)
  PROVE  ExtractionInv'
<1>0. ExtractionTypeOK /\ ExtractionTypeOK'
  BY EditTypes DEF ExtractionInv
<1>1. ASSUME NEW b \in Chunk
      PROVE  /\ chunks'[b] = IF b = c THEN state ELSE chunks[b]
             /\ chunks[b] = "deleted" => chunks'[b] = "deleted"
  BY <1>0 DEF ExtractionTypeOK, EditChunk, Turns
<1>2. ASSUME NEW j \in Job, NEW b \in Chunk
      PROVE  /\ rows'[j][b] = IF b = c /\ state = "deleted" THEN "none" ELSE rows[j][b]
             /\ answers'[j][b] = IF b = c /\ state = "deleted" THEN NoAnswer ELSE answers[j][b]
  <2>1. /\ rows[j] \in [Chunk -> Pending \cup {"none", "succeeded", "schema_invalid"}]
        /\ answers[j] \in [Chunk -> Answer \cup {NoAnswer}]
    BY <1>0 DEF ExtractionTypeOK
  <2>2. CASE state = "deleted"
    <3>1. /\ rows' = [i \in Job |-> [rows[i] EXCEPT ![c] = "none"]]
          /\ answers' = [i \in Job |-> [answers[i] EXCEPT ![c] = NoAnswer]]
      BY <2>2 DEF EditChunk
    <3>2. rows'[j] = [rows[j] EXCEPT ![c] = "none"]
          /\ answers'[j] = [answers[j] EXCEPT ![c] = NoAnswer]
      BY <3>1
    <3> QED BY <2>1, <2>2, <3>2
  <2>3. CASE state # "deleted"
    BY <2>3 DEF EditChunk
  <2> QED BY <2>2, <2>3
<1>3. UNCHANGED <<runs, pc, job, queue>>
  BY DEF EditChunk
<1>4. AnswersSucceeded'
  BY <1>1, <1>2 DEF ExtractionInv, AnswersSucceeded
<1>5. RowsHaveRun'
  BY <1>2, <1>3 DEF ExtractionInv, RowsHaveRun
<1>6. QueueIsPending'
  <2>1. ASSUME NEW x \in Extractor, NEW b \in queue[x]
        PROVE  chunks'[b] = "deleted" \/ rows'[job[x]][b] \in Pending
    <3>1. b \in Chunk /\ job[x] \in Job
      BY <1>0 DEF ExtractionTypeOK
    <3>2. chunks[b] = "deleted" \/ rows[job[x]][b] \in Pending
      BY DEF ExtractionInv, QueueIsPending
    <3> QED BY <1>1, <1>2, <3>1, <3>2
  <2> QED BY <1>3, <2>1 DEF ExtractionInv, QueueIsPending
<1>7. QueueIsWhole'
  <2>1. \A x \in Extractor : pc'[x] \in {"asking", "returned"} => touched'[x]
    BY <1>0, <1>3 DEF EditChunk, ExtractionTypeOK
  <2> QED BY <2>1 DEF QueueIsWhole
<1> QED BY <1>0, <1>4, <1>5, <1>6, <1>7 DEF ExtractionInv

\* A worker that ends has nothing left to ask.
LEMMA EndKeepsExtraction ==
  ASSUME OneExtractor, ExtractionInv, NEW x \in Extractor, End(x)
  PROVE  QueueIsPending' /\ QueueIsWhole'
<1>1. pc'[x] = "idle" /\ queue'[x] = {} /\ \A y \in Extractor : y = x
  BY DEF OneExtractor, ExtractionInv, ExtractionTypeOK, End, Goto
<1> QED BY <1>1 DEF QueueIsPending, QueueIsWhole

\* Every step of an extractor but recording an answer keeps the invariant.
LEMMA QuietKeepsExtraction ==
  ASSUME OneExtractor, ExtractionInv, NEW x \in Extractor, QuietStep(x)
  PROVE  ExtractionInv'
<1>0. ExtractionTypeOK /\ ExtractionTypeOK' /\ \A y \in Extractor : y = x
  BY QuietTypes DEF ExtractionInv, OneExtractor
<1>a. /\ AnswersSucceeded /\ RowsHaveRun /\ QueueIsPending /\ QueueIsWhole
      /\ job[x] \in Job /\ queue[x] \subseteq Chunk
  BY <1>0 DEF ExtractionInv, ExtractionTypeOK
<1>1. CASE Select(x)
  <2>1. pc'[x] = "preparing" /\ queue'[x] = {}
    BY <1>0, <1>1, <1>a DEF Select, Goto, ExtractionTypeOK, QueueIsPending
  <2>2. QueueIsPending' /\ QueueIsWhole'
    BY <1>0, <2>1 DEF QueueIsPending, QueueIsWhole
  <2>3. AnswersSucceeded' /\ RowsHaveRun'
    BY <1>1, <1>a DEF Select, tables, AnswersSucceeded, RowsHaveRun
  <2> QED BY <1>0, <2>2, <2>3 DEF ExtractionInv
<1>2. CASE Prepare(x)
  <2>0. chunks' = chunks /\ answers' = answers /\ pc[x] = "preparing"
    BY <1>2 DEF Prepare, tables
  <2>1. CASE End(x) /\ UNCHANGED tables
    <3>1. AnswersSucceeded' /\ RowsHaveRun'
      BY <1>a, <2>0, <2>1 DEF tables, AnswersSucceeded, RowsHaveRun
    <3> QED BY <1>0, <2>1, <3>1, EndKeepsExtraction DEF ExtractionInv
  <2>2. CASE Prepared(x)
    <3>1. pc'[x] = "loading" /\ queue'[x] = {}
      BY <1>0, <1>a, <2>0, <2>2 DEF Prepared, Goto, ExtractionTypeOK, QueueIsPending
    <3>2. QueueIsPending' /\ QueueIsWhole'
      BY <1>0, <3>1 DEF QueueIsPending, QueueIsWhole
    <3>3. CASE UNCHANGED tables
      BY <1>0, <1>a, <2>0, <3>2, <3>3 DEF tables, AnswersSucceeded, RowsHaveRun, ExtractionInv
    <3>4. CASE /\ runs[job[x]] = "none"
               /\ runs' = [runs EXCEPT ![job[x]] = "running"]
               /\ rows' = [rows EXCEPT ![job[x]] = [c \in Chunk |->
                             IF c \in selected[x] THEN "pending" ELSE "none"]]
      <4>1. ASSUME NEW j \in Job, j # job[x]
            PROVE  rows'[j] = rows[j] /\ runs'[j] = runs[j]
        BY <1>0, <3>4, <4>1 DEF ExtractionTypeOK
      <4>2. \A c \in Chunk : answers[job[x]][c] = NoAnswer
        BY <1>a, <3>4 DEF AnswersSucceeded, RowsHaveRun
      <4>3. runs'[job[x]] = "running"
        BY <1>0, <1>a, <3>4 DEF ExtractionTypeOK
      <4>4. AnswersSucceeded'
        BY <1>a, <2>0, <4>1, <4>2 DEF AnswersSucceeded
      <4>5. RowsHaveRun'
        BY <1>a, <4>1, <4>3 DEF RowsHaveRun
      <4> QED BY <1>0, <3>2, <4>4, <4>5 DEF ExtractionInv
    <3> QED BY <1>2, <2>1, <3>3, <3>4 DEF Prepare
  <2> QED BY <1>2, <2>1, <2>2 DEF Prepare
<1>3. CASE Load(x)
  <2>1. /\ queue'[x] = ToAsk(job[x]) /\ pc'[x] = "asking"
        /\ UNCHANGED <<chunks, runs, rows, answers, job>>
    BY <1>0, <1>3 DEF Load, Goto, tables, ExtractionTypeOK
  <2>2. QueueIsPending' /\ QueueIsWhole'
    BY <1>0, <2>1 DEF QueueIsPending, QueueIsWhole, ToAsk
  <2>3. AnswersSucceeded' /\ RowsHaveRun'
    BY <1>a, <2>1 DEF AnswersSucceeded, RowsHaveRun
  <2> QED BY <1>0, <2>2, <2>3 DEF ExtractionInv
<1>4. CASE Finalize(x)
  <2>1. /\ pc'[x] = "returned" /\ pc[x] = "asking" /\ queue[x] = {}
        /\ UNCHANGED <<chunks, rows, answers, job, queue, touched>>
    BY <1>0, <1>4 DEF Finalize, Goto, ExtractionTypeOK
  <2>2. QueueIsPending' /\ QueueIsWhole'
    BY <1>0, <1>a, <2>1 DEF QueueIsPending, QueueIsWhole, ToAsk
  <2>3. \A j \in Job : runs'[j] = "none" => runs[j] = "none"
    BY <1>0, <1>4 DEF Finalize, ExtractionTypeOK
  <2>4. AnswersSucceeded' /\ RowsHaveRun'
    BY <1>a, <2>1, <2>3 DEF AnswersSucceeded, RowsHaveRun
  <2> QED BY <1>0, <2>2, <2>4 DEF ExtractionInv
<1>5. CASE Return(x) \/ Abort(x)
  <2>1. End(x) /\ UNCHANGED <<chunks, runs, rows, answers>>
    BY <1>5 DEF Return, Abort, tables
  <2>2. AnswersSucceeded' /\ RowsHaveRun'
    BY <1>a, <2>1 DEF AnswersSucceeded, RowsHaveRun
  <2> QED BY <1>0, <2>1, <2>2, EndKeepsExtraction DEF ExtractionInv
<1>6. ASSUME NEW c \in Chunk, NEW status \in {"schema_invalid", "provider_failed"},
             c \in queue[x], SetRow(job[x], c, status), UNCHANGED <<chunks, runs, answers>>
      PROVE  AnswersSucceeded' /\ RowsHaveRun'
  <2>1. \A i \in Job, b \in Chunk :
          rows'[i][b] = IF i = job[x] /\ b = c /\ rows[job[x]][c] # "none"
                        THEN status ELSE rows[i][b]
    BY <1>0, <1>6, <1>a, SetRowCells
  <2>2. answers[job[x]][c] = NoAnswer
    BY <1>6, <1>a DEF AnswersSucceeded, QueueIsPending, Pending
  <2>3. AnswersSucceeded'
    BY <1>6, <1>a, <2>1, <2>2 DEF AnswersSucceeded
  <2>4. RowsHaveRun'
    BY <1>6, <1>a, <2>1 DEF RowsHaveRun
  <2> QED BY <2>3, <2>4
<1>7. ASSUME NEW c \in Chunk, RecordSchemaInvalid(x, c)
      PROVE  ExtractionInv'
  <2>1. /\ pc[x] = "asking" /\ c \in queue[x] /\ queue'[x] = queue[x] \ {c}
        /\ SetRow(job[x], c, "schema_invalid")
        /\ UNCHANGED <<chunks, runs, answers, pc, job, touched>>
    BY <1>0, <1>7 DEF RecordSchemaInvalid, Asked, ExtractionTypeOK
  <2>2. AnswersSucceeded' /\ RowsHaveRun'
    BY <1>6, <2>1
  <2>3. \A b \in Chunk : rows'[job[x]][b] =
          IF b = c /\ rows[job[x]][c] # "none" THEN "schema_invalid" ELSE rows[job[x]][b]
    BY <1>0, <1>a, <2>1, SetRowCells
  <2>4. QueueIsPending'
    BY <1>0, <1>a, <2>1, <2>3 DEF QueueIsPending
  <2>5. QueueIsWhole'
    BY <1>0, <1>a, <2>1, <2>3 DEF QueueIsWhole, ToAsk, Pending
  <2> QED BY <1>0, <2>2, <2>4, <2>5 DEF ExtractionInv
<1>8. ASSUME NEW c \in Chunk, RecordProviderFailure(x, c)
      PROVE  ExtractionInv'
  <2>1. AnswersSucceeded' /\ RowsHaveRun'
    BY <1>6, <1>8 DEF RecordProviderFailure
  <2> QED BY <1>0, <1>8, <2>1, EndKeepsExtraction DEF ExtractionInv, RecordProviderFailure
<1> QED BY <1>1, <1>2, <1>3, <1>4, <1>5, <1>7, <1>8 DEF QuietStep

\* A recorded answer replaces none.
LEMMA RecordedOnce ==
  ASSUME ExtractionInv, NEW x \in Extractor, NEW c \in Chunk, NEW a \in Answer,
         RecordSuccess(x, c, a)
  PROVE  answers[job[x]][c] = NoAnswer /\ rows[job[x]][c] \in Pending
BY DEF ExtractionInv, ExtractionTypeOK, RecordSuccess, Asked, AnswersSucceeded, QueueIsPending,
   Pending

\* Recording an answer keeps the invariant.
LEMMA RecordKeepsExtraction ==
  ASSUME OneExtractor, ExtractionInv, NEW x \in Extractor, NEW c \in Chunk, NEW a \in Answer,
         RecordSuccess(x, c, a)
  PROVE  ExtractionInv'
<1>0. ExtractionTypeOK /\ ExtractionTypeOK' /\ \A y \in Extractor : y = x
  BY RecordTypes DEF ExtractionInv, OneExtractor
<1>a. /\ AnswersSucceeded /\ RowsHaveRun /\ QueueIsPending /\ QueueIsWhole
      /\ job[x] \in Job /\ rows[job[x]][c] \in Pending
  BY <1>0, RecordedOnce DEF ExtractionInv, ExtractionTypeOK
<1>1. /\ pc[x] = "asking" /\ c \in queue[x] /\ queue'[x] = queue[x] \ {c}
      /\ chunks[c] # "deleted" /\ SetRow(job[x], c, "succeeded")
      /\ UNCHANGED <<chunks, runs, pc, job, touched>>
  BY <1>0 DEF RecordSuccess, Asked, ExtractionTypeOK
<1>2. \A i \in Job, b \in Chunk :
        rows'[i][b] = IF i = job[x] /\ b = c THEN "succeeded" ELSE rows[i][b]
  BY <1>0, <1>1, <1>a, SetRowCells DEF Pending
<1>3. ASSUME NEW i \in Job, NEW b \in Chunk, ~ (i = job[x] /\ b = c)
      PROVE  answers'[i][b] = answers[i][b]
  <2>1. answers[i] \in [Chunk -> Answer \cup {NoAnswer}]
    BY <1>0 DEF ExtractionTypeOK
  <2>2. answers' = [answers EXCEPT ![job[x]] = [answers[job[x]] EXCEPT ![c] = a]]
    BY DEF RecordSuccess
  <2> QED BY <1>0, <1>3, <2>1, <2>2 DEF ExtractionTypeOK
<1>4. AnswersSucceeded'
  BY <1>1, <1>2, <1>3, <1>a DEF AnswersSucceeded
<1>5. RowsHaveRun'
  <2>1. runs[job[x]] # "none"
    BY <1>a DEF RowsHaveRun, Pending
  <2> QED BY <1>1, <1>2, <1>a, <2>1 DEF RowsHaveRun
<1>6. QueueIsPending'
  <2>1. \A b \in queue'[x] : b \in queue[x] /\ b # c /\ b \in Chunk
    BY <1>0, <1>1 DEF ExtractionTypeOK
  <2>2. \A b \in queue'[x] : chunks'[b] = "deleted" \/ rows'[job'[x]][b] \in Pending
    BY <1>1, <1>2, <1>a, <2>1 DEF QueueIsPending
  <2> QED BY <1>0, <1>1, <2>2 DEF QueueIsPending
<1>7. QueueIsWhole'
  BY <1>0, <1>1, <1>2, <1>a DEF QueueIsWhole, ToAsk, Pending
<1> QED BY <1>0, <1>4, <1>5, <1>6, <1>7 DEF ExtractionInv

\* The invariant of the extraction holds at first ...
LEMMA ExtractionInitially == Init => ExtractionInv
<1>1. SUFFICES ASSUME Init PROVE ExtractionInv
  OBVIOUS
<1>2. ExtractionTypeOK
  BY <1>1, IdentityInit DEF IdentityInv, TypeOK
<1> QED
  BY <1>1, <1>2 DEF Init, ExtractionInit, ExtractionInv, AnswersSucceeded, RowsHaveRun,
     QueueIsPending, QueueIsWhole

\* ... and every step keeps it.
LEMMA ExtractionKept ==
  ASSUME OneExtractor, ExtractionInv, [Next]_vars
  PROVE  ExtractionInv'
<1>1. CASE Scan
  BY <1>1, EditKeepsExtraction DEF Scan
<1>2. ASSUME NEW x \in Extractor, ExtractionStep(x)
      PROVE  ExtractionInv'
  BY <1>2, QuietKeepsExtraction, RecordKeepsExtraction DEF ExtractionStep, QuietStep
<1>3. CASE UNCHANGED extractionVars
  BY <1>3 DEF extractionVars, tables, memory, ExtractionInv, ExtractionTypeOK,
     AnswersSucceeded, RowsHaveRun, QueueIsPending, QueueIsWhole, ToAsk
<1>4. ASSUME NEW w \in Resolver, ResolutionStep(w)
      PROVE  UNCHANGED extractionVars
  BY <1>4 DEF ResolutionStep, BeginResolve, LookUp, Write, ReadDecisions,
     InsertAssertions, ReturnResolve, AbortResolve
<1> QED BY <1>1, <1>2, <1>3, <1>4 DEF Next, vars

\* It is an invariant if one worker at a time extracts.
THEOREM ExtractionInvariance == ASSUME OneExtractor PROVE Spec => []ExtractionInv
<1>1. Init => ExtractionInv BY ExtractionInitially
<1>2. ExtractionInv /\ [Next]_vars => ExtractionInv' BY ExtractionKept
<1> QED BY <1>1, <1>2, PTL DEF Spec

\* A job that returns leaves nothing of its run to be asked, but for chunks that have
\* changed since it loaded its list.
THEOREM RunsMissNothing == ASSUME OneExtractor PROVE Spec => []FinishedRunMissesNothing
<1>1. ASSUME ExtractionInv PROVE FinishedRunMissesNothing
  BY <1>1 DEF ExtractionInv, QueueIsPending, QueueIsWhole, FinishedRunMissesNothing, ToAsk
<1> QED BY <1>1, ExtractionInvariance, PTL

\* No step replaces a recorded answer: it goes with its chunk only.
THEOREM AnswersStay == ASSUME OneExtractor PROVE Spec => AnswersAreKept
<1>1. ASSUME ExtractionInv, [Next]_vars
      PROVE  [ResumeKeepsAnswers]_extractionVars
  <2>0. ExtractionTypeOK
    BY <1>1 DEF ExtractionInv
  <2>1. CASE Scan
    <3>1. PICK c \in Chunk, state \in {"current", "error", "deleted"} : EditChunk(c, state)
      BY <2>1 DEF Scan
    <3>2. CASE state = "deleted"
      <4>1. ASSUME NEW j \in Job, NEW b \in Chunk
            PROVE  answers'[j][b] = answers[j][b] \/ chunks'[b] = "deleted"
        <5>1. answers[j] \in [Chunk -> Answer \cup {NoAnswer}]
          BY <2>0 DEF ExtractionTypeOK
        <5>2. answers'[j] = [answers[j] EXCEPT ![c] = NoAnswer]
          BY <3>1, <3>2 DEF EditChunk
        <5>3. chunks'[c] = "deleted"
          BY <2>0, <3>1, <3>2 DEF EditChunk, ExtractionTypeOK
        <5> QED BY <5>1, <5>2, <5>3
      <4> QED BY <4>1 DEF ResumeKeepsAnswers
    <3>3. CASE state # "deleted"
      BY <3>1, <3>3 DEF EditChunk, ResumeKeepsAnswers
    <3> QED BY <3>2, <3>3
  <2>2. ASSUME NEW x \in Extractor, QuietStep(x)
        PROVE  ResumeKeepsAnswers
    <3>1. answers' = answers
      BY <2>2 DEF QuietStep, Select, Prepare, Load, Finalize, Return, Abort, tables,
         RecordSchemaInvalid, RecordProviderFailure
    <3> QED BY <3>1 DEF ResumeKeepsAnswers
  <2>3. ASSUME NEW x \in Extractor, NEW c \in Chunk, NEW a \in Answer, RecordSuccess(x, c, a)
        PROVE  ResumeKeepsAnswers
    <3>1. answers[job[x]][c] = NoAnswer
      BY <1>1, <2>3, RecordedOnce
    <3>2. ASSUME NEW i \in Job, NEW b \in Chunk, answers[i][b] # NoAnswer
          PROVE  answers'[i][b] = answers[i][b]
      <4>1. answers[i] \in [Chunk -> Answer \cup {NoAnswer}] /\ ~ (i = job[x] /\ b = c)
        BY <2>0, <3>1, <3>2 DEF ExtractionTypeOK
      <4>2. answers' = [answers EXCEPT ![job[x]] = [answers[job[x]] EXCEPT ![c] = a]]
        BY <2>3 DEF RecordSuccess
      <4> QED BY <2>0, <4>1, <4>2 DEF ExtractionTypeOK
    <3> QED BY <3>2 DEF ResumeKeepsAnswers
  <2>4. ASSUME NEW w \in Resolver, ResolutionStep(w)
        PROVE  UNCHANGED extractionVars
    BY <2>4 DEF ResolutionStep, BeginResolve, LookUp, Write, ReadDecisions,
       InsertAssertions, ReturnResolve, AbortResolve
  <2> QED
    BY <1>1, <2>1, <2>2, <2>3, <2>4 DEF Next, vars, ExtractionStep, QuietStep
<1> QED BY <1>1, ExtractionInvariance, PTL DEF Spec, AnswersAreKept

-----------------------------------------------------------------------------
(***************************************************************************)
(* What is known has a source that is there.                               *)
(***************************************************************************)

\* What the assertions of a run are made of.
LEMMA AssertionsMade ==
  ASSUME NEW j, NEW D, NEW a \in AssertionsOf(j, D)
  PROVE  \E c \in Chunk, s \in D, o \in D : \E r \in ValidRelationships(answers[j][c]) :
           /\ r.subject = s.candidate.local /\ s.candidate.chunk = c
           /\ r.object = o.candidate.local /\ o.candidate.chunk = c
           /\ a = Assertion(j, c, r, s.entity, o.entity)
BY DEF AssertionsOf

\* ... and the other way round.
LEMMA MadeAssertions ==
  ASSUME NEW j, NEW D, NEW c \in Chunk, NEW s \in D, NEW o \in D,
         NEW r \in ValidRelationships(answers[j][c]),
         r.subject = s.candidate.local, s.candidate.chunk = c,
         r.object = o.candidate.local, o.candidate.chunk = c
  PROVE  Assertion(j, c, r, s.entity, o.entity) \in AssertionsOf(j, D)
<1> DEFINE Of(b, p, q) ==
             {Assertion(j, b, t, p.entity, q.entity) :
                t \in {u \in ValidRelationships(answers[j][b]) :
                         /\ u.subject = p.candidate.local /\ p.candidate.chunk = b
                         /\ u.object = q.candidate.local /\ q.candidate.chunk = b}}
<1>1. AssertionsOf(j, D) = UNION {Of(b, p, q) : b \in Chunk, p \in D, q \in D}
  BY DEF AssertionsOf
<1>2. Assertion(j, c, r, s.entity, o.entity) \in Of(c, s, o)
  OBVIOUS
<1> HIDE DEF Of
<1>3. Of(c, s, o) \in {Of(b, p, q) : b \in Chunk, p \in D, q \in D}
  OBVIOUS
<1> QED BY <1>1, <1>2, <1>3

\* A candidate that is there has a chunk that is there.
LEMMA CandidatesHaveChunks ==
  ASSUME ExtractionInv, NEW k \in Candidate, Exists(k)
  PROVE  chunks[k.chunk] # "deleted"
BY DEF ExtractionInv, AnswersSucceeded, Candidate, Exists, AnswerOf, NoAnswer

\* Deleted chunks stay deleted.
LEMMA DeletedForGood ==
  ASSUME ExtractionTypeOK, NEW c \in Chunk, NEW state, EditChunk(c, state),
         NEW b \in Chunk, chunks[b] = "deleted"
  PROVE  chunks'[b] = "deleted"
BY DEF ExtractionTypeOK, EditChunk, Turns

\* The part of the invariant that is about rows, ...
RowsAreGrounded == KnowledgeIsGrounded /\ AssertionsAreGrounded /\ AssertionsAreRows

\* ... and about what resolvers have read.
MemoryIsValid == TodoIsValid /\ ResolvedIsDecided

\* A cascade leaves rows that are grounded in what it leaves.
LEMMA CascadeKeepsRows ==
  ASSUME KnowledgeTypeOK, RowsAreGrounded,
         NEW pairs \in SUBSET (Job \X Chunk), Cascade(pairs), AnswersElsewhere(pairs)
  PROVE  RowsAreGrounded'
<1>1. ASSUME NEW d \in decisions, d.candidate \notin Gone(pairs), d.entity \notin Gone(pairs)
      PROVE  d \in decisions'
  BY <1>1, CascadeRows
<1>2. ASSUME NEW k \in Candidate, Valid(k), k \notin Gone(pairs)
      PROVE  Valid(k)' /\ IdentifiersOf(k)' = IdentifiersOf(k)
  BY <1>2, OthersStay DEF Valid
<1>3. KnowledgeIsGrounded'
  <2>1. ASSUME NEW e \in entities'
        PROVE  \E d \in decisions' : d.candidate = e /\ d.entity = e /\ Valid(e)'
    <3>1. e \in entities /\ e \notin Gone(pairs) /\ e \in Candidate
      BY CascadeRows DEF KnowledgeTypeOK
    <3>2. PICK d \in decisions : d.candidate = e /\ d.entity = e /\ Valid(e)
      BY <3>1 DEF RowsAreGrounded, KnowledgeIsGrounded
    <3> QED BY <1>1, <1>2, <3>1, <3>2
  <2>2. ASSUME NEW i \in identifiers'
        PROVE  \E d \in decisions' :
                 /\ d.candidate = i.source /\ d.entity = i.entity
                 /\ Valid(i.source)' /\ i.identifier \in IdentifiersOf(i.source)'
    <3>1. /\ i \in identifiers /\ i.source \in Candidate
          /\ i.source \notin Gone(pairs) /\ i.entity \notin Gone(pairs)
      BY CascadeRows DEF KnowledgeTypeOK, Identity
    <3>2. PICK d \in decisions :
            /\ d.candidate = i.source /\ d.entity = i.entity
            /\ Valid(i.source) /\ i.identifier \in IdentifiersOf(i.source)
      BY <3>1 DEF RowsAreGrounded, KnowledgeIsGrounded
    <3> QED BY <1>1, <1>2, <3>1, <3>2
  <2> QED BY <2>1, <2>2 DEF KnowledgeIsGrounded
<1>4. ASSUME NEW a \in assertions'
      PROVE  /\ a \in assertions /\ a.job \in Job /\ a.chunk \in Chunk
             /\ <<a.job, a.chunk>> \notin pairs
             /\ a.subject \notin Gone(pairs) /\ a.object \notin Gone(pairs)
             /\ a = Assertion(a.job, a.chunk, a.relationship, a.subject, a.object)
             /\ answers'[a.job][a.chunk] = answers[a.job][a.chunk]
  BY CascadeRows DEF RowsAreGrounded, AssertionsAreRows, AnswersElsewhere
<1>5. AssertionsAreGrounded'
  <2>1. ASSUME NEW a \in assertions'
        PROVE  a.relationship \in ValidRelationships(answers'[a.job][a.chunk])
    <3>1. a.relationship \in ValidRelationships(answers[a.job][a.chunk])
      BY <1>4 DEF RowsAreGrounded, AssertionsAreGrounded
    <3>2. answers'[a.job][a.chunk] = answers[a.job][a.chunk]
      BY <1>4
    <3> QED BY <3>1, <3>2
  <2>2. ASSUME NEW a \in assertions',
               NEW end \in {<<a.relationship.subject, a.subject>>,
                            <<a.relationship.object, a.object>>}
        PROVE  \E d \in decisions' :
                 /\ d.candidate = [job |-> a.job, chunk |-> a.chunk, local |-> end[1]]
                 /\ d.entity = end[2]
    <3>1. PICK d \in decisions :
            /\ d.candidate = [job |-> a.job, chunk |-> a.chunk, local |-> end[1]]
            /\ d.entity = end[2]
      BY <1>4, <2>2 DEF RowsAreGrounded, AssertionsAreGrounded
    <3>2. d.candidate \in Candidate /\ d.candidate.job = a.job /\ d.candidate.chunk = a.chunk
      BY <3>1 DEF KnowledgeTypeOK, Decision
    <3>3. d.candidate \notin Gone(pairs)
      BY <1>4, <3>2, GoneCandidates
    <3>4. end[2] \in {a.subject, a.object}
      BY <2>2
    <3>5. d.entity \notin Gone(pairs)
      BY <1>4, <3>1, <3>4
    <3> QED BY <1>1, <3>1, <3>3, <3>5
  <2> QED BY <2>1, <2>2 DEF AssertionsAreGrounded, ValidRelationships, Sound
<1>6. AssertionsAreRows'
  BY <1>4 DEF AssertionsAreRows
<1> QED BY <1>3, <1>5, <1>6 DEF RowsAreGrounded

\* If what is gone went with its chunk, what resolvers have read is still valid or its
\* chunk is deleted.
LEMMA CascadeKeepsMemory ==
  ASSUME TypeOK, MemoryIsValid,
         NEW pairs \in SUBSET (Job \X Chunk), Cascade(pairs), AnswersElsewhere(pairs),
         \A k \in Gone(pairs) : chunks'[k.chunk] = "deleted",
         \A c \in Chunk : chunks[c] = "deleted" => chunks'[c] = "deleted",
         UNCHANGED <<at, run, todo, resolved>>
  PROVE  MemoryIsValid'
<1>1. TodoIsValid'
  <2>1. ASSUME NEW w \in Resolver, NEW k \in todo[w]
        PROVE  k.job = run[w] /\ (Valid(k)' \/ chunks'[k.chunk] = "deleted")
    <3>1. k \in Candidate /\ k.chunk \in Chunk /\ k.job = run[w]
          /\ (Valid(k) \/ chunks[k.chunk] = "deleted")
      BY DEF TypeOK, MemoryIsValid, TodoIsValid, Candidate
    <3>2. CASE Valid(k) /\ k \notin Gone(pairs)
      BY <3>1, <3>2, OthersStay DEF Valid
    <3> QED BY <3>1, <3>2
  <2> QED BY <2>1 DEF TodoIsValid
<1>2. ResolvedIsDecided'
  <2>1. ASSUME NEW w \in Resolver, NEW d \in resolved[w]
        PROVE  /\ d.candidate.job = run[w] /\ d.entity # NoEntity
               /\ \/ d \in decisions'
                  \/ chunks'[d.candidate.chunk] = "deleted" \/ chunks'[d.entity.chunk] = "deleted"
    <3>1. /\ d.candidate.job = run[w] /\ d.entity # NoEntity
          /\ \/ d \in decisions
             \/ chunks[d.candidate.chunk] = "deleted" \/ chunks[d.entity.chunk] = "deleted"
      BY DEF MemoryIsValid, ResolvedIsDecided
    <3>2. d.candidate.chunk \in Chunk /\ d.entity.chunk \in Chunk
      BY <3>1 DEF TypeOK, Decision, Candidate
    <3>3. CASE d \in decisions
      BY <3>1, <3>3, CascadeRows
    <3> QED BY <3>1, <3>2, <3>3
  <2>2. \A w \in Resolver : at[w] \in {"inserting", "returned"} \/ resolved[w] = {}
    BY DEF MemoryIsValid, ResolvedIsDecided
  <2> QED BY <2>1, <2>2 DEF ResolvedIsDecided
<1> QED BY <1>1, <1>2 DEF MemoryIsValid

\* The assertions there are stay grounded as long as decisions only come.
LEMMA DecisionsGroundAssertions ==
  ASSUME AssertionsAreGrounded, UNCHANGED <<answers, assertions>>, decisions \subseteq decisions'
  PROVE  AssertionsAreGrounded'
<1>1. ASSUME NEW a \in assertions
      PROVE  /\ a.relationship \in ValidRelationships(answers'[a.job][a.chunk])
             /\ \A end \in {<<a.relationship.subject, a.subject>>,
                            <<a.relationship.object, a.object>>} :
                  \E d \in decisions' :
                    /\ d.candidate = [job |-> a.job, chunk |-> a.chunk, local |-> end[1]]
                    /\ d.entity = end[2]
  <2>1. a.relationship \in ValidRelationships(answers[a.job][a.chunk])
    BY DEF AssertionsAreGrounded
  <2>2. answers' = answers
    OBVIOUS
  <2>3. a.relationship \in ValidRelationships(answers'[a.job][a.chunk])
    BY <2>1, <2>2
  <2>4. ASSUME NEW end \in {<<a.relationship.subject, a.subject>>,
                            <<a.relationship.object, a.object>>}
        PROVE  \E d \in decisions' :
                 /\ d.candidate = [job |-> a.job, chunk |-> a.chunk, local |-> end[1]]
                 /\ d.entity = end[2]
    BY <2>4 DEF AssertionsAreGrounded
  <2> QED BY <2>3, <2>4
<1>2. assertions' = assertions
  OBVIOUS
<1> QED BY <1>1, <1>2 DEF AssertionsAreGrounded, ValidRelationships, Sound

\* What leaves the answers and the rows alone leaves them grounded.
LEMMA RowsStay ==
  ASSUME RowsAreGrounded, UNCHANGED <<answers, knowledge>>
  PROVE  RowsAreGrounded'
<1>1. KnowledgeIsGrounded'
  BY DEF RowsAreGrounded, KnowledgeIsGrounded, Valid, Exists, IdentifiersOf, AnswerOf, knowledge
<1>2. AssertionsAreGrounded'
  BY DecisionsGroundAssertions DEF knowledge, RowsAreGrounded
<1>3. AssertionsAreRows'
  BY DEF RowsAreGrounded, AssertionsAreRows, knowledge
<1> QED BY <1>1, <1>2, <1>3 DEF RowsAreGrounded

\* A decision that is written grounds its entity and its identifiers.
LEMMA WriteKeepsRows ==
  ASSUME TypeOK, ExtractionInv, RowsAreGrounded, MemoryIsValid, NEW w \in Resolver, Write(w)
  PROVE  RowsAreGrounded'
<1>0. UNCHANGED <<answers, assertions>>
  BY DEF Write, extractionVars, tables
<1>1. PICK k \in todo[w] :
           /\ k \in Candidate /\ Exists(k) /\ k \notin Decided
           /\ Deferred(k) \/ \E e \in Candidate : ResolvedTo(k, e)
  BY WriteRows
<1>2. Valid(k)
  BY <1>1, CandidatesHaveChunks DEF MemoryIsValid, TodoIsValid
<1>3. decisions \subseteq decisions'
  BY <1>1 DEF Deferred, ResolvedTo
<1>4. KnowledgeIsGrounded'
  <2>0. \A h \in Candidate : Valid(h)' = Valid(h) /\ IdentifiersOf(h)' = IdentifiersOf(h)
    BY <1>0 DEF Valid, Exists, IdentifiersOf, AnswerOf
  <2>1. ASSUME NEW e \in entities
        PROVE  \E d \in decisions' : d.candidate = e /\ d.entity = e /\ Valid(e)'
    <3>1. e \in Candidate
      BY DEF TypeOK
    <3> QED BY <1>3, <2>0, <3>1 DEF RowsAreGrounded, KnowledgeIsGrounded
  <2>2. ASSUME NEW i \in identifiers
        PROVE  \E d \in decisions' :
                 /\ d.candidate = i.source /\ d.entity = i.entity
                 /\ Valid(i.source)' /\ i.identifier \in IdentifiersOf(i.source)'
    <3>1. i.source \in Candidate
      BY DEF TypeOK, Identity
    <3> QED BY <1>3, <2>0, <3>1 DEF RowsAreGrounded, KnowledgeIsGrounded
  <2>3. CASE Deferred(k)
    BY <2>1, <2>2, <2>3 DEF Deferred, KnowledgeIsGrounded
  <2>4. ASSUME NEW e \in Candidate, ResolvedTo(k, e)
        PROVE  KnowledgeIsGrounded'
    <3> DEFINE new == [candidate |-> k, entity |-> e,
                       decision |-> IF e = k THEN "create" ELSE "merge"]
    <3>1. new \in decisions' /\ new.candidate = k /\ new.entity = e
      BY <2>4 DEF ResolvedTo
    <3> HIDE DEF new
    <3>2. ASSUME NEW f \in entities'
          PROVE  \E d \in decisions' : d.candidate = f /\ d.entity = f /\ Valid(f)'
      <4>1. CASE f \in entities
        BY <2>1, <4>1
      <4>2. CASE f = k /\ e = k
        BY <1>1, <1>2, <2>0, <3>1, <4>2
      <4> QED BY <2>4, <4>1, <4>2 DEF ResolvedTo
    <3>3. ASSUME NEW i \in identifiers'
          PROVE  \E d \in decisions' :
                   /\ d.candidate = i.source /\ d.entity = i.entity
                   /\ Valid(i.source)' /\ i.identifier \in IdentifiersOf(i.source)'
      <4>1. CASE i \in identifiers
        BY <2>2, <4>1
      <4>2. CASE i \in Identities(k, e)
        <5>1. i.identifier \in IdentifiersOf(k) /\ i.entity = e /\ i.source = k
          BY <1>1, <4>2, IdentitiesAre
        <5> QED BY <1>1, <1>2, <2>0, <3>1, <5>1
      <4> QED BY <2>4, <4>1, <4>2 DEF ResolvedTo
    <3> QED BY <3>2, <3>3 DEF KnowledgeIsGrounded
  <2> QED BY <1>1, <2>3, <2>4
<1>5. AssertionsAreGrounded' /\ AssertionsAreRows'
  BY <1>0, <1>3, DecisionsGroundAssertions DEF RowsAreGrounded, AssertionsAreRows
<1> QED BY <1>4, <1>5 DEF RowsAreGrounded

\* Insertion makes assertions that are grounded: what it has read is still decided, or
\* one of the rows it would refer to is gone.
LEMMA InsertKeepsRows ==
  ASSUME TypeOK, ExtractionInv, RowsAreGrounded, MemoryIsValid,
         NEW w \in Resolver, InsertAssertions(w)
  PROVE  RowsAreGrounded'
<1>0. UNCHANGED <<answers, entities, identifiers, decisions>>
  BY DEF InsertAssertions, extractionVars, tables
<1>1. KnowledgeIsGrounded'
  BY <1>0 DEF RowsAreGrounded, KnowledgeIsGrounded, Valid, Exists, IdentifiersOf, AnswerOf
<1>2. ASSUME NEW e \in entities
      PROVE  e \in Candidate /\ chunks[e.chunk] # "deleted"
  <2>1. e \in Candidate /\ Exists(e)
    BY DEF TypeOK, RowsAreGrounded, KnowledgeIsGrounded, Valid
  <2> QED BY <2>1, CandidatesHaveChunks
<1>3. ASSUME NEW a \in assertions', a \notin assertions
      PROVE  \E c \in Chunk, s \in decisions, o \in decisions :
             \E r \in ValidRelationships(answers[run[w]][c]) :
               /\ s.candidate = [job |-> run[w], chunk |-> c, local |-> r.subject]
               /\ o.candidate = [job |-> run[w], chunk |-> c, local |-> r.object]
               /\ a = Assertion(run[w], c, r, s.entity, o.entity)
  <2>1. a \in AssertionsOf(run[w], resolved[w]) /\ {a.subject, a.object} \subseteq entities
    BY <1>3 DEF InsertAssertions
  <2>2. PICK c \in Chunk, s \in resolved[w], o \in resolved[w] :
          \E r \in ValidRelationships(answers[run[w]][c]) :
            /\ r.subject = s.candidate.local /\ s.candidate.chunk = c
            /\ r.object = o.candidate.local /\ o.candidate.chunk = c
            /\ a = Assertion(run[w], c, r, s.entity, o.entity)
    BY <2>1, AssertionsMade
  <2>3. PICK r \in ValidRelationships(answers[run[w]][c]) :
            /\ r.subject = s.candidate.local /\ s.candidate.chunk = c
            /\ r.object = o.candidate.local /\ o.candidate.chunk = c
            /\ a = Assertion(run[w], c, r, s.entity, o.entity)
    BY <2>2
  <2>4. a.subject = s.entity /\ a.object = o.entity
    BY <2>3 DEF Assertion
  <2>5. chunks[c] # "deleted"
    <3>1. answers[run[w]][c] # NoAnswer /\ run[w] \in Job
      BY <2>3 DEF ValidRelationships, NoAnswer, TypeOK
    <3> QED BY <3>1 DEF ExtractionInv, AnswersSucceeded
  <2>6. chunks[s.entity.chunk] # "deleted" /\ chunks[o.entity.chunk] # "deleted"
    BY <1>2, <2>1, <2>4
  <2>7. s \in decisions /\ o \in decisions
    BY <2>3, <2>5, <2>6 DEF MemoryIsValid, ResolvedIsDecided
  <2>8. /\ s.candidate \in Candidate /\ s.candidate.job = run[w]
        /\ o.candidate \in Candidate /\ o.candidate.job = run[w]
    BY <2>7 DEF TypeOK, Decision, MemoryIsValid, ResolvedIsDecided
  <2>9. /\ s.candidate = [job |-> run[w], chunk |-> c, local |-> r.subject]
        /\ o.candidate = [job |-> run[w], chunk |-> c, local |-> r.object]
    BY <2>3, <2>8 DEF Candidate
  <2> QED BY <2>3, <2>7, <2>9
<1>4. ASSUME NEW a \in assertions', a \notin assertions
      PROVE  /\ a.relationship \in ValidRelationships(answers'[a.job][a.chunk])
             /\ \A end \in {<<a.relationship.subject, a.subject>>,
                            <<a.relationship.object, a.object>>} :
                  \E d \in decisions' :
                    /\ d.candidate = [job |-> a.job, chunk |-> a.chunk, local |-> end[1]]
                    /\ d.entity = end[2]
             /\ a.job \in Job /\ a.chunk \in Chunk
             /\ a = Assertion(a.job, a.chunk, a.relationship, a.subject, a.object)
  <2>1. PICK c \in Chunk, s \in decisions, o \in decisions :
             \E r \in ValidRelationships(answers[run[w]][c]) :
               /\ s.candidate = [job |-> run[w], chunk |-> c, local |-> r.subject]
               /\ o.candidate = [job |-> run[w], chunk |-> c, local |-> r.object]
               /\ a = Assertion(run[w], c, r, s.entity, o.entity)
    BY <1>3, <1>4
  <2>2. PICK r \in ValidRelationships(answers[run[w]][c]) :
               /\ s.candidate = [job |-> run[w], chunk |-> c, local |-> r.subject]
               /\ o.candidate = [job |-> run[w], chunk |-> c, local |-> r.object]
               /\ a = Assertion(run[w], c, r, s.entity, o.entity)
    BY <2>1
  <2>3. /\ a.job = run[w] /\ a.chunk = c /\ a.relationship = r
        /\ a.subject = s.entity /\ a.object = o.entity /\ run[w] \in Job
    BY <2>2 DEF Assertion, TypeOK
  <2>4. a.relationship \in ValidRelationships(answers'[a.job][a.chunk])
    BY <1>0, <2>2, <2>3
  <2>5. ASSUME NEW end \in {<<a.relationship.subject, a.subject>>,
                            <<a.relationship.object, a.object>>}
        PROVE  \E d \in decisions' :
                 /\ d.candidate = [job |-> a.job, chunk |-> a.chunk, local |-> end[1]]
                 /\ d.entity = end[2]
    <3>1. CASE end = <<r.subject, s.entity>>
      BY <1>0, <2>2, <2>3, <3>1
    <3>2. CASE end = <<r.object, o.entity>>
      BY <1>0, <2>2, <2>3, <3>2
    <3> QED BY <2>3, <2>5, <3>1, <3>2
  <2>6. a = Assertion(a.job, a.chunk, a.relationship, a.subject, a.object)
    BY <2>2, <2>3
  <2> QED BY <2>3, <2>4, <2>5, <2>6
<1>5. ASSUME NEW a \in assertions
      PROVE  /\ a.relationship \in ValidRelationships(answers'[a.job][a.chunk])
             /\ \A end \in {<<a.relationship.subject, a.subject>>,
                            <<a.relationship.object, a.object>>} :
                  \E d \in decisions' :
                    /\ d.candidate = [job |-> a.job, chunk |-> a.chunk, local |-> end[1]]
                    /\ d.entity = end[2]
             /\ a.job \in Job /\ a.chunk \in Chunk
             /\ a = Assertion(a.job, a.chunk, a.relationship, a.subject, a.object)
  <2>1. a.relationship \in ValidRelationships(answers[a.job][a.chunk])
    BY DEF RowsAreGrounded, AssertionsAreGrounded
  <2>2. a.relationship \in ValidRelationships(answers'[a.job][a.chunk])
    BY <1>0, <2>1
  <2>3. \A end \in {<<a.relationship.subject, a.subject>>,
                    <<a.relationship.object, a.object>>} :
          \E d \in decisions' :
            /\ d.candidate = [job |-> a.job, chunk |-> a.chunk, local |-> end[1]]
            /\ d.entity = end[2]
    BY <1>0 DEF RowsAreGrounded, AssertionsAreGrounded
  <2> QED BY <2>2, <2>3 DEF RowsAreGrounded, AssertionsAreRows
<1>6. AssertionsAreGrounded'
  BY <1>4, <1>5 DEF AssertionsAreGrounded, ValidRelationships, Sound
<1>7. AssertionsAreRows'
  BY <1>4, <1>5 DEF AssertionsAreRows
<1> QED BY <1>1, <1>6, <1>7 DEF RowsAreGrounded

\* A resolver keeps in memory what is valid when it reads it.
LEMMA ResolverKeepsMemory ==
  ASSUME TypeOK, MemoryIsValid, NEW w \in Resolver, ResolutionStep(w)
  PROVE  MemoryIsValid'
<1>0. UNCHANGED <<chunks, answers>>
  BY DEF ResolutionStep, BeginResolve, LookUp, Write, ReadDecisions, InsertAssertions,
     ReturnResolve, AbortResolve, extractionVars, tables
<1>a. \A k \in Candidate : Valid(k)' = Valid(k)
  BY <1>0 DEF Valid, Exists, AnswerOf
<1>b. ASSUME NEW v \in Resolver
      PROVE  /\ \A k \in todo[v] : /\ k \in Candidate /\ k.job = run[v]
                                   /\ Valid(k) \/ chunks[k.chunk] = "deleted"
             /\ at[v] \in {"inserting", "returned"} \/ resolved[v] = {}
             /\ \A d \in resolved[v] :
                  /\ d.candidate.job = run[v] /\ d.entity # NoEntity
                  /\ \/ d \in decisions
                     \/ chunks[d.candidate.chunk] = "deleted"
                     \/ chunks[d.entity.chunk] = "deleted"
  BY DEF TypeOK, MemoryIsValid, TodoIsValid, ResolvedIsDecided
<1>c. decisions \subseteq decisions'
  <2>1. CASE Write(w)
    BY <2>1, WriteRows DEF Deferred, ResolvedTo
  <2>2. CASE ~ Write(w)
    BY <2>2 DEF ResolutionStep, BeginResolve, LookUp, ReadDecisions, InsertAssertions,
       ReturnResolve, AbortResolve, knowledge
  <2> QED BY <2>1, <2>2
<1>d. ASSUME NEW v \in Resolver, UNCHANGED <<at[v], run[v], resolved[v]>>,
             todo'[v] \subseteq todo[v]
      PROVE  /\ \A k \in todo'[v] : k.job = run'[v] /\ (Valid(k)' \/ chunks'[k.chunk] = "deleted")
             /\ at'[v] \in {"inserting", "returned"} \/ resolved'[v] = {}
             /\ \A d \in resolved'[v] :
                  /\ d.candidate.job = run'[v] /\ d.entity # NoEntity
                  /\ \/ d \in decisions'
                     \/ chunks'[d.candidate.chunk] = "deleted"
                     \/ chunks'[d.entity.chunk] = "deleted"
  <2>1. /\ \A k \in todo'[v] : /\ k \in Candidate /\ k.job = run[v]
                               /\ Valid(k) \/ chunks[k.chunk] = "deleted"
    BY <1>b, <1>d
  <2>2. \A k \in todo'[v] : k.job = run'[v] /\ (Valid(k)' \/ chunks'[k.chunk] = "deleted")
    BY <1>0, <1>a, <1>d, <2>1
  <2> QED BY <1>0, <1>b, <1>c, <1>d, <2>2
<1>1. ASSUME NEW v \in Resolver, v # w
      PROVE  UNCHANGED <<at[v], run[v], resolved[v]>> /\ todo'[v] \subseteq todo[v]
  BY <1>1 DEF TypeOK, ResolutionStep, BeginResolve, LookUp, Write, ReadDecisions,
     InsertAssertions, ReturnResolve, AbortResolve, EndResolve, GoOn, NextCandidate
<1>2. /\ \A k \in todo'[w] : k.job = run'[w] /\ (Valid(k)' \/ chunks'[k.chunk] = "deleted")
      /\ at'[w] \in {"inserting", "returned"} \/ resolved'[w] = {}
      /\ \A d \in resolved'[w] :
           /\ d.candidate.job = run'[w] /\ d.entity # NoEntity
           /\ \/ d \in decisions'
              \/ chunks'[d.candidate.chunk] = "deleted"
              \/ chunks'[d.entity.chunk] = "deleted"
  <2>1. CASE BeginResolve(w)
    <3>1. PICK j \in Job : run'[w] = j /\ todo'[w] = Unresolved(j)
      BY <2>1 DEF BeginResolve, TypeOK
    <3>2. resolved'[w] = {}
      BY <1>b, <2>1 DEF BeginResolve
    <3>3. \A k \in todo'[w] : k \in Candidate /\ k.job = run'[w] /\ Valid(k)
      BY <3>1 DEF Unresolved
    <3> QED BY <1>a, <3>2, <3>3
  <2>2. CASE LookUp(w) \/ Write(w)
    <3>1. /\ run' = run /\ resolved' = resolved /\ todo'[w] \subseteq todo[w]
          /\ at[w] \notin {"inserting", "returned"}
      <4>1. CASE LookUp(w)
        <5>1. /\ at[w] = "deciding" /\ run' = run /\ resolved' = resolved
              /\ \E k \in todo[w] : \/ todo' = [todo EXCEPT ![w] = @ \ {k}]
                                   \/ todo' = todo
          BY <4>1 DEF LookUp
        <5> QED BY <5>1 DEF TypeOK
      <4>2. CASE Write(w)
        <5>1. /\ at[w] = "writing" /\ run' = run /\ resolved' = resolved
              /\ todo' = [todo EXCEPT ![w] = @ \ {hand[w]}]
          BY <4>2 DEF Write
        <5> QED BY <5>1 DEF TypeOK
      <4> QED BY <2>2, <4>1, <4>2
    <3>2. resolved'[w] = {}
      BY <1>b, <3>1
    <3>3. \A k \in todo'[w] : /\ k \in Candidate /\ k.job = run[w]
                              /\ Valid(k) \/ chunks[k.chunk] = "deleted"
      BY <1>b, <3>1
    <3> QED BY <1>0, <1>a, <3>1, <3>2, <3>3
  <2>3. CASE ReadDecisions(w)
    <3>1. /\ run' = run /\ todo' = todo /\ decisions' = decisions /\ at'[w] = "inserting"
          /\ resolved'[w] = ResolvedOf(run[w])
      BY <2>3 DEF ReadDecisions, GoOn, knowledge, TypeOK
    <3>2. \A d \in resolved'[w] : /\ d.candidate.job = run'[w] /\ d.entity # NoEntity
                                  /\ d \in decisions'
      BY <3>1 DEF ResolvedOf
    <3>3. \A k \in todo'[w] : k.job = run'[w] /\ (Valid(k)' \/ chunks'[k.chunk] = "deleted")
      BY <1>0, <1>a, <1>b, <3>1
    <3> QED BY <3>1, <3>2, <3>3
  <2>4. CASE InsertAssertions(w)
    <3>1. /\ run' = run /\ todo' = todo /\ decisions' = decisions /\ resolved' = resolved
          /\ at'[w] = "returned"
      BY <2>4 DEF InsertAssertions, GoOn, TypeOK
    <3>2. \A k \in todo'[w] : k.job = run'[w] /\ (Valid(k)' \/ chunks'[k.chunk] = "deleted")
      BY <1>0, <1>a, <1>b, <3>1
    <3> QED BY <1>0, <1>b, <3>1, <3>2
  <2>5. CASE ReturnResolve(w) \/ AbortResolve(w)
    <3>1. todo'[w] = {} /\ resolved'[w] = {}
      BY <2>5 DEF ReturnResolve, AbortResolve, EndResolve, TypeOK
    <3> QED BY <3>1
  <2> QED BY <2>1, <2>2, <2>3, <2>4, <2>5 DEF ResolutionStep
<1>3. TodoIsValid'
  <2>1. \A v \in Resolver : \A k \in todo'[v] :
          k.job = run'[v] /\ (Valid(k)' \/ chunks'[k.chunk] = "deleted")
    BY <1>1, <1>2, <1>d
  <2> QED BY <2>1 DEF TodoIsValid
<1>4. ResolvedIsDecided'
  BY <1>1, <1>2, <1>d DEF ResolvedIsDecided
<1> QED BY <1>3, <1>4 DEF MemoryIsValid

\* The invariant holds at first.
LEMMA GroundedInit == Init => GroundedInv
BY IdentityInit, ExtractionInitially DEF Init, GroundedInv, KnowledgeIsGrounded,
   AssertionsAreGrounded, TodoIsValid, ResolvedIsDecided, AssertionsAreRows

\* Every step keeps it.
LEMMA GroundedStep ==
  ASSUME OneExtractor, GroundedInv, [Next]_vars
  PROVE  GroundedInv'
<1>0. /\ IdentityInv /\ ExtractionInv /\ TypeOK /\ ExtractionTypeOK /\ KnowledgeTypeOK
      /\ RowsAreGrounded /\ MemoryIsValid
  BY TypeParts DEF GroundedInv, IdentityInv, RowsAreGrounded, MemoryIsValid
<1>1. IdentityInv' /\ ExtractionInv'
  BY <1>0, IdentityStep, ExtractionKept
<1>2. RowsAreGrounded' /\ MemoryIsValid'
  <2>1. CASE Scan
    <3>1. PICK c \in Chunk, state \in {"current", "error", "deleted"} :
            /\ EditChunk(c, state)
            /\ Cascade(IF state = "deleted" THEN Job \X {c} ELSE {})
      BY <2>1 DEF Scan
    <3>2. PICK pairs \in SUBSET (Job \X Chunk) :
            /\ pairs = IF state = "deleted" THEN Job \X {c} ELSE {}
            /\ Cascade(pairs) /\ AnswersElsewhere(pairs)
      BY <1>0, <3>1, ScanCascades
    <3>3. ASSUME NEW k \in Gone(pairs)
          PROVE  chunks'[k.chunk] = "deleted"
      <4>1. PICK p \in pairs : k \in CandidatesOf(p[1], p[2])
        BY <3>3 DEF Gone
      <4>2. k.chunk = p[2]
        BY <4>1 DEF CandidatesOf
      <4>3. state = "deleted" /\ p[2] = c
        BY <3>2, <4>1
      <4> QED BY <1>0, <3>1, <4>2, <4>3 DEF EditChunk, ExtractionTypeOK
    <3>4. \A b \in Chunk : chunks[b] = "deleted" => chunks'[b] = "deleted"
      BY <1>0, <3>1, DeletedForGood
    <3>5. UNCHANGED <<at, run, todo, resolved>>
      BY <2>1 DEF Scan, Unsettle
    <3> QED BY <1>0, <3>2, <3>3, <3>4, <3>5, CascadeKeepsRows, CascadeKeepsMemory
  <2>2. ASSUME NEW x \in Extractor, NEW c \in Chunk, NEW a \in Answer,
               RecordSuccess(x, c, a), Cascade({<<job[x], c>>}), Unsettle({job[x]})
        PROVE  RowsAreGrounded' /\ MemoryIsValid'
    <3> DEFINE pairs == {<<job[x], c>>}
    <3>1. pairs \in SUBSET (Job \X Chunk) /\ AnswersElsewhere(pairs) /\ Cascade(pairs)
      BY <1>0, <2>2, RecordCascades
    <3>2. \A k \in Gone(pairs) : FALSE
      <4>1. SUFFICES ASSUME NEW k \in CandidatesOf(job[x], c) PROVE FALSE
        BY DEF Gone
      <4>2. k.job = job[x] /\ k.chunk = c /\ Exists(k)
        BY DEF CandidatesOf
      <4>3. answers[job[x]][c] = NoAnswer
        BY <1>0, <2>2, RecordedOnce
      <4> QED BY <4>2, <4>3 DEF Exists, AnswerOf, NoAnswer
    <3>3. UNCHANGED <<chunks, at, run, todo, resolved>>
      BY <2>2 DEF RecordSuccess, Unsettle
    <3> HIDE DEF pairs
    <3> QED BY <1>0, <3>1, <3>2, <3>3, CascadeKeepsRows, CascadeKeepsMemory
  <2>3. ASSUME UNCHANGED <<chunks, answers, knowledge, at, run, todo, resolved>>
        PROVE  RowsAreGrounded' /\ MemoryIsValid'
    <3>1. RowsAreGrounded'
      BY <1>0, <2>3, RowsStay
    <3>2. MemoryIsValid'
      BY <1>0, <2>3 DEF MemoryIsValid, TodoIsValid, ResolvedIsDecided, Valid, Exists, AnswerOf,
         knowledge
    <3> QED BY <3>1, <3>2
  <2>4. ASSUME NEW x \in Extractor, QuietStep(x), UNCHANGED <<knowledge, resolver, resolves>>
        PROVE  RowsAreGrounded' /\ MemoryIsValid'
    <3>1. UNCHANGED <<chunks, answers>>
      BY <2>4 DEF QuietStep, Select, Prepare, Load, Finalize, Return, Abort, tables,
         RecordSchemaInvalid, RecordProviderFailure
    <3> QED BY <2>3, <2>4, <3>1 DEF resolver
  <2>5. ASSUME NEW w \in Resolver, ResolutionStep(w)
        PROVE  RowsAreGrounded' /\ MemoryIsValid'
    <3>1. MemoryIsValid'
      BY <1>0, <2>5, ResolverKeepsMemory
    <3>2. CASE Write(w)
      BY <1>0, <3>1, <3>2, WriteKeepsRows
    <3>3. CASE InsertAssertions(w)
      BY <1>0, <3>1, <3>3, InsertKeepsRows
    <3>4. CASE ~ Write(w) /\ ~ InsertAssertions(w)
      <4>1. UNCHANGED <<answers, knowledge>>
        BY <2>5, <3>4 DEF ResolutionStep, BeginResolve, LookUp, ReadDecisions, ReturnResolve,
           AbortResolve, extractionVars, tables
      <4> QED BY <1>0, <3>1, <4>1, RowsStay
    <3> QED BY <3>2, <3>3, <3>4
  <2>6. CASE UNCHANGED vars
    BY <2>3, <2>6 DEF vars, extractionVars, tables, resolver
  <2> QED
    BY <2>1, <2>2, <2>4, <2>5, <2>6 DEF Next, ExtractionStep, QuietStep
<1> QED BY <1>1, <1>2 DEF GroundedInv, RowsAreGrounded, MemoryIsValid

\* It is an invariant if one worker at a time extracts, however many resolve.
THEOREM GroundedInvariance == ASSUME OneExtractor PROVE Spec => []GroundedInv
<1>1. Init => GroundedInv BY GroundedInit
<1>2. GroundedInv /\ [Next]_vars => GroundedInv' BY GroundedStep
<1> QED BY <1>1, <1>2, PTL DEF Spec

\* Every entity and every identifier has a source that is there and valid.
THEOREM KnowledgeHasSources == ASSUME OneExtractor PROVE Spec => []KnowledgeIsGrounded
<1>1. GroundedInv => KnowledgeIsGrounded BY DEF GroundedInv
<1> QED BY <1>1, GroundedInvariance, PTL

\* An assertion speaks of what the ends of its relationship are resolved to now.
THEOREM AssertionsHaveSources == ASSUME OneExtractor PROVE Spec => []AssertionsAreGrounded
<1>1. GroundedInv => AssertionsAreGrounded BY DEF GroundedInv
<1> QED BY <1>1, GroundedInvariance, PTL

-----------------------------------------------------------------------------
(***************************************************************************)
(* A resolved run is whole.                                                *)
(***************************************************************************)

\* What a resolver has in memory.
MemoryOf(w) == <<at[w], run[w], todo[w], resolved[w], disturbed[w]>>

\* A resolver stays thorough while its answers stay, and decisions come only for what
\* it has still to do, if anything.
LEMMA ThoroughStays ==
  ASSUME TypeOK, NEW w \in Resolver, IsThorough(w), UNCHANGED MemoryOf(w),
         answers'[run[w]] = answers[run[w]],
         decisions \subseteq decisions',
         \A d \in decisions' : d \in decisions \/ d.candidate \in Unresolved(d.candidate.job),
         \A a \in assertions : a.job = run[w] => a \in assertions'
  PROVE  IsThorough(w)'
<1>0. /\ at'[w] = at[w] /\ run'[w] = run[w] /\ todo'[w] = todo[w]
      /\ resolved'[w] = resolved[w] /\ disturbed'[w] = disturbed[w]
  BY DEF MemoryOf
<1>1. \A k \in Candidate : k.job = run[w] => Valid(k)' = Valid(k)
  BY DEF Valid, Exists, AnswerOf
<1>2. Decided \subseteq Decided'
  BY DEF Decided
<1>3. Unresolved(run[w])' \subseteq Unresolved(run[w])
  BY <1>0, <1>1, <1>2 DEF Unresolved
<1>4. ASSUME Begun(w), at[w] \in {"inserting", "returned"}
      PROVE  ResolvedOf(run[w])' = ResolvedOf(run[w])
  <2>1. Unresolved(run[w]) = {}
    BY <1>4 DEF IsThorough
  <2>2. \A d \in decisions' : d.candidate.job = run[w] => d \in decisions
    BY <2>1
  <2> QED BY <1>0, <2>2 DEF ResolvedOf
<1>5. ASSUME NEW a \in AssertionsOf(run[w], resolved[w])'
      PROVE  a \in AssertionsOf(run[w], resolved[w]) /\ a.job = run[w]
  <2>1. a \in AssertionsOf(run[w], resolved[w])
    <3>1. \E c \in Chunk, s \in resolved'[w], o \in resolved'[w] :
          \E r \in ValidRelationships(answers'[run'[w]][c]) :
            /\ r.subject = s.candidate.local /\ s.candidate.chunk = c
            /\ r.object = o.candidate.local /\ o.candidate.chunk = c
            /\ a = Assertion(run'[w], c, r, s.entity, o.entity)
      BY <1>5 DEF AssertionsOf, ValidRelationships, Sound, Assertion
    <3>2. PICK c \in Chunk, s \in resolved[w], o \in resolved[w] :
          \E r \in ValidRelationships(answers[run[w]][c]) :
            /\ r.subject = s.candidate.local /\ s.candidate.chunk = c
            /\ r.object = o.candidate.local /\ o.candidate.chunk = c
            /\ a = Assertion(run[w], c, r, s.entity, o.entity)
      BY <1>0, <3>1
    <3> QED BY <3>2, MadeAssertions
  <2>2. a.job = run[w]
    BY <2>1, AssertionsMade DEF Assertion
  <2> QED BY <2>1, <2>2
<1>6. at[w] = "returned" /\ Begun(w) => AssertionsOf(run[w], resolved[w])' \subseteq assertions'
  BY <1>5 DEF IsThorough
<1>7. Begun(w)' = Begun(w)
  BY <1>0 DEF Begun
<1> QED BY <1>0, <1>3, <1>4, <1>6, <1>7 DEF IsThorough

\* What a decision is written for was valid and undecided.
LEMMA WrittenWasUnresolved ==
  ASSUME GroundedInv, NEW w \in Resolver, Write(w)
  PROVE  \E k \in todo[w] :
           /\ k \in Candidate /\ k \in Unresolved(k.job)
           /\ k = hand[w] /\ k \in Decided'
           /\ decisions \subseteq decisions'
           /\ \A d \in decisions' : d \in decisions \/ d.candidate = k
<1>0. /\ TypeOK /\ ExtractionInv /\ TodoIsValid
  BY DEF GroundedInv, IdentityInv
<1>1. PICK k \in todo[w] :
           /\ k \in Candidate /\ Exists(k) /\ k \notin Decided
           /\ Deferred(k) \/ \E e \in Candidate : ResolvedTo(k, e)
           /\ k = hand[w]
  BY <1>0, WriteRows
<1>2. Valid(k)
  BY <1>0, <1>1, CandidatesHaveChunks DEF TodoIsValid
<1>3. k \in Unresolved(k.job)
  BY <1>1, <1>2 DEF Unresolved
<1>4. \E new : decisions' = decisions \cup {new} /\ new.candidate = k
  <2>1. CASE Deferred(k)
    <3> DEFINE new == [candidate |-> k, decision |-> "defer", entity |-> NoEntity]
    <3>1. decisions' = decisions \cup {new} /\ new.candidate = k
      BY <2>1 DEF Deferred
    <3> HIDE DEF new
    <3> QED BY <3>1
  <2>2. ASSUME NEW e \in Candidate, ResolvedTo(k, e)
        PROVE  \E new : decisions' = decisions \cup {new} /\ new.candidate = k
    <3> DEFINE new == [candidate |-> k, entity |-> e,
                       decision |-> IF e = k THEN "create" ELSE "merge"]
    <3>1. decisions' = decisions \cup {new} /\ new.candidate = k
      BY <2>2 DEF ResolvedTo
    <3> HIDE DEF new
    <3> QED BY <3>1
  <2> QED BY <1>1, <2>1, <2>2
<1> QED BY <1>1, <1>3, <1>4 DEF Decided

\* An assertion of what is decided now is made, or was made before.
LEMMA InsertedOrThere ==
  ASSUME TypeOK, AssertionsAreGrounded, AssertionsAreRows, NEW w \in Resolver,
         InsertAssertions(w), resolved[w] \subseteq decisions,
         \A d \in resolved[w] : d.candidate.job = run[w]
  PROVE  AssertionsOf(run[w], resolved[w]) \subseteq assertions'
<1>1. SUFFICES ASSUME NEW a \in AssertionsOf(run[w], resolved[w]), Asserted(a)
               PROVE  a \in assertions
  BY DEF InsertAssertions
<1>2. PICK b \in assertions :
        b.job = a.job /\ b.chunk = a.chunk /\ b.relationship = a.relationship
  BY <1>1 DEF Asserted
<1>3. PICK c \in Chunk, s \in resolved[w], o \in resolved[w] :
      \E r \in ValidRelationships(answers[run[w]][c]) :
        /\ r.subject = s.candidate.local /\ s.candidate.chunk = c
        /\ r.object = o.candidate.local /\ o.candidate.chunk = c
        /\ a = Assertion(run[w], c, r, s.entity, o.entity)
  BY AssertionsMade
<1>4. PICK r \in ValidRelationships(answers[run[w]][c]) :
        /\ r.subject = s.candidate.local /\ s.candidate.chunk = c
        /\ r.object = o.candidate.local /\ o.candidate.chunk = c
        /\ a = Assertion(run[w], c, r, s.entity, o.entity)
  BY <1>3
<1>5. /\ a.job = run[w] /\ a.chunk = c /\ a.relationship = r
      /\ a.subject = s.entity /\ a.object = o.entity
  BY <1>4 DEF Assertion
<1>6. /\ s \in decisions /\ o \in decisions
      /\ s.candidate = [job |-> run[w], chunk |-> c, local |-> r.subject]
      /\ o.candidate = [job |-> run[w], chunk |-> c, local |-> r.object]
  <2>1. /\ s \in decisions /\ s.candidate \in Candidate /\ s.candidate.job = run[w]
        /\ o \in decisions /\ o.candidate \in Candidate /\ o.candidate.job = run[w]
    BY DEF TypeOK, Decision
  <2> QED BY <1>4, <2>1 DEF Candidate
<1>7. \A end \in {<<r.subject, b.subject>>, <<r.object, b.object>>} :
        \E d \in decisions :
          /\ d.candidate = [job |-> run[w], chunk |-> c, local |-> end[1]]
          /\ d.entity = end[2]
  <2>1. \A end \in {<<b.relationship.subject, b.subject>>, <<b.relationship.object, b.object>>} :
          \E d \in decisions :
            /\ d.candidate = [job |-> b.job, chunk |-> b.chunk, local |-> end[1]]
            /\ d.entity = end[2]
    BY DEF AssertionsAreGrounded
  <2>2. b.job = run[w] /\ b.chunk = c /\ b.relationship = r
    BY <1>2, <1>5
  <2> QED BY <2>1, <2>2
<1>8. b.subject = s.entity
  <2>1. PICK d \in decisions : /\ d.candidate = [job |-> run[w], chunk |-> c, local |-> r.subject]
                               /\ d.entity = b.subject
    BY <1>7
  <2>2. d = s
    BY <1>6, <2>1 DEF TypeOK
  <2> QED BY <2>1, <2>2
<1>9. b.object = o.entity
  <2>1. PICK d \in decisions : /\ d.candidate = [job |-> run[w], chunk |-> c, local |-> r.object]
                               /\ d.entity = b.object
    BY <1>7
  <2>2. d = o
    BY <1>6, <2>1 DEF TypeOK
  <2> QED BY <2>1, <2>2
<1>10. b = Assertion(run[w], c, r, s.entity, o.entity)
  BY <1>2, <1>5, <1>8, <1>9 DEF AssertionsAreRows
<1> QED BY <1>4, <1>10

\* A step of a resolver keeps itself thorough.
LEMMA ResolverStaysThorough ==
  ASSUME GroundedInv, NEW w \in Resolver, IsThorough(w), ResolutionStep(w)
  PROVE  IsThorough(w)'
<1>0. TypeOK /\ UNCHANGED answers
  BY DEF GroundedInv, IdentityInv, ResolutionStep, BeginResolve, LookUp, Write, ReadDecisions,
     InsertAssertions, ReturnResolve, AbortResolve, extractionVars, tables
<1>a. \A k \in Candidate : Valid(k)' = Valid(k)
  BY <1>0 DEF Valid, Exists, AnswerOf
<1>b. ASSUME UNCHANGED <<decisions, run>>
      PROVE  /\ Unresolved(run[w])' = Unresolved(run[w])
             /\ ResolvedOf(run[w])' = ResolvedOf(run[w])
  BY <1>a, <1>b DEF Unresolved, Decided, ResolvedOf
<1>1. CASE BeginResolve(w)
  <2>1. PICK j \in Job : /\ run' = [run EXCEPT ![w] = j]
                         /\ todo' = [todo EXCEPT ![w] = Unresolved(j)]
                         /\ NextCandidate(w, Unresolved(j))
    BY <1>1 DEF BeginResolve
  <2>2. /\ run'[w] = j /\ todo'[w] = Unresolved(j)
        /\ at'[w] = IF Unresolved(j) = {} THEN "reading" ELSE "deciding"
    BY <1>0, <2>1 DEF TypeOK, NextCandidate, GoOn
  <2>3. Unresolved(run[w])' = Unresolved(j)
    BY <1>1, <1>a, <2>2 DEF BeginResolve, knowledge, Unresolved, Decided
  <2> QED BY <2>2, <2>3 DEF IsThorough
<1>2. CASE LookUp(w)
  <2>1. /\ at[w] = "deciding" /\ UNCHANGED <<decisions, run, disturbed>>
    BY <1>2 DEF LookUp, knowledge
  <2>2. PICK k \in todo[w] : \/ /\ k \in Decided /\ todo' = [todo EXCEPT ![w] = @ \ {k}]
                                /\ NextCandidate(w, todo[w] \ {k})
                             \/ GoOn(w, "writing") /\ UNCHANGED todo
    BY <1>2 DEF LookUp
  <2>3. \/ /\ k \in Decided /\ todo'[w] = todo[w] \ {k}
           /\ at'[w] = IF todo[w] \ {k} = {} THEN "reading" ELSE "deciding"
        \/ at'[w] = "writing" /\ todo'[w] = todo[w]
    BY <1>0, <2>2 DEF TypeOK, NextCandidate, GoOn
  <2>4. Unresolved(run[w])' = Unresolved(run[w])
    BY <1>b, <2>1
  <2>5. k \in Decided => k \notin Unresolved(run[w])
    BY DEF Unresolved
  <2> QED BY <2>1, <2>3, <2>4, <2>5 DEF IsThorough, Begun
<1>3. CASE Write(w)
  <2>1. PICK k \in todo[w] : k = hand[w] /\ k \in Decided' /\ decisions \subseteq decisions'
    BY <1>3, WrittenWasUnresolved
  <2>2. /\ at[w] = "writing" /\ UNCHANGED <<run, disturbed>>
        /\ todo'[w] = todo[w] \ {k}
        /\ at'[w] = IF todo[w] \ {k} = {} THEN "reading" ELSE "deciding"
    BY <1>0, <1>3, <2>1 DEF TypeOK, Write, NextCandidate, GoOn
  <2>3. Unresolved(run[w])' \subseteq Unresolved(run[w]) \ {k}
    BY <1>a, <2>1, <2>2 DEF Unresolved, Decided
  <2> QED BY <2>2, <2>3 DEF IsThorough, Begun
<1>4. CASE ReadDecisions(w)
  <2>1. /\ at[w] = "reading" /\ at'[w] = "inserting"
        /\ UNCHANGED <<decisions, run, todo, disturbed>>
        /\ resolved'[w] = ResolvedOf(run[w])
    BY <1>0, <1>4 DEF TypeOK, ReadDecisions, GoOn, knowledge
  <2>2. Unresolved(run[w])' = Unresolved(run[w]) /\ ResolvedOf(run[w])' = ResolvedOf(run[w])
    BY <1>b, <2>1
  <2> QED BY <2>1, <2>2 DEF IsThorough, Begun
<1>5. CASE InsertAssertions(w)
  <2>1. /\ at[w] = "inserting" /\ at'[w] = "returned"
        /\ UNCHANGED <<decisions, run, todo, resolved, disturbed>>
    BY <1>0, <1>5 DEF TypeOK, InsertAssertions, GoOn
  <2>2. Unresolved(run[w])' = Unresolved(run[w]) /\ ResolvedOf(run[w])' = ResolvedOf(run[w])
    BY <1>b, <2>1
  <2>3. AssertionsOf(run[w], resolved[w])' = AssertionsOf(run[w], resolved[w])
    BY <1>0, <2>1 DEF AssertionsOf, ValidRelationships, Sound
  <2>4. ASSUME Begun(w)
        PROVE  AssertionsOf(run[w], resolved[w]) \subseteq assertions'
    <3>1. resolved[w] = ResolvedOf(run[w])
      BY <2>1, <2>4 DEF IsThorough
    <3>2. resolved[w] \subseteq decisions /\ \A d \in resolved[w] : d.candidate.job = run[w]
      BY <3>1 DEF ResolvedOf
    <3> QED BY <1>0, <1>5, <3>2, InsertedOrThere DEF GroundedInv
  <2> QED BY <2>1, <2>2, <2>3, <2>4 DEF IsThorough, Begun
<1>6. CASE ReturnResolve(w) \/ AbortResolve(w)
  <2>1. at'[w] = "idle" /\ todo'[w] = {}
    BY <1>0, <1>6 DEF TypeOK, ReturnResolve, AbortResolve, EndResolve, GoOn
  <2> QED BY <2>1 DEF IsThorough, Begun
<1> QED BY <1>1, <1>2, <1>3, <1>4, <1>5, <1>6 DEF ResolutionStep

\* A cascade that takes no candidate leaves the decisions, and the assertions elsewhere.
LEMMA CascadeOfNothing ==
  ASSUME NEW pairs \in SUBSET (Job \X Chunk), Cascade(pairs), Gone(pairs) = {}
  PROVE  /\ decisions' = decisions
         /\ \A b \in assertions : <<b.job, b.chunk>> \notin pairs => b \in assertions'
<1>1. decisions' = {d \in decisions : /\ d.candidate \notin Gone(pairs)
                                      /\ d.entity \notin Gone(pairs)}
  BY CascadeRows
<1>2. assertions' = {a \in assertions : /\ <<a.job, a.chunk>> \notin pairs
                                        /\ a.subject \notin Gone(pairs)
                                        /\ a.object \notin Gone(pairs)}
  BY CascadeRows
<1> QED BY <1>1, <1>2

\* The invariant holds at first ...
LEMMA WholeInit == Init => WholeInv
BY GroundedInit DEF Init, WholeInv, IsThorough, Begun

\* ... and every step keeps it.
LEMMA WholeStep ==
  ASSUME OneExtractor, WholeInv, [Next]_vars
  PROVE  WholeInv'
<1>0. /\ GroundedInv /\ IdentityInv /\ ExtractionInv /\ TypeOK /\ ExtractionTypeOK
      /\ \A v \in Resolver : IsThorough(v)
  BY TypeParts DEF WholeInv, GroundedInv, IdentityInv
<1>1. GroundedInv'
  BY <1>0, GroundedStep
<1>2. SUFFICES ASSUME NEW v \in Resolver PROVE IsThorough(v)'
  BY <1>1 DEF WholeInv
<1>3. ASSUME UNCHANGED <<at, run, todo, resolved>>, disturbed'[v] \/ at[v] = "idle"
      PROVE  IsThorough(v)'
  BY <1>0, <1>3 DEF IsThorough, Begun
<1>4. ASSUME UNCHANGED <<answers, decisions, assertions>>, UNCHANGED MemoryOf(v)
      PROVE  IsThorough(v)'
  BY <1>0, <1>4, ThoroughStays
<1>5. CASE Scan
  <2>1. UNCHANGED <<at, run, todo, resolved>> /\ (disturbed'[v] \/ at[v] = "idle")
    BY <1>0, <1>5 DEF Scan, Unsettle, TypeOK
  <2> QED BY <1>3, <2>1
<1>6. ASSUME NEW x \in Extractor, QuietStep(x), UNCHANGED <<knowledge, resolver, resolves>>
      PROVE  IsThorough(v)'
  <2>1. answers' = answers
    BY <1>6 DEF QuietStep, Select, Prepare, Load, Finalize, Return, Abort, tables,
       RecordSchemaInvalid, RecordProviderFailure
  <2> QED BY <1>4, <1>6, <2>1 DEF knowledge, resolver, MemoryOf
<1>7. ASSUME NEW x \in Extractor, NEW c \in Chunk, NEW a \in Answer,
             RecordSuccess(x, c, a), Cascade({<<job[x], c>>}), Unsettle({job[x]})
      PROVE  IsThorough(v)'
  <2>1. UNCHANGED <<at, run, todo, resolved>>
    BY <1>7 DEF Unsettle
  <2>2. CASE run[v] = job[x] /\ at[v] # "idle"
    BY <1>0, <1>3, <1>7, <2>1, <2>2 DEF Unsettle, TypeOK
  <2>3. CASE at[v] = "idle"
    BY <1>3, <2>1, <2>3
  <2>4. CASE run[v] # job[x]
    <3> DEFINE pairs == {<<job[x], c>>}
    <3>1. pairs \in SUBSET (Job \X Chunk) /\ AnswersElsewhere(pairs) /\ Cascade(pairs)
      BY <1>0, <1>7, RecordCascades
    <3>2. Gone(pairs) = {}
      <4>1. SUFFICES ASSUME NEW k \in CandidatesOf(job[x], c) PROVE FALSE
        BY DEF Gone
      <4>2. k.job = job[x] /\ k.chunk = c /\ Exists(k)
        BY DEF CandidatesOf
      <4>3. answers[job[x]][c] = NoAnswer
        BY <1>0, <1>7, RecordedOnce
      <4> QED BY <4>2, <4>3 DEF Exists, AnswerOf, NoAnswer
    <3>3. decisions' = decisions
      <4> HIDE DEF pairs
      <4> QED BY <3>1, <3>2, CascadeOfNothing
    <3>4. \A b \in assertions : b.job = run[v] => b \in assertions'
      <4>1. \A b \in assertions : b.job = run[v] => <<b.job, b.chunk>> \notin pairs
        BY <2>4
      <4> HIDE DEF pairs
      <4> QED BY <3>1, <3>2, <4>1, CascadeOfNothing
    <3>5. answers'[run[v]] = answers[run[v]]
      <4>1. answers' = [answers EXCEPT ![job[x]] = [answers[job[x]] EXCEPT ![c] = a]]
        BY <1>7 DEF RecordSuccess
      <4> QED BY <1>0, <2>4, <4>1 DEF ExtractionTypeOK, TypeOK
    <3>6. disturbed'[v] = disturbed[v]
      BY <1>0, <1>7, <2>4 DEF Unsettle, TypeOK
    <3>7. UNCHANGED MemoryOf(v)
      BY <2>1, <3>6 DEF MemoryOf
    <3> QED BY <1>0, <3>3, <3>4, <3>5, <3>7, ThoroughStays
  <2> QED BY <2>2, <2>3, <2>4
<1>8. ASSUME NEW w \in Resolver, ResolutionStep(w)
      PROVE  IsThorough(v)'
  <2>1. CASE v = w
    BY <1>0, <1>8, <2>1, ResolverStaysThorough
  <2>2. CASE v # w
    <3>1. UNCHANGED MemoryOf(v) /\ answers' = answers
      BY <1>0, <1>8, <2>2 DEF TypeOK, ResolutionStep, BeginResolve, LookUp, Write,
         ReadDecisions, InsertAssertions, ReturnResolve, AbortResolve, EndResolve, GoOn,
         NextCandidate, MemoryOf, extractionVars, tables
    <3>2. CASE Write(w)
      <4>1. PICK k \in todo[w] :
              /\ k \in Candidate /\ k \in Unresolved(k.job)
              /\ decisions \subseteq decisions'
              /\ \A d \in decisions' : d \in decisions \/ d.candidate = k
        BY <1>0, <3>2, WrittenWasUnresolved
      <4>2. assertions' = assertions
        BY <3>2 DEF Write
      <4>3. \A d \in decisions' : d \in decisions \/ d.candidate \in Unresolved(d.candidate.job)
        BY <4>1
      <4> QED BY <1>0, <3>1, <4>1, <4>2, <4>3, ThoroughStays
    <3>3. CASE ~ Write(w)
      <4>1. decisions' = decisions /\ assertions \subseteq assertions'
        BY <1>8, <3>3 DEF ResolutionStep, BeginResolve, LookUp, ReadDecisions,
           InsertAssertions, ReturnResolve, AbortResolve, knowledge
      <4> QED BY <1>0, <3>1, <4>1, ThoroughStays
    <3> QED BY <3>2, <3>3
  <2> QED BY <2>1, <2>2
<1>9. CASE UNCHANGED vars
  BY <1>4, <1>9 DEF vars, extractionVars, tables, knowledge, resolver, MemoryOf
<1> QED
  BY <1>0, <1>5, <1>6, <1>7, <1>8, <1>9 DEF WholeInv, Next, ExtractionStep, QuietStep

\* It is an invariant if one worker at a time extracts, however many resolve.
THEOREM WholeInvariance == ASSUME OneExtractor PROVE Spec => []WholeInv
<1>1. Init => WholeInv BY WholeInit
<1>2. WholeInv /\ [Next]_vars => WholeInv' BY WholeStep
<1> QED BY <1>1, <1>2, PTL DEF Spec

\* A run that has been resolved undisturbed has every valid candidate decided and every
\* relationship of resolved candidates asserted, whoever resolves beside.
THEOREM ResolvingMakesWhole == ASSUME OneExtractor PROVE Spec => []ResolvedRunIsWhole
<1>1. ASSUME WholeInv PROVE ResolvedRunIsWhole
  <2>1. SUFFICES ASSUME NEW w \in Resolver, at[w] = "returned", ~ disturbed[w]
                 PROVE  /\ Unresolved(run[w]) = {}
                        /\ AssertionsOf(run[w], ResolvedOf(run[w])) \subseteq assertions
    BY DEF ResolvedRunIsWhole
  <2>2. IsThorough(w) /\ Begun(w)
    BY <1>1, <2>1 DEF WholeInv, Begun
  <2>3. Unresolved(run[w]) = {} /\ resolved[w] = ResolvedOf(run[w])
    BY <2>1, <2>2 DEF IsThorough
  <2>4. AssertionsOf(run[w], resolved[w]) \subseteq assertions
    BY <2>1, <2>2 DEF IsThorough
  <2> QED BY <2>3, <2>4
<1> QED BY <1>1, WholeInvariance, PTL
=============================================================================
