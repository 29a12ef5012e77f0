--------------------------- MODULE Retrieval_proofs ---------------------------
(***************************************************************************)
(* What TLAPS proves of Retrieval, for all documents, chunks, limits and   *)
(* bounds: types, that an answer is of what was current while the query    *)
(* ran, that its context belongs to what was found, and that it is whole   *)
(* unless it says that it is not.                                          *)
(***************************************************************************)
EXTENDS Retrieval, FiniteSetTheorems, TLAPS

UnderWay == pc \notin {"idle", "answered", "raised"}

Gated == pc \in {"anchor_seeds", "anchor_rows", "document_seeds", "document_rows",
                 "section_rows", "answered"}

\* What the channels have confirmed so far, and what is current, has been seen.  Points
\* of Qdrant and paths of Neo4j are not among it.
ConfirmedIsSeen ==
  /\ UnderWay => Current \subseteq seen
  /\ pc = "idle" => seen = {}
  /\ keyword \cup semantic \cup strong \cup sources \cup claims \cup found \cup context
       \subseteq seen

\* What context is looked up for was found; there is none before the gate.
ContextIsOfFound ==
  /\ ranked \cup anchors \cup chapter \cup target \subseteq found
  /\ \A c \in context : \E f \in found : SameVersion(c, f)
  /\ ~ Gated => found = {} /\ context = {}

QueryInv == TypeOK /\ ConfirmedIsSeen /\ ContextIsOfFound

LEMMA CurrentChunks == Served(current, served) \subseteq Chunk
  BY DEF Served

LEMMA QueryInit == Init => QueryInv
  <1> SUFFICES ASSUME Init PROVE QueryInv OBVIOUS
  <1> USE DEF Init
  <1>1. current \in [Doc -> Version \cup {NoVersion}] /\ served \in [Doc -> BOOLEAN]
    OBVIOUS
  <1>2. changes \in 0 .. MaxChanges BY RetrievalAssumption
  <1>3. TypeOK BY <1>1, <1>2 DEF TypeOK, Step, Strategy
  <1> QED BY <1>3 DEF QueryInv, ConfirmedIsSeen, ContextIsOfFound, UnderWay, Gated

\* A document changes under the query.
LEMMA ChangeStep ==
  ASSUME QueryInv, Change
  PROVE  QueryInv'
  <1> USE DEF QueryInv
  <1>1. TypeOK'
    <2>1. /\ current' \in [Doc -> Version \cup {NoVersion}] /\ served' \in [Doc -> BOOLEAN]
      BY DEF Change, TypeOK
    <2>2. seen' \subseteq Chunk /\ steady' \subseteq Chunk BY DEF Change, TypeOK, Served
    <2>3. changes' \in 0 .. MaxChanges BY RetrievalAssumption DEF Change, TypeOK
    <2> QED BY <2>1, <2>2, <2>3 DEF Change, TypeOK, channels, result
  <1>2. ConfirmedIsSeen'
    BY DEF Change, ConfirmedIsSeen, Current, channels, result
  <1>3. ContextIsOfFound'
    BY DEF Change, ContextIsOfFound, Gated, channels, result
  <1> QED BY <1>1, <1>2, <1>3

\* A step of the channels confirms what is current and leaves the result alone.
LEMMA ChannelStep ==
  ASSUME QueryInv,
         \/ \E s \in Strategy : Begin(s)
         \/ KeywordSearch \/ SemanticFails \/ VectorSearch \/ HydrateHits
         \/ EntitySeeds \/ GroundSeeds \/ ExpandFails \/ Expand \/ ConfirmPaths
         \/ ClaimCandidates
  PROVE  QueryInv'
  <1> USE DEF QueryInv, TypeOK, ConfirmedIsSeen, ContextIsOfFound, UnderWay, Gated, Goto, Some,
              Search, Hydrate, database, channels, result, Step, Current
  <1>c. Served(current, served) \subseteq Chunk BY CurrentChunks
  <1>1. ASSUME NEW s \in Strategy, Begin(s) PROVE QueryInv'
    BY <1>1, <1>c DEF Begin
  <1>2. CASE KeywordSearch BY <1>2, <1>c DEF KeywordSearch
  <1>3. CASE SemanticFails BY <1>3 DEF SemanticFails, AfterSemantic
  <1>4. CASE VectorSearch BY <1>4 DEF VectorSearch
  <1>5. CASE HydrateHits BY <1>5, <1>c DEF HydrateHits, AfterSemantic
  <1>6. CASE EntitySeeds BY <1>6, <1>c DEF EntitySeeds
  <1>7. CASE GroundSeeds BY <1>7, <1>c DEF GroundSeeds
  <1>8. CASE ExpandFails BY <1>8 DEF ExpandFails
  <1>9. CASE Expand
    <2>1. rawPaths' \subseteq SUBSET Chunk
      <3>1. \A P \in Paths : P \subseteq SUBSET Chunk
        <4> SUFFICES ASSUME NEW path \in [1 .. MaxPaths -> Some(Chunk, MaxHops) \ {{}}],
                            NEW i \in 1 .. MaxPaths
                     PROVE  path[i] \subseteq Chunk
          BY DEF Paths
        <4> QED OBVIOUS
      <3> QED BY <1>9, <3>1 DEF Expand
    <2>2. truncated' \in BOOLEAN BY <1>9 DEF Expand
    <2> QED BY <1>9, <2>1, <2>2 DEF Expand
  <1>10. CASE ConfirmPaths BY <1>10, <1>c DEF ConfirmPaths
  <1>11. CASE ClaimCandidates
    <2>1. claims' \subseteq Served(current, served) BY <1>11 DEF ClaimCandidates
    <2>2. truncated' \in BOOLEAN BY <1>11 DEF ClaimCandidates
    <2> QED BY <1>11, <1>c, <2>1, <2>2 DEF ClaimCandidates
  <1> QED BY <1>1, <1>2, <1>3, <1>4, <1>5, <1>6, <1>7, <1>8, <1>9, <1>10, <1>11

\* The gate puts together what the channels found, and picks from it.
LEMMA GateStep ==
  ASSUME QueryInv, Gate
  PROVE  QueryInv'
  <1> DEFINE all == keyword \cup semantic \cup sources \cup claims
             passed == all \cap Allowed
  <1> USE DEF QueryInv
  <1>1. /\ pc = "gating" /\ pc' = "anchor_seeds" /\ found' = all
        /\ ranked' \subseteq passed \cap Content
        /\ anchors' \subseteq passed /\ chapter' \subseteq ranked'
        /\ truncated' \in BOOLEAN
    <2>1. \A S : OfOneDocument(S) \subseteq S BY DEF OfOneDocument
    <2> QED BY <2>1 DEF Gate, Goto, Some
  <1>2. /\ keyword' = {} /\ semantic' = {} /\ strong' = {} /\ sources' = {}
        /\ UNCHANGED <<database, strategy, hits, seeds, rawPaths, paths, claims, target, context,
                       warned, seen, steady>>
    BY DEF Gate
  <1> HIDE DEF passed
  <1>3. passed \subseteq all BY DEF passed
  <1>4. TypeOK'
    <2>1. all \subseteq Chunk BY DEF TypeOK
    <2>2. \A S \in {found', ranked', anchors', chapter'} : S \subseteq Chunk
      BY <1>1, <1>3, <2>1
    <2>3. ranked' \cup context' \subseteq Content BY <1>1, <1>2 DEF TypeOK
    <2> QED BY <1>1, <1>2, <2>2, <2>3 DEF TypeOK, Step, database
  <1>5. ConfirmedIsSeen'
    BY <1>1, <1>2, <1>3 DEF ConfirmedIsSeen, UnderWay, Current, database
  <1>6. ContextIsOfFound'
    BY <1>1, <1>2, <1>3 DEF ContextIsOfFound, Gated
  <1> QED BY <1>4, <1>5, <1>6

\* Seeds are looked up among what was found.
LEMMA LookUpStep ==
  ASSUME QueryInv, AnchorSeeds \/ DocumentSeeds
  PROVE  QueryInv'
  <1> USE DEF QueryInv
  <1>1. /\ pc \in {"anchor_seeds", "document_seeds"} /\ pc' \in {"anchor_rows", "document_rows"}
        /\ target' \subseteq anchors \cup chapter
        /\ UNCHANGED <<database, strategy, channels, found, ranked, anchors, chapter, context,
                       warned, truncated, seen, steady>>
    BY DEF AnchorSeeds, DocumentSeeds, LookUp, Goto, Hydrate
  <1>2. TypeOK' BY <1>1 DEF TypeOK, Step, database, channels
  <1>3. ConfirmedIsSeen'
    BY <1>1 DEF ConfirmedIsSeen, UnderWay, Current, database, channels
  <1>4. ContextIsOfFound' BY <1>1 DEF ContextIsOfFound, Gated
  <1> QED BY <1>2, <1>3, <1>4

\* Context is read from what is current, of the versions of what was found.
LEMMA ContextStep ==
  ASSUME QueryInv, AnchorRows \/ ChapterContext \/ SectionContext
  PROVE  QueryInv'
  <1> USE DEF QueryInv
  <1>1. /\ pc \in {"anchor_rows", "document_rows", "section_rows"}
        /\ pc' \in {"document_seeds", "section_rows", "answered"}
        /\ target' \subseteq target /\ truncated' \in BOOLEAN
        /\ UNCHANGED <<database, strategy, channels, found, ranked, anchors, chapter, warned, seen,
                       steady>>
        /\ \A c \in context' : \/ c \in context
                               \/ /\ c \in CurrentContent
                                  /\ \E f \in ranked \cup target : SameVersion(f, c)
    <2>1. CASE AnchorRows
      <3> DEFINE rows == {c \in CurrentContent \ anchors : \E t \in target : DocumentRows(t, c)}
      <3>1. AddContext(rows, "anchor_rows", "document_seeds") BY <2>1 DEF AnchorRows
      <3>2. \A c \in rows : c \in CurrentContent /\ \E f \in target : SameVersion(f, c)
        BY DEF DocumentRows
      <3> HIDE DEF rows
      <3> QED BY <3>1, <3>2 DEF AddContext, Goto, Some, TypeOK
    <2>2. CASE ChapterContext
      <3> DEFINE rows == {c \in CurrentContent \ chapter : \E t \in target : ChapterRows(t, c)}
      <3>1. AddContext(rows, "document_rows", "section_rows") BY <2>2 DEF ChapterContext
      <3>2. \A c \in rows : c \in CurrentContent /\ \E f \in target : SameVersion(f, c)
        BY DEF ChapterRows
      <3> HIDE DEF rows
      <3> QED BY <3>1, <3>2 DEF AddContext, Goto, Some, TypeOK
    <2>3. CASE SectionContext
      BY <2>3 DEF SectionContext, Goto, TypeOK
    <2> QED BY <2>1, <2>2, <2>3
  <1>2. CurrentContent \subseteq Chunk /\ CurrentContent \subseteq Content
    BY CurrentChunks DEF CurrentContent, Current
  <1>3. context' \subseteq Chunk /\ context' \subseteq Content BY <1>1, <1>2 DEF TypeOK
  <1>4. TypeOK' BY <1>1, <1>3 DEF TypeOK, Step, database, channels
  <1>5. ConfirmedIsSeen'
    <2>1. CurrentContent \subseteq seen
      BY <1>1 DEF ConfirmedIsSeen, UnderWay, CurrentContent
    <2> QED BY <1>1, <2>1 DEF ConfirmedIsSeen, UnderWay, Current, database, channels
  <1>6. ContextIsOfFound'
    <2>1. \A c \in context' : \E f \in found : SameVersion(c, f)
      BY <1>1 DEF ContextIsOfFound, SameVersion
    <2> QED BY <1>1, <2>1 DEF ContextIsOfFound, Gated
  <1> QED BY <1>4, <1>5, <1>6

LEMMA RaiseStep ==
  ASSUME QueryInv, Raise
  PROVE  QueryInv'
  BY DEF Raise, QueryInv, TypeOK, ConfirmedIsSeen, ContextIsOfFound, UnderWay, Gated, Goto,
         Step, Current, database

LEMMA QueryStep == QueryInv /\ [Next]_vars => QueryInv'
  <1> SUFFICES ASSUME QueryInv, [Next]_vars PROVE QueryInv' OBVIOUS
  <1>1. CASE Change BY <1>1, ChangeStep
  <1>2. CASE Query
    BY <1>2, ChannelStep, GateStep, LookUpStep, ContextStep, RaiseStep DEF Query
  <1>3. CASE UNCHANGED vars
    BY <1>3 DEF vars, QueryInv, TypeOK, ConfirmedIsSeen, ContextIsOfFound, UnderWay, Gated,
                Current, database, channels, result
  <1> QED BY <1>1, <1>2, <1>3 DEF Next

LEMMA QueryInvariant == Spec => []QueryInv
  BY QueryInit, QueryStep, PTL DEF Spec

\* What a query holds is well-typed, and its answer shows content only, never headings.
THEOREM QueryTypes == Spec => []TypeOK
  BY QueryInvariant, PTL DEF QueryInv

\* Whatever Qdrant and Neo4j name and whatever scans do during the query, every chunk of
\* the answer was current while the query ran.
THEOREM AnswersAreOfTheirTime == Spec => []AnswerWasCurrent
  <1>1. QueryInv => AnswerWasCurrent
    <2> SUFFICES ASSUME QueryInv PROVE Shown \subseteq seen BY DEF AnswerWasCurrent
    <2> QED BY DEF QueryInv, ConfirmedIsSeen, ContextIsOfFound, Shown
  <1> QED BY <1>1, QueryInvariant, PTL

\* Context is of the very document version that something found is of, though it is looked
\* up and read in two queries between which the document may change.
THEOREM ContextIsTheirs == Spec => []ContextBelongsToFound
  <1>1. QueryInv => ContextBelongsToFound
    BY DEF QueryInv, ContextIsOfFound, ContextBelongsToFound
  <1> QED BY <1>1, QueryInvariant, PTL
-----------------------------------------------------------------------------
(***************************************************************************)
(* What an answer leaves out.                                              *)
(***************************************************************************)

\* While nothing was warned of, what Qdrant and Neo4j named has been confirmed.
AllConfirmed ==
  /\ pc \in {"idle", "searching", "embedding"} => hits = {}
  /\ ~warned /\ pc \in {"seeding", "grounding", "expanding", "confirming", "claiming", "gating"}
       => hits \subseteq semantic
  /\ pc \notin {"confirming", "claiming", "gating"} /\ ~ Gated => rawPaths = {} /\ paths = {}
  /\ ~warned /\ pc \in {"claiming", "gating"} => paths = rawPaths /\ UNION paths \subseteq sources

\* ... and if nothing was cut off either, it is in the answer.
AllShown ==
  ~warned /\ ~truncated /\ Gated =>
    /\ found \cap Content = ranked
    /\ hits \cup claims \cup (UNION paths) \subseteq found
    /\ paths = rawPaths

SilenceInv == AllConfirmed /\ AllShown

\* The sources of seeds that stay current are kept, whether anything is warned of or not.
SeedsKept ==
  /\ UnderWay => steady \subseteq Current
  /\ pc \in {"idle", "searching", "embedding", "hydrating", "seeding"} => seeds = {}
  /\ pc \in {"expanding", "confirming", "claiming", "gating"} => seeds \cap steady \subseteq sources
  /\ Gated => seeds \cap steady \subseteq found

LEMMA SeedsInit == Init => SeedsKept
  BY DEF Init, SeedsKept, UnderWay, Gated

LEMMA SeedsStep == SeedsKept /\ [Next]_vars => SeedsKept'
  <1> SUFFICES ASSUME SeedsKept, [Next]_vars PROVE SeedsKept' OBVIOUS
  <1> USE DEF SeedsKept, UnderWay, Gated, Goto
  <1>1. CASE Change
    BY <1>1 DEF Change, Current, channels, result
  <1>2. ASSUME NEW s \in Strategy, Begin(s) PROVE SeedsKept'
    BY <1>2 DEF Begin, Current, database, channels
  <1>3. CASE KeywordSearch \/ SemanticFails \/ VectorSearch \/ HydrateHits
    BY <1>3 DEF KeywordSearch, SemanticFails, VectorSearch, HydrateHits, AfterSemantic, Current,
                database, channels
  <1>4. CASE EntitySeeds BY <1>4 DEF EntitySeeds, Current, database
  <1>5. CASE GroundSeeds
    <2>1. seeds \cap steady \subseteq sources' BY <1>5 DEF GroundSeeds, Hydrate, Search, Some
    <2> QED BY <1>5, <2>1 DEF GroundSeeds, Current, database
  <1>6. CASE ExpandFails \/ Expand
    BY <1>6 DEF ExpandFails, Expand, Current, database, channels
  <1>7. CASE ConfirmPaths
    <2>1. sources \subseteq sources' BY <1>7 DEF ConfirmPaths
    <2> QED BY <1>7, <2>1 DEF ConfirmPaths, Current, database
  <1>8. CASE ClaimCandidates BY <1>8 DEF ClaimCandidates, Current, database
  <1>9. CASE Gate
    <2>1. /\ pc = "gating" /\ pc' = "anchor_seeds" /\ sources \subseteq found'
          /\ UNCHANGED <<database, seeds, steady>>
      BY <1>9 DEF Gate
    <2> QED BY <2>1 DEF Current, database
  <1>10. CASE AnchorSeeds \/ DocumentSeeds
    BY <1>10 DEF AnchorSeeds, DocumentSeeds, LookUp, Current, database, channels
  <1>11. CASE AnchorRows \/ ChapterContext \/ SectionContext
    <2>1. /\ pc \in {"anchor_rows", "document_rows", "section_rows"}
          /\ pc' \in {"document_seeds", "section_rows", "answered"}
          /\ UNCHANGED <<database, seeds, steady, found>>
      BY <1>11 DEF AnchorRows, ChapterContext, SectionContext, AddContext, channels
    <2> QED BY <2>1 DEF Current, database
  <1>12. CASE Raise BY <1>12 DEF Raise
  <1>13. CASE UNCHANGED vars BY <1>13 DEF vars, Current, database, channels, result
  <1> QED
    BY <1>1, <1>2, <1>3, <1>4, <1>5, <1>6, <1>7, <1>8, <1>9, <1>10, <1>11, <1>12, <1>13
    DEF Next, Query

\* The ranking takes everything if there is room for everything.
LEMMA RankedIsAll ==
  ASSUME NEW S \in SUBSET Chunk, NEW T \in Some(S, Limit), Cardinality(S) <= Limit,
         Cardinality(T) < Limit => T = S
  PROVE  T = S
  <1>1. IsFiniteSet(S) BY RetrievalAssumption, FS_Subset
  <1>2. T \subseteq S /\ Cardinality(T) <= Limit BY DEF Some
  <1>3. IsFiniteSet(T) BY <1>1, <1>2, FS_Subset
  <1>4. Cardinality(S) \in Nat /\ Cardinality(T) \in Nat /\ Limit \in Nat
    BY <1>1, <1>3, FS_CardinalityType, RetrievalAssumption
  <1>5. CASE Cardinality(T) = Limit
    <2>1. Cardinality(T) <= Cardinality(S) BY <1>1, <1>2, FS_Subset
    <2>2. Cardinality(T) = Cardinality(S) BY <1>4, <1>5, <2>1
    <2> QED BY <1>1, <1>2, <2>2, FS_Subset
  <1> QED BY <1>2, <1>4, <1>5

LEMMA GateTakesAll ==
  ASSUME QueryInv, SilenceInv, Gate
  PROVE  SilenceInv'
  <1> DEFINE all == keyword \cup semantic \cup sources \cup claims
             passed == all \cap Allowed
  <1> USE DEF QueryInv, SilenceInv
  <1>1. /\ pc = "gating" /\ pc' = "anchor_seeds" /\ found' = all
        /\ ranked' \in Some(passed \cap Content, Limit)
        /\ Cardinality(ranked') < Limit => ranked' = passed \cap Content
        /\ truncated' = (truncated \/ IsCut(all, passed))
        /\ UNCHANGED <<hits, rawPaths, paths, claims, warned>>
    BY DEF Gate, Goto
  <1> HIDE DEF passed
  <1>2. AllConfirmed' BY <1>1 DEF AllConfirmed, Gated
  <1>3. ASSUME ~warned', ~truncated' PROVE AllShown'
    <2>1. passed = all /\ ~ Cardinality(passed \cap Content) > Limit
      BY <1>1, <1>3 DEF IsCut, TypeOK
    <2>2. all \subseteq Chunk BY DEF TypeOK
    <2>3. IsFiniteSet(passed \cap Content)
      BY <2>1, <2>2, RetrievalAssumption, FS_Subset
    <2>4. Cardinality(passed \cap Content) <= Limit
      BY <2>1, <2>3, FS_CardinalityType, RetrievalAssumption
    <2>5. ranked' = passed \cap Content
      BY <1>1, <2>1, <2>2, <2>4, RankedIsAll
    <2>6. /\ hits \subseteq semantic /\ paths = rawPaths /\ UNION paths \subseteq sources
      BY <1>1, <1>3 DEF AllConfirmed
    <2> QED BY <1>1, <2>1, <2>5, <2>6 DEF AllShown
  <1> QED BY <1>2, <1>3 DEF AllShown

\* A step of the channels that loses something warns of it.
LEMMA ChannelsConfirm ==
  ASSUME QueryInv, SilenceInv,
         \/ \E s \in Strategy : Begin(s)
         \/ KeywordSearch \/ SemanticFails \/ VectorSearch \/ HydrateHits
         \/ EntitySeeds \/ GroundSeeds \/ ExpandFails \/ Expand \/ ConfirmPaths
         \/ ClaimCandidates
  PROVE  SilenceInv'
  <1> USE DEF QueryInv, SilenceInv, AllConfirmed, AllShown, Gated, Goto, AfterSemantic, channels
  <1>0. warned \in BOOLEAN /\ truncated \in BOOLEAN BY DEF TypeOK
  <1>1. ASSUME NEW s \in Strategy, Begin(s) PROVE SilenceInv'
    BY <1>1 DEF Begin
  <1>2. CASE KeywordSearch BY <1>2 DEF KeywordSearch
  <1>3. CASE SemanticFails BY <1>3 DEF SemanticFails
  <1>4. CASE VectorSearch BY <1>4 DEF VectorSearch
  <1>5. CASE HydrateHits
    <2>1. ~warned' => ~warned /\ semantic' = hits BY <1>0, <1>5 DEF HydrateHits
    <2> QED BY <1>5, <2>1 DEF HydrateHits
  <1>6. CASE EntitySeeds BY <1>6 DEF EntitySeeds
  <1>7. CASE GroundSeeds BY <1>7 DEF GroundSeeds
  <1>8. CASE ExpandFails BY <1>8 DEF ExpandFails
  <1>9. CASE Expand BY <1>9 DEF Expand
  <1>10. CASE ConfirmPaths
    <2>1. ~warned' => ~warned /\ paths' = rawPaths BY <1>0, <1>10 DEF ConfirmPaths
    <2>2. UNION paths' \subseteq sources' BY <1>10 DEF ConfirmPaths
    <2> QED BY <1>10, <2>1, <2>2 DEF ConfirmPaths
  <1>11. CASE ClaimCandidates BY <1>11 DEF ClaimCandidates
  <1> QED BY <1>1, <1>2, <1>3, <1>4, <1>5, <1>6, <1>7, <1>8, <1>9, <1>10, <1>11

LEMMA SilenceInit == Init => SilenceInv
  BY DEF Init, SilenceInv, AllConfirmed, AllShown, Gated

LEMMA SilenceStep == QueryInv /\ SilenceInv /\ [Next]_vars => SilenceInv'
  <1> SUFFICES ASSUME QueryInv, SilenceInv, [Next]_vars PROVE SilenceInv' OBVIOUS
  <1> USE DEF SilenceInv, AllConfirmed, AllShown, Gated, channels, result
  <1>0. warned \in BOOLEAN /\ truncated \in BOOLEAN BY DEF QueryInv, TypeOK
  <1>1. CASE Change BY <1>1 DEF Change
  <1>2. CASE AnchorSeeds \/ DocumentSeeds
    BY <1>2 DEF AnchorSeeds, DocumentSeeds, LookUp, Goto
  <1>3. CASE AnchorRows \/ ChapterContext
    <2>1. ASSUME NEW rows, NEW here \in {"anchor_rows", "document_rows"},
                 NEW next \in {"document_seeds", "section_rows"}, AddContext(rows, here, next)
          PROVE  SilenceInv'
      <3>1. ~truncated' => ~truncated BY <1>0, <2>1 DEF AddContext
      <3> QED BY <2>1, <3>1 DEF AddContext, Goto
    <2> QED BY <1>3, <2>1 DEF AnchorRows, ChapterContext
  <1>4. CASE SectionContext BY <1>4 DEF SectionContext, Goto
  <1>5. CASE Raise BY <1>5 DEF Raise, Goto
  <1>6. CASE UNCHANGED vars BY <1>6 DEF vars
  <1> QED
    BY <1>1, <1>2, <1>3, <1>4, <1>5, <1>6, ChannelsConfirm, GateTakesAll DEF Next, Query

\* An answer without a warning or a mark that it was cut leaves out no hit of Qdrant, no
\* path of Neo4j, no claim and nothing that the channels confirmed, whatever failed or
\* changed on the way, and of the sources of the entities that the query names none that
\* was current all along; headings apart.
THEOREM SilenceIsTrue == Spec => []SilenceMeansComplete
  <1>1. SilenceInv /\ SeedsKept => SilenceMeansComplete
    <2> SUFFICES ASSUME SilenceInv, SeedsKept, pc = "answered", ~warned, ~truncated
                 PROVE  /\ (found \cup hits \cup (seeds \cap steady)) \cap Content \subseteq ranked
                        /\ {p \in rawPaths : p \subseteq Content} \subseteq VisiblePaths
                        /\ claims \cap Content \subseteq VisibleClaims
      BY DEF SilenceMeansComplete
    <2>1. /\ found \cap Content = ranked /\ paths = rawPaths
          /\ hits \cup claims \cup (UNION paths) \cup (seeds \cap steady) \subseteq found
      BY DEF SilenceInv, AllShown, SeedsKept, Gated
    <2> QED BY <2>1 DEF VisiblePaths, VisibleClaims, Shown
  <1>2. Spec => []SilenceInv
    BY SilenceInit, SilenceStep, QueryInvariant, PTL DEF Spec
  <1>3. Spec => []SeedsKept
    BY SeedsInit, SeedsStep, PTL DEF Spec
  <1> QED BY <1>1, <1>2, <1>3, PTL
=============================================================================
