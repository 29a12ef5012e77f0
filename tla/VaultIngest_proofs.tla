-------------------------- MODULE VaultIngest_proofs --------------------------
(***************************************************************************)
(* What TLAPS proves of VaultIngest, for every vault, number of workers    *)
(* and setting: types, that states and documents belong together, and that *)
(* no text of an earlier version is kept, also with several scanners; and  *)
(* while scans follow each other, that a file which moved keeps its        *)
(* document, that an active document has a file state, and that an         *)
(* undisturbed scan leaves the index of the files there are.               *)
(***************************************************************************)
EXTENDS VaultIngest, FiniteSetTheorems, TLAPS

\* Documents are registered one after the other, and one that is not is as it was.
RegisteredInOrder ==
  /\ Registered = 1 .. Cardinality(Registered)
  /\ \A d \in Doc \ Registered : docs[d] = NoDocument

\* A path without a file has an empty state, and scans have registered what they parse.
StatesAreClean ==
  /\ \A p \in Path : states[p].content = None => states[p] = NoState
  /\ \A w \in Scanner : \A s \in todo[w] : s.doc \in Registered

IngestInv ==
  TypeOK /\ RegisteredInOrder /\ StatesAreClean /\ StatesOwnDocuments /\ NoHistoricalText

-----------------------------------------------------------------------------
(***************************************************************************)
(* Numbering paths.                                                        *)
(***************************************************************************)

Rank(F, p) == Cardinality({q \in F : q <= p})

\* The paths of a set are numbered from 1, each with a number of its own.
LEMMA Ranks ==
  ASSUME NEW F \in SUBSET Path
  PROVE  /\ Cardinality(F) \in Nat
         /\ \A p \in F : Rank(F, p) \in 1 .. Cardinality(F)
         /\ \A p, q \in F : Rank(F, p) = Rank(F, q) => p = q
         /\ \A i \in 1 .. Cardinality(F) : \E p \in F : Rank(F, p) = i
  <1> USE DEF Path
  <1>0. \A p \in F : p \in Int OBVIOUS
  <1>1. IsFiniteSet(F) /\ Cardinality(F) \in Nat
    <2>1. 1 \in Int /\ NumPaths \in Int BY IngestAssumption
    <2>2. IsFiniteSet(1 .. NumPaths) BY <2>1, FS_Interval
    <2> QED BY <2>2, FS_Subset, FS_CardinalityType
  <1>2. ASSUME NEW p \in F
        PROVE  /\ IsFiniteSet({q \in F : q <= p})
               /\ Rank(F, p) \in 1 .. Cardinality(F)
    <2> DEFINE S == {q \in F : q <= p}
    <2>1. S \in SUBSET F /\ p \in S BY <1>2
    <2>2. IsFiniteSet(S) /\ Cardinality(S) <= Cardinality(F) BY <1>1, <2>1, FS_Subset
    <2>3. Cardinality(S) \in Nat /\ Cardinality(S) # 0
      BY <2>1, <2>2, FS_CardinalityType, FS_EmptySet
    <2> QED BY <1>1, <2>2, <2>3 DEF Rank
  <1>3. ASSUME NEW p \in F, NEW q \in F, p < q
        PROVE  Rank(F, p) # Rank(F, q)
    <2> DEFINE S == {r \in F : r <= p}
               T == {r \in F : r <= q}
    <2>1. S \in SUBSET T /\ q \in T /\ q \notin S
      <3> HIDE DEF Path
      <3> QED BY <1>0, <1>3
    <2>2. IsFiniteSet(T) BY <1>2
    <2>3. Cardinality(S) # Cardinality(T) BY <2>1, <2>2, FS_Subset
    <2> QED BY <2>3 DEF Rank
  <1>4. \A p, q \in F : Rank(F, p) = Rank(F, q) => p = q
    <2> SUFFICES ASSUME NEW p \in F, NEW q \in F, p # q PROVE Rank(F, p) # Rank(F, q)
      OBVIOUS
    <2>1. p < q \/ q < p OBVIOUS
    <2> QED BY <2>1, <1>3
  <1>5. ASSUME NEW i \in 1 .. Cardinality(F)
        PROVE  \E p \in F : Rank(F, p) = i
    <2> DEFINE f == [p \in F |-> Rank(F, p)]
               T == 1 .. Cardinality(F)
    <2>1. f \in [F -> T] BY <1>2
    <2>2. f \in Injection(F, T) BY <2>1, <1>4 DEF Injection, IsInjective
    <2>3. IsFiniteSet(T) /\ Cardinality(T) = Cardinality(F) BY <1>1, FS_Interval
    <2>4. f \in Surjection(F, T) BY <2>2, <2>3, FS_Injection
    <2> QED BY <2>4 DEF Surjection
  <1> QED BY <1>1, <1>2, <1>4, <1>5

LEMMA RegisteredCount == IsFiniteSet(Registered) /\ Cardinality(Registered) \in Nat
  <1>1. Registered \in SUBSET (1 .. MaxDocs) BY DEF Registered, Doc
  <1>2. IsFiniteSet(1 .. MaxDocs)
    <2>1. 1 \in Int /\ MaxDocs \in Int BY IngestAssumption
    <2> QED BY <2>1, FS_Interval
  <1> QED BY <1>1, <1>2, FS_Subset, FS_CardinalityType

-----------------------------------------------------------------------------
(***************************************************************************)
(* The beginning.                                                          *)
(***************************************************************************)

\* A vault that a scan has indexed has one document for each file.
LEMMA IndexedAtFirst ==
  ASSUME Init
  PROVE  /\ RegisteredInOrder
         /\ \A p \in Present(states) :
              /\ states[p].doc \in Registered /\ docs[states[p].doc].path = p
              /\ docs[states[p].doc].version # None
         /\ docs \in [Doc -> Document] /\ states \in [Path -> State]
         /\ \A p \in Path : states[p].content = None => states[p] = NoState
  <1> DEFINE P == Present(files)
  <1>1. P \in SUBSET Path BY DEF Present
  <1>2. \A p : FirstDoc(p) = Rank(P, p) BY DEF FirstDoc, Rank
  <1>3. PICK indexed \in {{}, P} :
          /\ states = [p \in Path |->
               IF p \in indexed
               THEN [content |-> files[p].content, mtime |-> 0, doc |-> FirstDoc(p)]
               ELSE NoState]
          /\ docs = [d \in Doc |->
               IF \E p \in indexed : FirstDoc(p) = d
               THEN LET p == CHOOSE q \in indexed : FirstDoc(q) = d IN
                    [path |-> p, life |-> "active", version |-> files[p].content]
               ELSE NoDocument]
    BY DEF Init
  <1>4. Cardinality(P) \in Nat /\ Cardinality(P) <= MaxDocs
    <2>1. IsFiniteSet(Path) /\ Cardinality(Path) = NumPaths
      <3>1. 1 \in Int /\ NumPaths \in Int /\ NumPaths >= 0 BY IngestAssumption
      <3> QED BY <3>1, FS_Interval DEF Path
    <2>2. Cardinality(P) \in Nat /\ Cardinality(P) <= NumPaths
      BY <1>1, <2>1, FS_Subset, FS_CardinalityType
    <2> QED BY <2>2, IngestAssumption
  <1>5. /\ \A p \in P : FirstDoc(p) \in 1 .. Cardinality(P)
        /\ \A p, q \in P : FirstDoc(p) = FirstDoc(q) => p = q
        /\ \A i \in 1 .. Cardinality(P) : \E p \in P : FirstDoc(p) = i
    <2> HIDE DEF P
    <2> QED BY <1>1, <1>2, Ranks
  <1>6. \A p \in P : FirstDoc(p) \in Doc BY <1>4, <1>5, IngestAssumption DEF Doc
  <1>7. \A p \in P : files[p].content \in Content BY <1>1 DEF Init, Present, Maybe
  <1>8. Registered = 1 .. Cardinality(indexed)
    <2>1. Registered = {d \in Doc : \E p \in indexed : FirstDoc(p) = d}
      BY <1>3 DEF Registered, NoDocument
    <2>2. CASE indexed = {} BY <2>1, <2>2, FS_EmptySet
    <2>3. CASE indexed = P
      <3> HIDE DEF P
      <3> QED BY <2>1, <2>3, <1>5, <1>6
    <2> QED BY <2>2, <2>3
  <1>9. Registered = 1 .. Cardinality(Registered)
    <2>1. Cardinality(indexed) \in Nat BY <1>4, FS_EmptySet
    <2>2. 1 \in Int /\ Cardinality(indexed) \in Int BY <2>1
    <2>3. Cardinality(1 .. Cardinality(indexed)) = Cardinality(indexed)
      BY <2>1, <2>2, FS_Interval
    <2> QED BY <1>8, <2>3
  <1>10. \A d \in Doc \ Registered : docs[d] = NoDocument
    BY <1>3 DEF Registered
  <1>11. ASSUME NEW p \in Present(states)
         PROVE  /\ p \in indexed /\ indexed = P /\ states[p].doc = FirstDoc(p)
                /\ docs[FirstDoc(p)] = [path |-> p, life |-> "active",
                                        version |-> files[p].content]
    <2>1. p \in indexed /\ states[p].doc = FirstDoc(p)
      BY <1>3 DEF Present, NoState
    <2>2. indexed = P BY <2>1, <1>3
    <2>3. p = CHOOSE q \in indexed : FirstDoc(q) = FirstDoc(p)
      BY <1>5, <2>1, <2>2
    <2> QED BY <1>3, <1>6, <2>1, <2>2, <2>3
  <1>12. ASSUME NEW p \in Present(states)
         PROVE  /\ states[p].doc \in Registered /\ docs[states[p].doc].path = p
                /\ docs[states[p].doc].version # None
    <2>1. files[p].content # None BY <1>11 DEF Present
    <2>2. FirstDoc(p) \in Doc BY <1>6, <1>11
    <2>3. /\ states[p].doc = FirstDoc(p)
          /\ docs[FirstDoc(p)] = [path |-> p, life |-> "active",
                                  version |-> files[p].content]
      BY <1>11
    <2>4. /\ docs[FirstDoc(p)].path = p /\ docs[FirstDoc(p)].version # None
          /\ docs[FirstDoc(p)].life # "none"
      BY <2>1, <2>3
    <2> QED BY <2>2, <2>3, <2>4 DEF Registered
  <1>13. docs \in [Doc -> Document]
    <2>1. ASSUME NEW d \in Doc PROVE docs[d] \in Document
      <3>1. CASE \E p \in indexed : FirstDoc(p) = d
        <4> DEFINE p == CHOOSE q \in indexed : FirstDoc(q) = d
        <4>1. p \in indexed BY <3>1
        <4>2. p \in Path /\ files[p].content \in Maybe
          BY <4>1, <1>1, <1>3, <1>7 DEF Maybe
        <4>3. docs[d] = [path |-> p, life |-> "active", version |-> files[p].content]
          BY <1>3, <3>1
        <4> HIDE DEF p
        <4> QED BY <4>2, <4>3 DEF Document
      <3>2. CASE ~ \E p \in indexed : FirstDoc(p) = d
        BY <1>3, <3>2 DEF NoDocument, Document, Maybe
      <3> QED BY <3>1, <3>2
    <2> QED BY <1>3, <2>1
  <1>14. states \in [Path -> State]
    <2>1. 0 \in 0 .. MaxEdits BY IngestAssumption
    <2>2. ASSUME NEW p \in Path PROVE states[p] \in State
      <3>1. CASE p \in indexed
        <4>1. files[p].content \in Maybe /\ FirstDoc(p) \in Doc
          BY <1>3, <1>6, <1>7, <3>1 DEF Maybe
        <4> QED BY <1>3, <2>1, <3>1, <4>1 DEF State
      <3>2. CASE p \notin indexed
        BY <1>3, <2>1, <3>2 DEF NoState, State, Maybe
      <3> QED BY <3>1, <3>2
    <2> QED BY <1>3, <2>2
  <1>15. \A p \in Path : states[p].content = None => states[p] = NoState
    BY <1>3, <1>7, IngestAssumption
  <1> QED BY <1>9, <1>10, <1>12, <1>13, <1>14, <1>15 DEF RegisteredInOrder

LEMMA IngestInit == Init => IngestInv
  <1> SUFFICES ASSUME Init PROVE IngestInv OBVIOUS
  <1>1. TypeOK
    <2>1. files \in [Path -> File] /\ past \in [Path -> SUBSET Content] /\ silent \subseteq Path
      BY IngestAssumption DEF Init, File, Maybe
    <2>2. docs \in [Doc -> Document] /\ states \in [Path -> State] BY IndexedAtFirst
    <2>3. derived \in [Doc -> [Content -> Maybe]] BY DEF Init, Maybe
    <2>4. /\ previous \in [Scanner -> [Path -> State]] /\ seen \in [Scanner -> [Path -> File]]
          /\ at \in [Scanner -> 1 .. NumPaths + 1]
      BY IngestAssumption DEF Init, NoState, State, NoFile, File, Maybe
    <2>5. /\ pc \in [Scanner -> {"idle"}] /\ kind \in [Scanner -> {"incremental"}]
          /\ todo \in [Scanner -> SUBSET Source] /\ text \in [Scanner -> Maybe]
          /\ source \in [Scanner -> Source \cup {NoSource}]
          /\ trouble \in [Scanner -> SUBSET {"edit", "failure"}]
      BY DEF Init, Maybe
    <2>6. /\ setting \in Setting /\ scans \in 0 .. setting.scans /\ edits \in 0 .. MaxEdits
          /\ failures \in 0 .. setting.failures /\ crashes \in 0 .. setting.crashes
      BY IngestAssumption DEF Init
    <2> QED BY <2>1, <2>2, <2>3, <2>4, <2>5, <2>6 DEF TypeOK
  <1>2. RegisteredInOrder BY IndexedAtFirst
  <1>3. StatesAreClean BY IndexedAtFirst DEF StatesAreClean, Init
  <1>4. StatesOwnDocuments BY IndexedAtFirst DEF StatesOwnDocuments
  <1>5. NoHistoricalText BY IngestAssumption DEF NoHistoricalText, Init
  <1> QED BY <1>1, <1>2, <1>3, <1>4, <1>5 DEF IngestInv

-----------------------------------------------------------------------------
(***************************************************************************)
(* Steps that leave states and documents alone.                            *)
(***************************************************************************)

\* What IngestInv says of the store and of what is to be parsed stays.
LEMMA StoreUntouched ==
  ASSUME IngestInv, UNCHANGED store,
         \A w \in Scanner : todo'[w] \subseteq todo[w]
  PROVE  RegisteredInOrder' /\ StatesAreClean' /\ StatesOwnDocuments' /\ NoHistoricalText'
  <1> USE DEF IngestInv, store
  <1>1. RegisteredInOrder' BY DEF RegisteredInOrder, Registered
  <1>2. StatesAreClean' BY DEF StatesAreClean, Registered
  <1>3. StatesOwnDocuments' BY DEF StatesOwnDocuments, Present, Registered
  <1>4. NoHistoricalText' BY DEF NoHistoricalText
  <1> QED BY <1>1, <1>2, <1>3, <1>4

LEMMA EditStep ==
  ASSUME IngestInv, Edit
  PROVE  IngestInv'
  <1>1. TypeOK'
    <2>1. TypeOK BY DEF IngestInv
    <2>2. edits + 1 \in 0 .. MaxEdits BY <2>1, IngestAssumption DEF Edit, TypeOK
    <2>3. /\ files' \in [Path -> File] /\ past' \in [Path -> SUBSET Content]
          /\ silent' \subseteq Path
      <3>1. PICK p \in Path : Write(p) \/ Remove(p) \/ \E q \in Path \ {p} : Move(p, q)
        BY DEF Edit
      <3>2. CASE Write(p)
        <4>1. PICK c \in Content \ {files[p].content},
                   mtime \in {edits + 1, files[p].mtime} :
                /\ files' = [files EXCEPT ![p] = [content |-> c, mtime |-> mtime]]
                /\ silent' = IF mtime = edits + 1 THEN silent ELSE silent \cup {p}
                /\ past' = [past EXCEPT ![p] = @ \cup {c}]
          BY <3>2 DEF Write
        <4>2. [content |-> c, mtime |-> mtime] \in File
          <5>1. files[p] \in File BY <2>1 DEF TypeOK
          <5>2. mtime \in 0 .. MaxEdits BY <5>1, <2>2 DEF File
          <5> QED BY <5>2 DEF File, Maybe
        <4> QED BY <2>1, <4>1, <4>2 DEF TypeOK
      <3>3. CASE Remove(p)
        BY <2>1, <3>3, IngestAssumption DEF Remove, TypeOK, NoFile, File, Maybe
      <3>4. CASE \E q \in Path \ {p} : Move(p, q)
        <4>1. PICK q \in Path \ {p} : Move(p, q) BY <3>4
        <4>2. NoFile \in File /\ files[p] \in File /\ files[p].content \in Content
          BY <2>1, <4>1, IngestAssumption DEF TypeOK, NoFile, File, Maybe, Move
        <4> QED BY <2>1, <4>1, <4>2 DEF TypeOK, Move
      <3> QED BY <3>1, <3>2, <3>3, <3>4
    <2>4. trouble' \in [Scanner -> SUBSET {"edit", "failure"}]
      BY <2>1 DEF Edit, TypeOK
    <2> QED BY <2>1, <2>2, <2>3, <2>4 DEF Edit, TypeOK, store, memory
  <1>2. UNCHANGED store /\ todo' = todo BY DEF Edit, memory
  <1> QED BY <1>1, <1>2, StoreUntouched DEF IngestInv

\* A scan ends, however it does.
LEMMA EndStep ==
  ASSUME IngestInv, NEW w \in Scanner, End(w), UNCHANGED <<setting, vault, store, scans, edits, failures>>,
         crashes' \in 0 .. setting.crashes
  PROVE  IngestInv'
  <1>1. TypeOK'
    <2>1. TypeOK BY DEF IngestInv
    <2>2. /\ NoState \in State /\ NoFile \in File /\ 1 \in 1 .. NumPaths + 1
          /\ None \in Maybe
      BY IngestAssumption DEF NoState, State, NoFile, File, Maybe
    <2>3. /\ previous' \in [Scanner -> [Path -> State]] /\ seen' \in [Scanner -> [Path -> File]]
          /\ at' \in [Scanner -> 1 .. NumPaths + 1]
      BY <2>1, <2>2 DEF End, TypeOK
    <2>4. /\ pc' \in [Scanner -> {"idle", "walking", "applying", "parsing", "storing",
                                  "failing", "finishing", "conflict"}]
          /\ kind' \in [Scanner -> {"incremental", "full_rehash", "measure"}]
          /\ todo' \in [Scanner -> SUBSET Source] /\ text' \in [Scanner -> Maybe]
          /\ source' \in [Scanner -> Source \cup {NoSource}]
          /\ trouble' \in [Scanner -> SUBSET {"edit", "failure"}]
      BY <2>1, <2>2 DEF End, TypeOK, Goto
    <2>5. \A v \in Scanner : pc'[v] \in {"storing", "failing"} => source'[v] \in todo'[v]
      <3> SUFFICES ASSUME NEW v \in Scanner, pc'[v] \in {"storing", "failing"}
                   PROVE  source'[v] \in todo'[v]
        OBVIOUS
      <3>1. v # w /\ pc'[v] = pc[v] BY <2>1 DEF End, Goto, TypeOK
      <3>2. todo'[v] = todo[v] BY <2>1, <3>1 DEF End, TypeOK
      <3>3. source'[v] = source[v] BY <2>1, <3>1 DEF End, TypeOK
      <3> QED BY <2>1, <3>1, <3>2, <3>3 DEF TypeOK
    <2> QED BY <2>1, <2>3, <2>4, <2>5 DEF TypeOK, vault, store
  <1>2. \A v \in Scanner : todo'[v] \subseteq todo[v]
    BY DEF End, IngestInv, TypeOK
  <1> QED BY <1>1, <1>2, StoreUntouched DEF IngestInv

LEMMA BeginStep ==
  ASSUME IngestInv, NEW w \in Scanner, Begin(w)
  PROVE  IngestInv'
  <1>1. TypeOK'
    <2>1. TypeOK BY DEF IngestInv
    <2>2. kind' \in [Scanner -> {"incremental", "full_rehash", "measure"}]
      <3>1. PICK t \in setting.types : kind' = [kind EXCEPT ![w] = t] BY DEF Begin
      <3>2. setting.types \in SUBSET {"incremental", "full_rehash", "measure"}
        BY <2>1, IngestAssumption DEF TypeOK
      <3> QED BY <2>1, <3>1, <3>2 DEF TypeOK
    <2>3. scans' \in 0 .. setting.scans
      <3>1. setting.scans \in Nat BY <2>1, IngestAssumption DEF TypeOK
      <3> QED BY <2>1, <3>1 DEF Begin, TypeOK
    <2>4. previous' \in [Scanner -> [Path -> State]] BY <2>1 DEF Begin, TypeOK
    <2>5. /\ pc' \in [Scanner -> {"idle", "walking", "applying", "parsing", "storing",
                                  "failing", "finishing", "conflict"}]
          /\ \A v \in Scanner : pc'[v] \in {"storing", "failing"} => pc[v] = pc'[v]
      BY <2>1 DEF Begin, Goto, TypeOK
    <2> QED BY <2>1, <2>2, <2>3, <2>4, <2>5 DEF Begin, TypeOK, vault, store
  <1>2. UNCHANGED store /\ todo' = todo BY DEF Begin
  <1> QED BY <1>1, <1>2, StoreUntouched DEF IngestInv

LEMMA VisitStep ==
  ASSUME IngestInv, NEW w \in Scanner, Visit(w)
  PROVE  IngestInv'
  <1>1. TypeOK'
    <2>1. TypeOK BY DEF IngestInv
    <2> DEFINE p == at[w]
               found == [files[p] EXCEPT
                           !.content = IF ShouldHash(w, p) THEN @ ELSE previous[w][p].content]
    <2>2. p \in Path /\ p + 1 \in 1 .. NumPaths + 1
      <3>1. at[w] \in 1 .. NumPaths + 1 BY <2>1 DEF TypeOK
      <3> QED BY <3>1, IngestAssumption DEF Visit, Path
    <2>3. found \in File /\ NoFile \in File
      <3>1. files[p] \in File /\ previous[w][p] \in State BY <2>1, <2>2 DEF TypeOK
      <3>2. found \in File BY <3>1 DEF File, State
      <3> QED BY <3>2, IngestAssumption DEF NoFile, File, Maybe
    <2>4. seen' \in [Scanner -> [Path -> File]]
      <3>1. seen' = seen
              \/ seen' = [seen EXCEPT ![w][p] = IF files[p] = NoFile THEN NoFile ELSE found]
        BY DEF Visit
      <3>2. seen \in [Scanner -> [Path -> File]] BY <2>1 DEF TypeOK
      <3> HIDE DEF p, found
      <3> QED BY <2>2, <2>3, <3>1, <3>2
    <2>5. trouble' \in [Scanner -> SUBSET {"edit", "failure"}]
      <3>1. trouble \in [Scanner -> SUBSET {"edit", "failure"}] BY <2>1 DEF TypeOK
      <3>2. trouble' = trouble \/ trouble' = [trouble EXCEPT ![w] = @ \cup {"failure"}]
        BY DEF Visit
      <3> QED BY <3>1, <3>2
    <2>6. at' \in [Scanner -> 1 .. NumPaths + 1]
      <3>1. at' = [at EXCEPT ![w] = p + 1] BY DEF Visit
      <3> QED BY <2>1, <2>2, <3>1 DEF TypeOK
    <2> QED BY <2>1, <2>4, <2>5, <2>6 DEF Visit, TypeOK, vault, store, bounds
  <1>2. UNCHANGED store /\ todo' = todo BY DEF Visit
  <1> QED BY <1>1, <1>2, StoreUntouched DEF IngestInv

LEMMA WalkedStep ==
  ASSUME IngestInv, NEW w \in Scanner, Walked(w)
  PROVE  IngestInv'
  <1>1. TypeOK'
    <2>1. TypeOK BY DEF IngestInv
    <2>2. /\ pc' \in [Scanner -> {"idle", "walking", "applying", "parsing", "storing",
                                  "failing", "finishing", "conflict"}]
          /\ \A v \in Scanner : pc'[v] \in {"storing", "failing"} => pc[v] = pc'[v]
      BY <2>1 DEF Walked, Goto, TypeOK
    <2> QED BY <2>1, <2>2 DEF Walked, TypeOK, vault, store, bounds
  <1>2. UNCHANGED store /\ todo' = todo BY DEF Walked
  <1> QED BY <1>1, <1>2, StoreUntouched DEF IngestInv

LEMMA ReadStep ==
  ASSUME IngestInv, NEW w \in Scanner, Read(w)
  PROVE  IngestInv'
  <1>1. TypeOK'
    <2>1. TypeOK BY DEF IngestInv
    <2>2. PICK s \in todo[w] :
            /\ source' = [source EXCEPT ![w] = s]
            /\ \/ /\ files[s.path] # NoFile
                  /\ text' = [text EXCEPT ![w] = files[s.path].content]
                  /\ Goto(w, "storing")
                  /\ UNCHANGED <<trouble, failures>>
               \/ /\ IF files[s.path] = NoFile THEN UNCHANGED failures
                     ELSE failures < setting.failures /\ failures' = failures + 1
                  /\ Goto(w, "failing")
                  /\ trouble' = [trouble EXCEPT ![w] = @ \cup {"failure"}]
                  /\ UNCHANGED text
      BY DEF Read
    <2>3. s \in Source BY <2>1 DEF TypeOK
    <2>4. files[s.path].content \in Maybe BY <2>1, <2>3 DEF TypeOK, Source, File
    <2>5. text' \in [Scanner -> Maybe] /\ source' \in [Scanner -> Source \cup {NoSource}]
      BY <2>1, <2>2, <2>3, <2>4 DEF TypeOK
    <2>6. trouble' \in [Scanner -> SUBSET {"edit", "failure"}]
      <3>1. trouble \in [Scanner -> SUBSET {"edit", "failure"}] BY <2>1 DEF TypeOK
      <3>2. trouble' = trouble \/ trouble' = [trouble EXCEPT ![w] = @ \cup {"failure"}]
        BY <2>2
      <3> QED BY <3>1, <3>2
    <2>7. failures' \in 0 .. setting.failures
      <3>1. setting.failures \in Nat BY <2>1, IngestAssumption DEF TypeOK
      <3> QED BY <2>1, <2>2, <3>1 DEF TypeOK
    <2>8. pc' \in [Scanner -> {"idle", "walking", "applying", "parsing", "storing",
                               "failing", "finishing", "conflict"}]
      BY <2>1, <2>2 DEF Goto, TypeOK
    <2>9. \A v \in Scanner : pc'[v] \in {"storing", "failing"} => source'[v] \in todo'[v]
      <3> SUFFICES ASSUME NEW v \in Scanner, pc'[v] \in {"storing", "failing"}
                   PROVE  source'[v] \in todo[v]
        BY DEF Read
      <3>1. CASE v = w BY <2>1, <2>2, <3>1 DEF TypeOK
      <3>2. CASE v # w
        <4>1. pc'[v] = pc[v] /\ source'[v] = source[v] BY <2>1, <2>2, <3>2 DEF Goto, TypeOK
        <4> QED BY <2>1, <4>1 DEF TypeOK
      <3> QED BY <3>1, <3>2
    <2> QED BY <2>1, <2>5, <2>6, <2>7, <2>8, <2>9 DEF Read, TypeOK, vault, store
  <1>2. UNCHANGED store /\ todo' = todo BY DEF Read
  <1> QED BY <1>1, <1>2, StoreUntouched DEF IngestInv

-----------------------------------------------------------------------------
(***************************************************************************)
(* Document after document.                                                *)
(***************************************************************************)

\* A document that is stored or failed stays registered, and where it was.
LEMMA DocumentStep ==
  ASSUME IngestInv, NEW w \in Scanner, NextDocument(w),
         UNCHANGED <<setting, vault, states, trouble, bounds>>,
         source[w] \in todo[w],
         NEW doc \in [life : {"active", "error"}, version : Maybe],
         docs' = [docs EXCEPT ![source[w].doc].version = doc.version,
                              ![source[w].doc].life = doc.life],
         derived' \in [Doc -> [Content -> Maybe]]
  PROVE  TypeOK' /\ RegisteredInOrder' /\ StatesAreClean' /\ StatesOwnDocuments'
  <1> DEFINE d == source[w].doc
  <1>1. TypeOK /\ d \in Registered /\ d \in Doc
    BY DEF IngestInv, TypeOK, StatesAreClean, Source
  <1>2. /\ docs' \in [Doc -> Document]
        /\ docs'[d].life # "none"
        /\ \A e \in Doc : docs'[e].path = docs[e].path
        /\ \A e \in Doc \ {d} : docs'[e] = docs[e]
    <2>1. docs \in [Doc -> Document] /\ docs[d] \in Document BY <1>1 DEF TypeOK
    <2> DEFINE new == [docs[d] EXCEPT !.version = doc.version, !.life = doc.life]
    <2>2. new \in Document /\ new.path = docs[d].path /\ new.life # "none"
      BY <2>1 DEF Document
    <2>3. docs' = [docs EXCEPT ![d] = new]
      BY <1>1, <2>1 DEF Document
    <2> HIDE DEF new, d
    <2> QED BY <1>1, <2>1, <2>2, <2>3
  <1>3. Registered' = Registered
    BY <1>1, <1>2 DEF Registered
  <1>4. RegisteredInOrder'
    BY <1>1, <1>2, <1>3 DEF RegisteredInOrder, IngestInv
  <1>5. todo' \in [Scanner -> SUBSET Source] /\ \A v \in Scanner : todo'[v] \subseteq todo[v]
    <2>1. todo \in [Scanner -> SUBSET Source] BY <1>1 DEF TypeOK
    <2>2. todo' = [todo EXCEPT ![w] = @ \ {source[w]}] BY DEF NextDocument
    <2> QED BY <2>1, <2>2
  <1>6. StatesAreClean'
    BY <1>3, <1>5 DEF StatesAreClean, IngestInv
  <1>7. StatesOwnDocuments'
    <2>1. Present(states)' = Present(states) BY DEF Present
    <2>2. \A p \in Present(states) : states[p].doc \in Doc
      BY DEF IngestInv, StatesOwnDocuments, Registered
    <2> QED BY <1>2, <1>3, <2>1, <2>2 DEF StatesOwnDocuments, IngestInv
  <1>8. /\ pc' \in [Scanner -> {"idle", "walking", "applying", "parsing", "storing",
                                "failing", "finishing", "conflict"}]
        /\ text' \in [Scanner -> Maybe] /\ source' \in [Scanner -> Source \cup {NoSource}]
    <2>1. /\ pc \in [Scanner -> {"idle", "walking", "applying", "parsing", "storing",
                                 "failing", "finishing", "conflict"}]
          /\ text \in [Scanner -> Maybe] /\ source \in [Scanner -> Source \cup {NoSource}]
      BY <1>1 DEF TypeOK
    <2>2. /\ text' = [text EXCEPT ![w] = None] /\ source' = [source EXCEPT ![w] = NoSource]
          /\ pc' = [pc EXCEPT ![w] = "finishing"] \/ pc' = [pc EXCEPT ![w] = "parsing"]
      BY DEF NextDocument, Goto
    <2> QED BY <2>1, <2>2 DEF Maybe
  <1>9. \A v \in Scanner : pc'[v] \in {"storing", "failing"} => source'[v] \in todo'[v]
    <2> SUFFICES ASSUME NEW v \in Scanner, pc'[v] \in {"storing", "failing"}
                 PROVE  source'[v] \in todo'[v]
      OBVIOUS
    <2>1. v # w /\ pc'[v] = pc[v] BY <1>1 DEF NextDocument, Goto, TypeOK
    <2>2. todo'[v] = todo[v] BY <1>1, <2>1 DEF NextDocument, TypeOK
    <2>3. source'[v] = source[v] BY <1>1, <2>1 DEF NextDocument, TypeOK
    <2> QED BY <1>1, <2>1, <2>2, <2>3 DEF TypeOK
  <1>10. TypeOK'
    BY <1>1, <1>2, <1>5, <1>8, <1>9 DEF TypeOK, NextDocument, vault, bounds
  <1> QED BY <1>4, <1>6, <1>7, <1>10

LEMMA StoreStep ==
  ASSUME IngestInv, NEW w \in Scanner, StoreDocument(w)
  PROVE  IngestInv'
  <1> DEFINE d == source[w].doc
             c == source[w].content
  <1>1. TypeOK /\ source[w] \in todo[w] /\ source[w] \in Source
    BY DEF IngestInv, TypeOK, StoreDocument
  <1>2. d \in Doc /\ c \in Content BY <1>1 DEF Source
  <1>3. derived' = [derived EXCEPT ![d] = [v \in Content |->
          IF v = c THEN text[w] ELSE IF v = docs[d].version THEN None ELSE derived[d][v]]]
    BY <1>1, <1>2 DEF StoreDocument, TypeOK
  <1>4. derived' \in [Doc -> [Content -> Maybe]]
    <2>1. /\ derived \in [Doc -> [Content -> Maybe]] /\ text[w] \in Maybe /\ None \in Maybe
      BY <1>1 DEF TypeOK, Maybe
    <2> HIDE DEF d, c
    <2> QED BY <1>2, <1>3, <2>1
  <1>5. docs' = [docs EXCEPT ![d].version = c, ![d].life = "active"]
    BY DEF StoreDocument
  <1>6. TypeOK' /\ RegisteredInOrder' /\ StatesAreClean' /\ StatesOwnDocuments'
    <2> DEFINE doc == [life |-> "active", version |-> c]
    <2>1. doc \in [life : {"active", "error"}, version : Maybe] BY <1>2 DEF Maybe
    <2>2. docs' = [docs EXCEPT ![source[w].doc].version = doc.version,
                               ![source[w].doc].life = doc.life]
      BY <1>5
    <2>3. NextDocument(w) /\ UNCHANGED <<setting, vault, states, trouble, bounds>>
      BY DEF StoreDocument
    <2> HIDE DEF doc
    <2> QED BY <1>1, <1>4, <2>1, <2>2, <2>3, DocumentStep
  <1>7. NoHistoricalText'
    <2> SUFFICES ASSUME NEW e \in Doc, NEW v \in Content, derived'[e][v] # None
                 PROVE  docs'[e].version = v
      BY DEF NoHistoricalText
    <2>1. docs \in [Doc -> Document] /\ derived \in [Doc -> [Content -> Maybe]]
      BY <1>1 DEF TypeOK
    <2>2. NoHistoricalText BY DEF IngestInv
    <2>3. CASE e = d
      <3>1. derived'[d][v] = IF v = c THEN text[w]
                             ELSE IF v = docs[d].version THEN None ELSE derived[d][v]
        <4> HIDE DEF d, c
        <4> QED BY <1>2, <1>3, <2>1
      <3>2. v = c BY <1>2, <2>2, <2>3, <3>1 DEF NoHistoricalText
      <3>3. docs'[d].version = c
        <4> HIDE DEF d, c
        <4> QED BY <1>2, <1>5, <2>1 DEF Document
      <3> QED BY <2>3, <3>2, <3>3
    <2>4. CASE e # d
      <3>1. derived'[e] = derived[e] /\ docs'[e] = docs[e] BY <1>3, <1>5, <2>1, <2>4
      <3> QED BY <2>2, <3>1 DEF NoHistoricalText
    <2> QED BY <2>3, <2>4
  <1> QED BY <1>6, <1>7 DEF IngestInv

LEMMA FailStep ==
  ASSUME IngestInv, NEW w \in Scanner, MarkDocumentFailed(w)
  PROVE  IngestInv'
  <1> DEFINE d == source[w].doc
  <1>1. TypeOK /\ source[w] \in todo[w] /\ source[w] \in Source
    BY DEF IngestInv, TypeOK, MarkDocumentFailed
  <1>2. d \in Doc BY <1>1 DEF Source
  <1>3. docs \in [Doc -> Document] /\ derived \in [Doc -> [Content -> Maybe]]
    BY <1>1 DEF TypeOK
  <1>4. docs' = [docs EXCEPT ![d].life = "error"] /\ derived' = derived
    BY DEF MarkDocumentFailed
  <1>5. \A e \in Doc : docs'[e].version = docs[e].version
    <2> HIDE DEF d
    <2> QED BY <1>2, <1>3, <1>4 DEF Document
  <1>6. TypeOK' /\ RegisteredInOrder' /\ StatesAreClean' /\ StatesOwnDocuments'
    <2> DEFINE doc == [life |-> "error", version |-> docs[d].version]
    <2>1. doc \in [life : {"active", "error"}, version : Maybe]
      BY <1>2, <1>3 DEF Document
    <2>2. docs' = [docs EXCEPT ![source[w].doc].version = doc.version,
                               ![source[w].doc].life = doc.life]
      BY <1>2, <1>3, <1>4 DEF Document
    <2>3. NextDocument(w) /\ UNCHANGED <<setting, vault, states, trouble, bounds>>
      BY DEF MarkDocumentFailed
    <2> HIDE DEF doc
    <2> QED BY <1>1, <1>3, <1>4, <2>1, <2>2, <2>3, DocumentStep
  <1>7. NoHistoricalText'
    BY <1>4, <1>5 DEF IngestInv, NoHistoricalText
  <1> QED BY <1>6, <1>7 DEF IngestInv

-----------------------------------------------------------------------------
(***************************************************************************)
(* The changes of a scan.                                                  *)
(***************************************************************************)

\* Renames are one to one, and what is renamed is neither changed nor gone.
LEMMA RenamesAreOneToOne ==
  ASSUME NEW w \in Scanner
  PROVE  /\ \A r, q \in Renames(w) : r[1] = q[1] <=> r[2] = q[2]
         /\ \A r \in Renames(w) : /\ r[1] \in Deleted(w) /\ r[2] \in Created(w)
                                  /\ r = <<r[1], r[2]>>
         /\ \A p \in Changed(w) : p \in Present(seen[w]) /\ p \notin Deleted(w)
         /\ \A p \in Changed(w), r \in Renames(w) : r[2] # p
         /\ \A p \in Gone(w) : p \in Deleted(w) /\ \A r \in Renames(w) : r[1] # p
         /\ Changed(w) \subseteq Path /\ Gone(w) \subseteq Path /\ Fresh(w) \subseteq Changed(w)
         /\ Deleted(w) \cap Created(w) = {} /\ Created(w) \subseteq Present(seen[w])
         /\ Deleted(w) \subseteq Path /\ Created(w) \subseteq Path
         /\ Moved(w) \subseteq Renames(w)
  <1> USE DEF Deleted, Created
  <1>1. \A r \in Renames(w) : r[1] \in Deleted(w) /\ r[2] \in Created(w) /\ r = <<r[1], r[2]>>
    BY DEF Renames
  <1>2. ASSUME NEW r \in Renames(w), NEW q \in Renames(w)
        PROVE  r[1] = q[1] <=> r[2] = q[2]
    <2>1. /\ {o \in Deleted(w) : previous[w][o].content = seen[w][r[2]].content} = {r[1]}
          /\ {n \in Created(w) : seen[w][n].content = seen[w][r[2]].content} = {r[2]}
          /\ {o \in Deleted(w) : previous[w][o].content = seen[w][q[2]].content} = {q[1]}
          /\ {n \in Created(w) : seen[w][n].content = seen[w][q[2]].content} = {q[2]}
      BY DEF Renames
    <2>2. CASE r[2] = q[2]
      <3>1. {r[1]} = {q[1]} BY <2>1, <2>2
      <3> QED BY <2>2, <3>1
    <2>3. CASE r[1] = q[1]
      <3>1. previous[w][r[1]].content = seen[w][r[2]].content
        BY <2>1
      <3>2. previous[w][q[1]].content = seen[w][q[2]].content
        BY <2>1
      <3>3. seen[w][r[2]].content = seen[w][q[2]].content BY <2>3, <3>1, <3>2
      <3>4. {r[2]} = {q[2]} BY <2>1, <3>3
      <3> QED BY <2>3, <3>4
    <2> QED BY <2>2, <2>3
  <1>3. \A p \in Changed(w) : p \in Present(seen[w]) /\ p \notin Deleted(w) /\ p \in Path
    BY DEF Changed, Modified, Present
  <1>4. \A p \in Changed(w), r \in Renames(w) : r[2] # p
    BY <1>1 DEF Changed, Modified
  <1>5. \A p \in Gone(w) : p \in Deleted(w) /\ p \in Path /\ \A r \in Renames(w) : r[1] # p
    BY DEF Gone, Present
  <1>6. Moved(w) \subseteq Renames(w) /\ Fresh(w) \subseteq Changed(w)
    BY DEF Moved, Fresh
  <1>7. /\ Deleted(w) \cap Created(w) = {} /\ Created(w) \subseteq Present(seen[w])
        /\ Deleted(w) \subseteq Path /\ Created(w) \subseteq Path
    BY DEF Present
  <1> QED BY <1>1, <1>2, <1>3, <1>4, <1>5, <1>6, <1>7

\* The number of documents before, and of new ones.
Known == Cardinality(Registered)
New(w) == Cardinality(Fresh(w))

\* New documents are numbered on from the last one.
LEMMA NewDocuments ==
  ASSUME NEW w \in Scanner, RegisteredInOrder, Known + New(w) <= MaxDocs
  PROVE  /\ Known \in Nat /\ New(w) \in Nat
         /\ \A p \in Fresh(w) : NewDoc(w, p) \in Doc \ Registered
         /\ \A p, q \in Fresh(w) : NewDoc(w, p) = NewDoc(w, q) => p = q
         /\ Registered \cup {NewDoc(w, p) : p \in Fresh(w)} = 1 .. Known + New(w)
  <1> DEFINE F == Fresh(w)
  <1>1. F \in SUBSET Path BY RenamesAreOneToOne
  <1>2. \A p : NewDoc(w, p) = Known + Rank(F, p) BY DEF NewDoc, Known, Rank
  <1>3. Known \in Nat /\ Registered = 1 .. Known
    BY RegisteredCount DEF Known, RegisteredInOrder
  <1>4. New(w) = Cardinality(F) BY DEF New
  <1> HIDE DEF F
  <1>5. /\ Cardinality(F) \in Nat
        /\ \A p \in F : Rank(F, p) \in 1 .. Cardinality(F)
        /\ \A p, q \in F : Rank(F, p) = Rank(F, q) => p = q
        /\ \A i \in 1 .. Cardinality(F) : \E p \in F : Rank(F, p) = i
    BY <1>1, Ranks
  <1>6. \A p \in F : NewDoc(w, p) \in Doc \ Registered
    BY <1>2, <1>3, <1>4, <1>5, IngestAssumption DEF Doc
  <1>7. \A p, q \in F : NewDoc(w, p) = NewDoc(w, q) => p = q
    BY <1>2, <1>3, <1>5
  <1>8. Registered \cup {NewDoc(w, p) : p \in F} = 1 .. Known + New(w)
    <2>1. \A i \in 1 .. Known + New(w) : i \in Registered \/ \E p \in F : NewDoc(w, p) = i
      <3> SUFFICES ASSUME NEW i \in 1 .. Known + New(w), i \notin 1 .. Known
                   PROVE  \E p \in F : NewDoc(w, p) = i
        BY <1>3
      <3>1. i - Known \in 1 .. Cardinality(F) BY <1>3, <1>4, <1>5
      <3>2. PICK p \in F : Rank(F, p) = i - Known BY <1>5, <3>1
      <3> QED BY <1>2, <1>3, <3>2
    <2>2. \A i \in Registered : i \in 1 .. Known + New(w) BY <1>3, <1>4, <1>5
    <2>3. \A p \in F : NewDoc(w, p) \in 1 .. Known + New(w) BY <1>2, <1>3, <1>4, <1>5
    <2> QED BY <2>1, <2>2, <2>3
  <1> QED BY <1>3, <1>4, <1>5, <1>6, <1>7, <1>8 DEF F

\* What StatesOwnDocuments and StatesAreClean say of a document and its paths.
LEMMA OwnersOfDocuments ==
  ASSUME IngestInv
  PROVE  /\ \A p \in Path : states[p].doc \in Doc => p \in Present(states)
         /\ \A p \in Present(states) : states[p].doc \in Registered
         /\ \A p, q \in Present(states) : states[p].doc = states[q].doc => p = q
         /\ Registered \subseteq Doc /\ Present(states) \subseteq Path
  <1>1. NoState.doc \notin Doc BY DEF NoState, NoDoc, Doc
  <1> QED BY <1>1 DEF IngestInv, StatesAreClean, StatesOwnDocuments, Present, Registered

\* What becomes of each document, if the changes can be stored.
LEMMA DocumentsAfter ==
  ASSUME IngestInv, NEW w \in Scanner, Known + New(w) <= MaxDocs
  PROVE  /\ \A p \in Fresh(w) : NewDocs(w)[NewDoc(w, p)] =
                                  [path |-> p, life |-> "active", version |-> None]
         /\ \A p \in Changed(w) \ Fresh(w) :
              /\ p \in Present(states)
              /\ NewDocs(w)[states[p].doc] =
                   [docs[states[p].doc] EXCEPT !.life = "active", !.path = p]
         /\ \A r \in Moved(w) :
              /\ r[1] \in Present(states)
              /\ NewDocs(w)[states[r[1]].doc] = [docs[states[r[1]].doc] EXCEPT !.path = r[2]]
         /\ \A p \in Gone(w) :
              /\ p \in Present(states)
              /\ NewDocs(w)[states[p].doc] = Struck(docs[states[p].doc])
         /\ \A d \in Doc :
              (/\ \A p \in Fresh(w) : NewDoc(w, p) # d
               /\ \A p \in Changed(w) \cup Gone(w) : states[p].doc # d
               /\ \A r \in Moved(w) : states[r[1]].doc # d)
                 => NewDocs(w)[d] = docs[d]
  <1> DEFINE F == Fresh(w)
             C == Changed(w)
             G == Gone(w)
             M == Moved(w)
             P == Present(states)
  <1>1. /\ \A p \in F : NewDoc(w, p) \in Doc \ Registered
        /\ \A p, q \in F : NewDoc(w, p) = NewDoc(w, q) => p = q
    BY NewDocuments DEF IngestInv
  <1>2. /\ \A p \in Path : states[p].doc \in Doc => p \in P
        /\ \A p \in P : states[p].doc \in Registered
        /\ \A p, q \in P : states[p].doc = states[q].doc => p = q
        /\ Registered \subseteq Doc /\ P \subseteq Path
    BY OwnersOfDocuments
  <1>3. /\ F \subseteq C /\ C \subseteq Path /\ G \subseteq Path
        /\ \A p \in C \ F : p \in P
        /\ \A p \in G : p \in P /\ p \notin C /\ \A r \in M : r[1] # p
        /\ \A r \in M : r[1] \in P /\ r[1] \notin C
        /\ \A r, q \in M : r[1] = q[1] => r[2] = q[2]
    <2>1. /\ F \subseteq C /\ C \subseteq Path /\ G \subseteq Path /\ M \subseteq Renames(w)
          /\ \A p \in C : p \notin Deleted(w)
          /\ \A p \in G : p \in Deleted(w) /\ \A r \in Renames(w) : r[1] # p
          /\ \A r \in Renames(w) : r[1] \in Deleted(w)
          /\ Deleted(w) \subseteq Path
          /\ \A r, q \in Renames(w) : r[1] = q[1] <=> r[2] = q[2]
      BY RenamesAreOneToOne
    <2>2. \A p \in C \ F : p \in P BY <2>1 DEF Fresh, Present
    <2>3. \A p \in G : p \in P BY <2>1 DEF Gone, Present
    <2>4. \A r \in M : r[1] \in P BY <2>1 DEF Moved, Present
    <2> HIDE DEF F, C, G, M, P
    <2> QED BY <2>1, <2>2, <2>3, <2>4
  <1>4. \A d \in Doc : NewDocs(w)[d] =
          IF \E p \in F : NewDoc(w, p) = d
          THEN [path |-> CHOOSE p \in F : NewDoc(w, p) = d,
                life |-> "active", version |-> None]
          ELSE IF \E p \in C : states[p].doc = d
          THEN [docs[d] EXCEPT !.life = "active", !.path = CHOOSE p \in C : states[p].doc = d]
          ELSE IF \E r \in M : states[r[1]].doc = d
          THEN [docs[d] EXCEPT !.path = (CHOOSE r \in M : states[r[1]].doc = d)[2]]
          ELSE IF \E p \in G : states[p].doc = d
          THEN Struck(docs[d])
          ELSE docs[d]
    BY DEF NewDocs
  <1> HIDE DEF F, C, G, M, P
  <1>5. ASSUME NEW p \in F
        PROVE  NewDocs(w)[NewDoc(w, p)] = [path |-> p, life |-> "active", version |-> None]
    <2> DEFINE d == NewDoc(w, p)
    <2>1. d \in Doc /\ \E q \in F : NewDoc(w, q) = d BY <1>1
    <2>2. p = CHOOSE q \in F : NewDoc(w, q) = d BY <1>1
    <2> HIDE DEF d
    <2> QED BY <1>4, <2>1, <2>2 DEF d
  <1>6. ASSUME NEW p \in C \ F
        PROVE  NewDocs(w)[states[p].doc] =
                 [docs[states[p].doc] EXCEPT !.life = "active", !.path = p]
    <2> DEFINE d == states[p].doc
    <2>1. p \in P /\ d \in Registered /\ d \in Doc BY <1>2, <1>3
    <2>2. ~ \E q \in F : NewDoc(w, q) = d BY <1>1, <2>1
    <2>3. \A q \in C : states[q].doc = d => q = p BY <1>2, <1>3, <2>1
    <2>4. p = CHOOSE q \in C : states[q].doc = d BY <2>3
    <2>5. \E q \in C : states[q].doc = d OBVIOUS
    <2> HIDE DEF d
    <2> QED BY <1>4, <2>1, <2>2, <2>4, <2>5 DEF d
  <1>7. ASSUME NEW r \in M
        PROVE  NewDocs(w)[states[r[1]].doc] = [docs[states[r[1]].doc] EXCEPT !.path = r[2]]
    <2> DEFINE d == states[r[1]].doc
               q == CHOOSE q \in M : states[q[1]].doc = d
    <2>1. r[1] \in P /\ d \in Registered /\ d \in Doc BY <1>2, <1>3
    <2>2. ~ \E n \in F : NewDoc(w, n) = d BY <1>1, <2>1
    <2>3. ~ \E n \in C : states[n].doc = d BY <1>2, <1>3, <2>1
    <2>4. q \in M /\ states[q[1]].doc = d OBVIOUS
    <2>5. q[2] = r[2] BY <1>2, <1>3, <2>1, <2>4
    <2>6. \E n \in M : states[n[1]].doc = d OBVIOUS
    <2>7. NewDocs(w)[d] = [docs[d] EXCEPT !.path = q[2]]
      <3> HIDE DEF d
      <3> QED BY <1>4, <2>1, <2>2, <2>3, <2>6
    <2> HIDE DEF d, q
    <2> QED BY <2>5, <2>7 DEF d
  <1>8. ASSUME NEW p \in G
        PROVE  NewDocs(w)[states[p].doc] = Struck(docs[states[p].doc])
    <2> DEFINE d == states[p].doc
    <2>1. p \in P /\ d \in Registered /\ d \in Doc BY <1>2, <1>3
    <2>2. ~ \E q \in F : NewDoc(w, q) = d BY <1>1, <2>1
    <2>3. ~ \E q \in C : states[q].doc = d BY <1>2, <1>3, <2>1
    <2>4. ~ \E r \in M : states[r[1]].doc = d BY <1>2, <1>3, <2>1
    <2>5. \E q \in G : states[q].doc = d OBVIOUS
    <2> HIDE DEF d
    <2> QED BY <1>4, <2>1, <2>2, <2>3, <2>4, <2>5 DEF d
  <1>9. ASSUME NEW d \in Doc,
               \A p \in F : NewDoc(w, p) # d,
               \A p \in C \cup G : states[p].doc # d,
               \A r \in M : states[r[1]].doc # d
        PROVE  NewDocs(w)[d] = docs[d]
    BY <1>4, <1>9
  <1> QED BY <1>3, <1>5, <1>6, <1>7, <1>8, <1>9 DEF F, C, G, M, P

\* A document is new, changed, moved, gone, or as it was; of those before, only the last
\* version may be lost, and that with its file.
LEMMA EachDocumentAfter ==
  ASSUME IngestInv, NEW w \in Scanner, Known + New(w) <= MaxDocs, NEW d \in Doc
  PROVE  \/ \E p \in Fresh(w) : /\ d = NewDoc(w, p) /\ d \notin Registered
                                /\ NewDocs(w)[d] = [path |-> p, life |-> "active", version |-> None]
         \/ /\ d \in Registered
            /\ \/ \E p \in Path : NewDocs(w)[d] = [docs[d] EXCEPT !.life = "active", !.path = p]
               \/ \E p \in Path : NewDocs(w)[d] = [docs[d] EXCEPT !.path = p]
               \/ /\ \E p \in Gone(w) : states[p].doc = d
                  /\ NewDocs(w)[d] = Struck(docs[d])
         \/ NewDocs(w)[d] = docs[d]
  <1>1. \A p \in Fresh(w) : NewDoc(w, p) \in Doc \ Registered
    BY NewDocuments DEF IngestInv
  <1>2. \A p \in Present(states) : states[p].doc \in Registered
    BY OwnersOfDocuments
  <1>3. /\ \A p \in Changed(w) : p \in Path
        /\ \A r \in Moved(w) : r[2] \in Path
    BY RenamesAreOneToOne
  <1>4. CASE \E p \in Fresh(w) : d = NewDoc(w, p)
    <2>1. PICK p \in Fresh(w) : d = NewDoc(w, p) BY <1>4
    <2>2. NewDocs(w)[d] = [path |-> p, life |-> "active", version |-> None]
      BY <2>1, DocumentsAfter
    <2> QED BY <1>1, <2>1, <2>2
  <1>5. CASE \E p \in Changed(w) \ Fresh(w) : states[p].doc = d
    <2>1. PICK p \in Changed(w) \ Fresh(w) : states[p].doc = d BY <1>5
    <2>2. /\ p \in Present(states)
          /\ NewDocs(w)[d] = [docs[d] EXCEPT !.life = "active", !.path = p]
      BY <2>1, DocumentsAfter
    <2> QED BY <1>2, <1>3, <2>1, <2>2
  <1>6. CASE \E r \in Moved(w) : states[r[1]].doc = d
    <2>1. PICK r \in Moved(w) : states[r[1]].doc = d BY <1>6
    <2>2. r[1] \in Present(states) /\ NewDocs(w)[d] = [docs[d] EXCEPT !.path = r[2]]
      BY <2>1, DocumentsAfter
    <2> QED BY <1>2, <1>3, <2>1, <2>2
  <1>7. CASE \E p \in Gone(w) : states[p].doc = d
    <2>1. PICK p \in Gone(w) : states[p].doc = d BY <1>7
    <2>2. p \in Present(states) /\ NewDocs(w)[d] = Struck(docs[d])
      BY <2>1, DocumentsAfter
    <2> QED BY <1>2, <2>1, <2>2
  <1>8. CASE /\ \A p \in Fresh(w) : NewDoc(w, p) # d
             /\ \A p \in Changed(w) \cup Gone(w) : states[p].doc # d
             /\ \A r \in Moved(w) : states[r[1]].doc # d
    BY <1>8, DocumentsAfter
  <1>9. \A p \in Fresh(w) : states[p].doc # d
    <2>1. \A p \in Path : states[p].doc \in Doc => p \in Present(states)
      BY OwnersOfDocuments
    <2>2. \A p \in Fresh(w) : p \notin Present(states) /\ p \in Path
      BY RenamesAreOneToOne DEF Fresh, Present
    <2> QED BY <2>1, <2>2
  <1> QED BY <1>4, <1>5, <1>6, <1>7, <1>8, <1>9

\* The new states, path by path.
LEMMA StatesAfter ==
  ASSUME IngestInv, NEW w \in Scanner, Known + New(w) <= MaxDocs
  PROVE  \A p \in Path :
           \/ /\ p \in Changed(w)
              /\ NewStates(w)[p] = [content |-> seen[w][p].content, mtime |-> seen[w][p].mtime,
                                    doc |-> DocOf(w, p)]
           \/ \E r \in Moved(w) :
                /\ r[2] = p /\ p \notin Changed(w)
                /\ NewStates(w)[p] = [content |-> seen[w][p].content, mtime |-> seen[w][p].mtime,
                                      doc |-> states[r[1]].doc]
           \/ /\ p \notin Changed(w) /\ \A r \in Moved(w) : r[2] # p
              /\ p \in Gone(w) \/ \E r \in Moved(w) : r[1] = p
              /\ NewStates(w)[p] = NoState
           \/ /\ p \notin Changed(w) \cup Gone(w) /\ \A r \in Moved(w) : r[1] # p /\ r[2] # p
              /\ NewStates(w)[p] = states[p]
  <1> SUFFICES ASSUME NEW p \in Path
               PROVE
           \/ /\ p \in Changed(w)
              /\ NewStates(w)[p] = [content |-> seen[w][p].content, mtime |-> seen[w][p].mtime,
                                    doc |-> DocOf(w, p)]
           \/ \E r \in Moved(w) :
                /\ r[2] = p /\ p \notin Changed(w)
                /\ NewStates(w)[p] = [content |-> seen[w][p].content, mtime |-> seen[w][p].mtime,
                                      doc |-> states[r[1]].doc]
           \/ /\ p \notin Changed(w) /\ \A r \in Moved(w) : r[2] # p
              /\ p \in Gone(w) \/ \E r \in Moved(w) : r[1] = p
              /\ NewStates(w)[p] = NoState
           \/ /\ p \notin Changed(w) \cup Gone(w) /\ \A r \in Moved(w) : r[1] # p /\ r[2] # p
              /\ NewStates(w)[p] = states[p]
    OBVIOUS
  <1> DEFINE r == CHOOSE r \in Moved(w) : r[2] = p
             C == Changed(w)
             M == Moved(w)
  <1>1. NewStates(w)[p] =
          IF p \in C
          THEN [content |-> seen[w][p].content, mtime |-> seen[w][p].mtime, doc |-> DocOf(w, p)]
          ELSE IF \E q \in M : q[2] = p
          THEN [content |-> seen[w][p].content, mtime |-> seen[w][p].mtime,
                doc |-> states[r[1]].doc]
          ELSE IF p \in Gone(w) \cup {q[1] : q \in M} THEN NoState
          ELSE states[p]
    BY DEF NewStates
  <1>2. (\E q \in M : q[2] = p) => r \in M /\ r[2] = p
    OBVIOUS
  <1> HIDE DEF r, C, M
  <1> QED BY <1>1, <1>2 DEF C, M

\* The changes of a scan, when they are stored.
LEMMA ChangesStep ==
  ASSUME IngestInv, NEW w \in Scanner, Known + New(w) <= MaxDocs,
         states' = NewStates(w), docs' = NewDocs(w)
  PROVE  /\ docs' \in [Doc -> Document] /\ states' \in [Path -> State]
         /\ RegisteredInOrder' /\ Registered \subseteq Registered'
         /\ \A p \in Path : states'[p].content = None => states'[p] = NoState
         /\ StatesOwnDocuments'
         /\ ToParse(w) \subseteq Source /\ \A s \in ToParse(w) : s.doc \in Registered'
  <1>1. /\ docs \in [Doc -> Document] /\ states \in [Path -> State]
        /\ seen[w] \in [Path -> File] /\ RegisteredInOrder
        /\ None \in Maybe /\ None \notin Content
    BY IngestAssumption DEF IngestInv, TypeOK, Maybe
  <1>2. /\ \A p \in Path : states[p].doc \in Doc => p \in Present(states)
        /\ \A p \in Present(states) : states[p].doc \in Registered
        /\ \A p, q \in Present(states) : states[p].doc = states[q].doc => p = q
        /\ Registered \subseteq Doc /\ Present(states) \subseteq Path
    BY OwnersOfDocuments
  <1>3. /\ Known \in Nat /\ New(w) \in Nat
        /\ \A p \in Fresh(w) : NewDoc(w, p) \in Doc \ Registered
        /\ Registered \cup {NewDoc(w, p) : p \in Fresh(w)} = 1 .. Known + New(w)
    BY <1>1, NewDocuments
  <1>4. ASSUME NEW d \in Doc
        PROVE  /\ docs'[d] \in Document
               /\ docs'[d].life # "none" <=> d \in Registered \/ \E p \in Fresh(w) : d = NewDoc(w, p)
               /\ docs'[d].life = "none" => docs'[d] = NoDocument
    <2>1. docs[d] \in Document /\ (d \notin Registered => docs[d] = NoDocument)
      BY <1>1 DEF RegisteredInOrder
    <2>2. d \in Registered <=> docs[d].life # "none" BY DEF Registered
    <2>3. CASE \E p \in Fresh(w) : /\ d = NewDoc(w, p) /\ d \notin Registered
                 /\ NewDocs(w)[d] = [path |-> p, life |-> "active", version |-> None]
      <3>1. PICK p \in Fresh(w) : /\ d = NewDoc(w, p)
                   /\ NewDocs(w)[d] = [path |-> p, life |-> "active", version |-> None]
        BY <2>3
      <3>2. p \in Path BY RenamesAreOneToOne
      <3>3. docs'[d] \in Document BY <1>1, <3>1, <3>2 DEF Document
      <3>4. docs'[d].life # "none" BY <3>1
      <3>5. \E q \in Fresh(w) : d = NewDoc(w, q) BY <2>3
      <3> QED BY <3>3, <3>4, <3>5
    <2>4. CASE /\ d \in Registered
               /\ \/ \E p \in Path : NewDocs(w)[d] = [docs[d] EXCEPT !.life = "active", !.path = p]
                  \/ \E p \in Path : NewDocs(w)[d] = [docs[d] EXCEPT !.path = p]
                  \/ NewDocs(w)[d] = Struck(docs[d])
      <3>1. docs'[d] \in Document /\ docs'[d].life # "none"
        BY <1>1, <2>1, <2>2, <2>4 DEF Document, Struck
      <3> QED BY <2>4, <3>1
    <2>5. CASE NewDocs(w)[d] = docs[d]
      <3>1. ASSUME NEW p \in Fresh(w), d = NewDoc(w, p) PROVE docs'[d].life # "none"
        <4>1. NewDocs(w)[d] = [path |-> p, life |-> "active", version |-> None]
          BY <3>1, DocumentsAfter
        <4> QED BY <4>1
      <3>2. docs'[d] = docs[d] BY <2>5
      <3>3. (\E p \in Fresh(w) : d = NewDoc(w, p)) => docs'[d].life # "none" BY <3>1
      <3> QED BY <2>1, <2>2, <3>2, <3>3
    <2> QED BY <2>3, <2>4, <2>5, EachDocumentAfter
  <1>5. docs' \in [Doc -> Document] BY <1>4 DEF NewDocs
  <1>6. Registered' = 1 .. Known + New(w) BY <1>2, <1>3, <1>4 DEF Registered
  <1>7. RegisteredInOrder' /\ Registered \subseteq Registered'
    <2>1. Cardinality(1 .. Known + New(w)) = Known + New(w)
      <3>1. 1 \in Int /\ Known + New(w) \in Int /\ Known + New(w) >= 0 BY <1>3
      <3> HIDE DEF Known, New
      <3> QED BY <3>1, FS_Interval
    <2>2. \A d \in Doc \ Registered' : docs'[d] = NoDocument BY <1>4 DEF Registered
    <2> QED BY <1>3, <1>6, <2>1, <2>2 DEF RegisteredInOrder
  <1>8. ASSUME NEW p \in Changed(w)
        PROVE  /\ p \in Path /\ seen[w][p] \in File /\ seen[w][p].content # None
               /\ DocOf(w, p) \in Registered' /\ NewDocs(w)[DocOf(w, p)].path = p
    <2>1. p \in Path /\ p \in Present(seen[w]) BY RenamesAreOneToOne
    <2>2. seen[w][p] \in File /\ seen[w][p].content # None BY <1>1, <2>1 DEF Present
    <2>3. CASE p \in Fresh(w)
      <3>1. DocOf(w, p) = NewDoc(w, p) BY <2>3 DEF DocOf
      <3>2. NewDocs(w)[NewDoc(w, p)] = [path |-> p, life |-> "active", version |-> None]
        BY <2>3, DocumentsAfter
      <3>3. NewDocs(w)[NewDoc(w, p)].path = p BY <3>2
      <3> QED BY <1>3, <1>6, <2>1, <2>2, <2>3, <3>1, <3>3
    <2>4. CASE p \notin Fresh(w)
      <3>1. DocOf(w, p) = states[p].doc BY <2>4 DEF DocOf
      <3>2. /\ p \in Present(states)
            /\ NewDocs(w)[states[p].doc] =
                 [docs[states[p].doc] EXCEPT !.life = "active", !.path = p]
        BY <2>4, DocumentsAfter
      <3>3. docs[states[p].doc] \in Document BY <1>1, <1>2, <3>2
      <3>4. NewDocs(w)[states[p].doc].path = p BY <3>2, <3>3 DEF Document
      <3> QED BY <1>2, <1>7, <2>1, <2>2, <3>1, <3>2, <3>4
    <2> QED BY <2>3, <2>4
  <1>9. ASSUME NEW r \in Moved(w)
        PROVE  /\ r[2] \in Path /\ seen[w][r[2]] \in File /\ seen[w][r[2]].content # None
               /\ states[r[1]].doc \in Registered' /\ NewDocs(w)[states[r[1]].doc].path = r[2]
    <2>1. r[2] \in Path /\ r[2] \in Present(seen[w]) BY RenamesAreOneToOne
    <2>2. seen[w][r[2]] \in File /\ seen[w][r[2]].content # None BY <1>1, <2>1 DEF Present
    <2>3. /\ r[1] \in Present(states)
          /\ NewDocs(w)[states[r[1]].doc] = [docs[states[r[1]].doc] EXCEPT !.path = r[2]]
      BY DocumentsAfter
    <2>4. docs[states[r[1]].doc] \in Document BY <1>1, <1>2, <2>3
    <2>5. NewDocs(w)[states[r[1]].doc].path = r[2] BY <2>3, <2>4 DEF Document
    <2> QED BY <1>2, <1>7, <2>1, <2>2, <2>3, <2>5
  <1>10. ASSUME NEW p \in Path
         PROVE  /\ states'[p] \in State
                /\ states'[p].content = None => states'[p] = NoState
                /\ states'[p].content # None =>
                     states'[p].doc \in Registered' /\ docs'[states'[p].doc].path = p
    <2>1. CASE /\ p \in Changed(w)
               /\ NewStates(w)[p] = [content |-> seen[w][p].content, mtime |-> seen[w][p].mtime,
                                     doc |-> DocOf(w, p)]
      <3>1. DocOf(w, p) \in Doc BY <2>1, <1>8 DEF Registered
      <3>2. states'[p] \in State BY <1>8, <2>1, <3>1 DEF State, File
      <3> QED BY <1>8, <2>1, <3>2
    <2>2. CASE \E r \in Moved(w) :
                 /\ r[2] = p /\ p \notin Changed(w)
                 /\ NewStates(w)[p] = [content |-> seen[w][p].content, mtime |-> seen[w][p].mtime,
                                       doc |-> states[r[1]].doc]
      <3>1. PICK r \in Moved(w) :
                 /\ r[2] = p
                 /\ NewStates(w)[p] = [content |-> seen[w][p].content, mtime |-> seen[w][p].mtime,
                                       doc |-> states[r[1]].doc]
        BY <2>2
      <3>2. /\ seen[w][p] \in File /\ seen[w][p].content # None
            /\ states[r[1]].doc \in Registered' /\ docs'[states[r[1]].doc].path = p
        BY <1>9, <3>1
      <3>3. states[r[1]].doc \in Doc BY <3>2 DEF Registered
      <3>4. states'[p] \in State BY <3>1, <3>2, <3>3 DEF State, File
      <3> QED BY <3>1, <3>2, <3>4
    <2>3. CASE NewStates(w)[p] = NoState
      <3>1. NoState \in State /\ NoState.content = None
        BY <1>1, IngestAssumption DEF NoState, State
      <3> QED BY <2>3, <3>1
    <2>4. CASE /\ p \notin Changed(w) \cup Gone(w) /\ \A r \in Moved(w) : r[1] # p /\ r[2] # p
               /\ NewStates(w)[p] = states[p]
      <3>1. states'[p] = states[p] /\ states[p] \in State BY <1>1, <2>4
      <3>2. states[p].content = None => states[p] = NoState
        BY DEF IngestInv, StatesAreClean
      <3>3. ASSUME states[p].content # None
            PROVE  states[p].doc \in Registered' /\ docs'[states[p].doc].path = p
        <4> DEFINE d == states[p].doc
        <4>1. p \in Present(states) /\ d \in Registered /\ d \in Doc
          BY <1>2, <3>3 DEF Present
        <4>2. docs[d].path = p BY <4>1 DEF IngestInv, StatesOwnDocuments
        <4>3. \A q \in Fresh(w) : NewDoc(w, q) # d BY <1>3, <4>1
        <4>4. \A q \in Changed(w) \cup Gone(w) : states[q].doc # d
          <5>1. Changed(w) \subseteq Path /\ Gone(w) \subseteq Path BY RenamesAreOneToOne
          <5> QED BY <1>2, <2>4, <4>1, <5>1
        <4>5. \A r \in Moved(w) : states[r[1]].doc # d
          <5>1. \A r \in Moved(w) : r[1] \in Present(states) BY DocumentsAfter
          <5> QED BY <1>2, <2>4, <4>1, <5>1
        <4>6. NewDocs(w)[d] = docs[d]
          <5> HIDE DEF d
          <5> QED BY <4>1, <4>3, <4>4, <4>5, DocumentsAfter
        <4> QED BY <1>7, <4>1, <4>2, <4>6
      <3> QED BY <3>1, <3>2, <3>3
    <2> QED BY <2>1, <2>2, <2>3, <2>4, StatesAfter
  <1>11. states' \in [Path -> State] BY <1>10 DEF NewStates
  <1>12. StatesOwnDocuments' BY <1>10 DEF StatesOwnDocuments, Present
  <1>13. ASSUME NEW s \in ToParse(w)
         PROVE  s \in Source /\ s.doc \in Registered'
    <2>1. CASE \E p \in Changed(w) :
                 s = [doc |-> DocOf(w, p), path |-> p, content |-> seen[w][p].content]
      <3>1. PICK p \in Changed(w) :
                 s = [doc |-> DocOf(w, p), path |-> p, content |-> seen[w][p].content]
        BY <2>1
      <3>2. /\ p \in Path /\ seen[w][p].content \in Content
            /\ DocOf(w, p) \in Registered' /\ DocOf(w, p) \in Doc
        BY <1>8 DEF File, Maybe, Registered
      <3> QED BY <3>1, <3>2 DEF Source
    <2>2. CASE \E p \in Present(states) :
                 s = [doc |-> states[p].doc, path |-> p, content |-> states[p].content]
      <3>1. PICK p \in Present(states) :
                 s = [doc |-> states[p].doc, path |-> p, content |-> states[p].content]
        BY <2>2
      <3>2. p \in Path /\ states[p].doc \in Registered /\ states[p].doc \in Doc BY <1>2
      <3>3. states[p].content \in Content BY <1>1, <3>2 DEF Present, State, Maybe
      <3> QED BY <1>7, <3>1, <3>2, <3>3 DEF Source
    <2> QED BY <2>1, <2>2 DEF ToParse
  <1> QED BY <1>5, <1>7, <1>10, <1>11, <1>12, <1>13

\* Derived rows go with the version they are of.
LEMMA TextsAfter ==
  ASSUME IngestInv, NEW w \in Scanner, Known + New(w) <= MaxDocs,
         docs' = NewDocs(w),
         derived' = [d \in Doc |->
           IF \E p \in Gone(w) : states[p].doc = d
           THEN [c \in Content |-> IF c = docs[d].version THEN None ELSE derived[d][c]]
           ELSE derived[d]]
  PROVE  NoHistoricalText' /\ derived' \in [Doc -> [Content -> Maybe]]
  <1>1. /\ docs \in [Doc -> Document] /\ derived \in [Doc -> [Content -> Maybe]]
        /\ None \in Maybe /\ None \notin Content
        /\ NoHistoricalText /\ RegisteredInOrder
    BY IngestAssumption DEF IngestInv, TypeOK, Maybe
  <1>2. derived' \in [Doc -> [Content -> Maybe]] BY <1>1
  <1>3. ASSUME NEW d \in Doc, NEW c \in Content, derived'[d][c] # None
        PROVE  docs'[d].version = c
    <2>1. derived[d][c] # None /\ ~ \E p \in Gone(w) : states[p].doc = d
      <3>1. CASE \E p \in Gone(w) : states[p].doc = d
        <4>1. c # docs[d].version /\ derived[d][c] # None BY <1>1, <1>3, <3>1
        <4> QED BY <1>1, <4>1 DEF NoHistoricalText
      <3>2. CASE ~ \E p \in Gone(w) : states[p].doc = d BY <1>1, <1>3, <3>2
      <3> QED BY <3>1, <3>2
    <2>2. docs[d].version = c BY <1>1, <2>1 DEF NoHistoricalText
    <2>3. d \in Registered BY <1>1, <2>2 DEF RegisteredInOrder, NoDocument
    <2>4. docs[d] \in Document BY <1>1
    <2>5. NewDocs(w)[d].version = docs[d].version
      <3>1. \/ \E p \in Path : NewDocs(w)[d] = [docs[d] EXCEPT !.life = "active", !.path = p]
            \/ \E p \in Path : NewDocs(w)[d] = [docs[d] EXCEPT !.path = p]
            \/ NewDocs(w)[d] = docs[d]
        BY <2>1, <2>3, EachDocumentAfter
      <3> QED BY <2>4, <3>1 DEF Document
    <2> QED BY <2>2, <2>5
  <1> QED BY <1>2, <1>3 DEF NoHistoricalText

LEMMA ApplyStep ==
  ASSUME IngestInv, NEW w \in Scanner, Apply(w)
  PROVE  IngestInv'
  <1>1. TypeOK BY DEF IngestInv
  <1>2. /\ pc \in [Scanner -> {"idle", "walking", "applying", "parsing", "storing",
                               "failing", "finishing", "conflict"}]
        /\ todo \in [Scanner -> SUBSET Source]
    BY <1>1 DEF TypeOK
  <1>3. ASSUME NEW label \in {"parsing", "finishing", "conflict"}, Goto(w, label)
        PROVE  /\ pc' \in [Scanner -> {"idle", "walking", "applying", "parsing", "storing",
                                       "failing", "finishing", "conflict"}]
               /\ \A v \in Scanner : pc'[v] \in {"storing", "failing"} => v # w /\ pc[v] = pc'[v]
    BY <1>2, <1>3 DEF Goto
  <1>4. CASE /\ UNCHANGED <<store, todo>>
             /\ \E label \in {"finishing", "conflict"} : Goto(w, label)
    <2>1. TypeOK'
      <3>1. PICK label \in {"finishing", "conflict"} : Goto(w, label) BY <1>4
      <3>2. /\ pc' \in [Scanner -> {"idle", "walking", "applying", "parsing", "storing",
                                    "failing", "finishing", "conflict"}]
            /\ \A v \in Scanner : pc'[v] \in {"storing", "failing"} => pc[v] = pc'[v]
        BY <1>3, <3>1
      <3> QED BY <1>1, <1>4, <3>2 DEF Apply, TypeOK, vault, store, bounds
    <2> QED BY <1>4, <2>1, StoreUntouched DEF IngestInv
  <1>5. CASE /\ Known + New(w) <= MaxDocs
             /\ states' = NewStates(w) /\ docs' = NewDocs(w)
             /\ derived' = [d \in Doc |->
                  IF \E p \in Gone(w) : states[p].doc = d
                  THEN [c \in Content |->
                          IF c = docs[d].version THEN None ELSE derived[d][c]]
                  ELSE derived[d]]
             /\ todo' = [todo EXCEPT ![w] = ToParse(w)]
             /\ \E label \in {"parsing", "finishing"} : Goto(w, label)
    <2>1. /\ docs' \in [Doc -> Document] /\ states' \in [Path -> State]
          /\ RegisteredInOrder' /\ Registered \subseteq Registered'
          /\ \A p \in Path : states'[p].content = None => states'[p] = NoState
          /\ StatesOwnDocuments'
          /\ ToParse(w) \subseteq Source /\ \A s \in ToParse(w) : s.doc \in Registered'
      BY <1>5, ChangesStep
    <2>2. NoHistoricalText' /\ derived' \in [Doc -> [Content -> Maybe]]
      BY <1>5, TextsAfter
    <2>3. todo' \in [Scanner -> SUBSET Source] BY <1>2, <1>5, <2>1
    <2>4. StatesAreClean'
      <3>1. ASSUME NEW v \in Scanner, NEW s \in todo'[v] PROVE s.doc \in Registered'
        <4>1. CASE v = w BY <1>2, <1>5, <2>1, <3>1, <4>1
        <4>2. CASE v # w
          <5>1. s \in todo[v] BY <1>2, <1>5, <3>1, <4>2
          <5>2. s.doc \in Registered BY <5>1 DEF IngestInv, StatesAreClean
          <5> QED BY <2>1, <5>2
        <4> QED BY <4>1, <4>2
      <3> QED BY <2>1, <3>1 DEF StatesAreClean
    <2>5. TypeOK'
      <3>1. PICK label \in {"parsing", "finishing"} : Goto(w, label) BY <1>5
      <3>2. /\ pc' \in [Scanner -> {"idle", "walking", "applying", "parsing", "storing",
                                    "failing", "finishing", "conflict"}]
            /\ \A v \in Scanner : pc'[v] \in {"storing", "failing"} => v # w /\ pc[v] = pc'[v]
        BY <1>3, <3>1
      <3>3. \A v \in Scanner : pc'[v] \in {"storing", "failing"} => source'[v] \in todo'[v]
        <4> SUFFICES ASSUME NEW v \in Scanner, pc'[v] \in {"storing", "failing"}
                     PROVE  source[v] \in todo'[v]
          BY DEF Apply
        <4>1. v # w /\ pc[v] \in {"storing", "failing"} BY <3>2
        <4>2. todo'[v] = todo[v] BY <1>2, <1>5, <4>1
        <4> QED BY <1>1, <4>1, <4>2 DEF TypeOK
      <3> QED BY <1>1, <2>1, <2>2, <2>3, <3>2, <3>3 DEF Apply, TypeOK, vault, bounds
    <2> QED BY <2>1, <2>2, <2>4, <2>5 DEF IngestInv
  <1> QED BY <1>4, <1>5 DEF Apply, Known, New

LEMMA IngestStep == IngestInv /\ [Next]_vars => IngestInv'
  <1> SUFFICES ASSUME IngestInv, [Next]_vars PROVE IngestInv' OBVIOUS
  <1>1. CASE Edit BY <1>1, EditStep
  <1>2. ASSUME NEW w \in Scanner, ScanStep(w) PROVE IngestInv'
    <2>1. CASE Begin(w) BY <2>1, BeginStep
    <2>2. CASE Visit(w) BY <2>2, VisitStep
    <2>3. CASE Walked(w) BY <2>3, WalkedStep
    <2>4. CASE ScanFails(w) \/ Conflict(w) \/ Finish(w)
      <3>1. /\ End(w) /\ UNCHANGED <<setting, vault, store, scans, edits, failures>>
            /\ crashes' = crashes
        BY <2>4 DEF ScanFails, Conflict, Finish, bounds
      <3>2. crashes' \in 0 .. setting.crashes BY <3>1 DEF IngestInv, TypeOK
      <3> QED BY <3>1, <3>2, EndStep
    <2>5. CASE Crash(w)
      <3>1. End(w) /\ UNCHANGED <<setting, vault, store, scans, edits, failures>>
        BY <2>5 DEF Crash
      <3>2. crashes' \in 0 .. setting.crashes
        <4>1. setting.crashes \in Nat BY IngestAssumption DEF IngestInv, TypeOK
        <4>2. crashes \in 0 .. setting.crashes BY DEF IngestInv, TypeOK
        <4> QED BY <2>5, <4>1, <4>2 DEF Crash
      <3> QED BY <3>1, <3>2, EndStep
    <2>6. CASE Apply(w) BY <2>6, ApplyStep
    <2>7. CASE Read(w) BY <2>7, ReadStep
    <2>8. CASE StoreDocument(w) BY <2>8, StoreStep
    <2>9. CASE MarkDocumentFailed(w) BY <2>9, FailStep
    <2> QED BY <1>2, <2>1, <2>2, <2>3, <2>4, <2>5, <2>6, <2>7, <2>8, <2>9 DEF ScanStep
  <1>3. CASE UNCHANGED vars
    <2>1. TypeOK'
      BY <1>3 DEF IngestInv, TypeOK, vars, vault, store, memory, bounds
    <2> QED BY <1>3, <2>1, StoreUntouched DEF IngestInv, vars, memory
  <1> QED BY <1>1, <1>2, <1>3 DEF Next

-----------------------------------------------------------------------------
(***************************************************************************)
(* One scan at a time.                                                     *)
(***************************************************************************)

\* While scans follow each other, a scan's file states are those of the store until it
\* stores its changes, and it has something to parse only after that.
ScansAlone ==
  /\ \A v, w \in Scanner : pc[v] # "idle" /\ pc[w] # "idle" => v = w
  /\ \A w \in Scanner : pc[w] = "idle" => at[w] = 1
  /\ \A w \in Scanner : pc[w] \in {"walking", "applying"} => previous[w] = states
  /\ \A w \in Scanner : pc[w] \notin {"parsing", "storing", "failing"} => todo[w] = {}

LEMMA SettingStays == [Next]_vars => setting' = setting
  BY DEF Next, Edit, ScanStep, Begin, Visit, Walked, ScanFails, Apply, Conflict, Read,
     StoreDocument, MarkDocumentFailed, Finish, Crash, vars

\* The steps of a scan leave the memory of every other scanner alone.
LEMMA OthersStay ==
  ASSUME IngestInv, NEW w \in Scanner, ScanStep(w), NEW v \in Scanner, v # w
  PROVE  /\ pc'[v] = pc[v] /\ kind'[v] = kind[v] /\ previous'[v] = previous[v]
         /\ seen'[v] = seen[v] /\ at'[v] = at[v] /\ todo'[v] = todo[v]
         /\ text'[v] = text[v] /\ source'[v] = source[v] /\ trouble'[v] = trouble[v]
  <1>1. TypeOK BY DEF IngestInv
  <1>2. CASE End(w) BY <1>1, <1>2 DEF End, Goto, TypeOK
  <1>3. CASE ScanFails(w) \/ Conflict(w) \/ Finish(w) \/ Crash(w)
    BY <1>2, <1>3 DEF ScanFails, Conflict, Finish, Crash
  <1>4. CASE Begin(w) BY <1>1, <1>4 DEF Begin, Goto, TypeOK
  <1>5. CASE Visit(w) BY <1>1, <1>5 DEF Visit, TypeOK
  <1>6. CASE Walked(w) BY <1>1, <1>6 DEF Walked, Goto, TypeOK
  <1>7. CASE Apply(w) BY <1>1, <1>7 DEF Apply, Goto, TypeOK
  <1>8. CASE Read(w) BY <1>1, <1>8 DEF Read, Goto, TypeOK
  <1>9. CASE StoreDocument(w) \/ MarkDocumentFailed(w)
    BY <1>1, <1>9 DEF StoreDocument, MarkDocumentFailed, NextDocument, Goto, TypeOK
  <1> QED BY <1>3, <1>4, <1>5, <1>6, <1>7, <1>8, <1>9 DEF ScanStep

\* No other scan runs when one begins.
LEMMA BeginsAlone ==
  ASSUME IngestInv, OneAtATime, ScansAlone, NEW w \in Scanner, Begin(w)
  PROVE  \A v \in Scanner : pc[v] = "idle"
  <1> DEFINE B == {v \in Scanner : pc[v] # "idle"}
  <1>1. Cardinality(B) < 1 BY DEF Begin, OneAtATime
  <1>2. ASSUME NEW u \in B PROVE FALSE
    <2>1. B = {u} BY <1>2 DEF ScansAlone
    <2>2. Cardinality({u}) = 1 BY FS_Singleton
    <2> HIDE DEF B
    <2> QED BY <1>1, <2>1, <2>2
  <1> QED BY <1>2

\* What a scanner has in memory after it ends.
LEMMA Ended ==
  ASSUME IngestInv, NEW w \in Scanner, End(w)
  PROVE  /\ pc'[w] = "idle" /\ at'[w] = 1 /\ todo'[w] = {}
         /\ previous'[w] = [p \in Path |-> NoState] /\ seen'[w] = [p \in Path |-> NoFile]
  BY DEF End, Goto, IngestInv, TypeOK

\* While one scans, the other scanners are idle.
LEMMA OthersIdle ==
  ASSUME IngestInv, OneAtATime, ScansAlone, NEW w \in Scanner, ScanStep(w)
  PROVE  \A v \in Scanner \ {w} : /\ pc[v] = "idle" /\ pc'[v] = "idle"
                                 /\ at'[v] = 1 /\ todo'[v] = {}
  <1> SUFFICES ASSUME NEW v \in Scanner, v # w
               PROVE  /\ pc[v] = "idle" /\ pc'[v] = "idle"
                      /\ at'[v] = 1 /\ todo'[v] = {}
    OBVIOUS
  <1>1. pc[v] = "idle"
    <2>1. CASE Begin(w) BY <2>1, BeginsAlone
    <2>2. CASE pc[w] # "idle" BY <2>2 DEF ScansAlone
    <2> QED BY <2>1, <2>2 DEF ScanStep, Visit, Walked, ScanFails, Apply, Conflict,
              Read, StoreDocument, MarkDocumentFailed, Finish, Crash
  <1> QED BY <1>1, OthersStay DEF ScansAlone

LEMMA AloneStep ==
  ASSUME IngestInv, OneAtATime, ScansAlone, [Next]_vars
  PROVE  ScansAlone'
  <1>1. CASE Edit \/ UNCHANGED vars
    BY <1>1 DEF Edit, vars, memory, store, ScansAlone
  <1>2. ASSUME NEW w \in Scanner, ScanStep(w) PROVE ScansAlone'
    <2>0. \A v \in Scanner \ {w} : /\ pc[v] = "idle" /\ pc'[v] = "idle"
                                   /\ at'[v] = 1 /\ todo'[v] = {}
      BY <1>2, OthersIdle
    <2>g. ASSUME pc'[w] = "idle" => at'[w] = 1,
                 pc'[w] \in {"walking", "applying"} => previous'[w] = states',
                 pc'[w] \notin {"parsing", "storing", "failing"} => todo'[w] = {}
          PROVE  ScansAlone'
      BY <2>0, <2>g DEF ScansAlone
    <2>t. TypeOK BY DEF IngestInv
    <2>1. CASE Begin(w)
      BY <2>1, <2>t, <2>g DEF Begin, Goto, store, ScansAlone, TypeOK
    <2>2. CASE Visit(w)
      <3>1. UNCHANGED <<pc, previous, states, todo>> /\ pc[w] = "walking"
        BY <2>2 DEF Visit, store
      <3> QED BY <2>g, <3>1 DEF ScansAlone
    <2>3. CASE Walked(w)
      <3>1. UNCHANGED <<previous, states, todo>> /\ pc[w] = "walking" /\ pc'[w] = "applying"
        BY <2>3, <2>t DEF Walked, store, Goto, TypeOK
      <3> QED BY <2>g, <3>1 DEF ScansAlone
    <2>4. CASE End(w) BY <2>4, <2>g, Ended
    <2>5. CASE Apply(w)
      <3>1. /\ pc[w] = "applying"
            /\ \/ pc'[w] \in {"finishing", "conflict"} /\ todo' = todo
               \/ pc'[w] = "finishing" /\ todo'[w] = {}
               \/ pc'[w] = "parsing"
        BY <2>5, <2>t DEF Apply, Goto, TypeOK
      <3> QED BY <2>g, <3>1 DEF ScansAlone
    <2>6. CASE Read(w)
      <3>1. pc'[w] \in {"storing", "failing"} BY <2>6, <2>t DEF Read, Goto, TypeOK
      <3> QED BY <2>g, <3>1
    <2>7. CASE NextDocument(w)
      <3>1. \/ pc'[w] = "parsing"
            \/ pc'[w] = "finishing" /\ todo'[w] = {}
        BY <2>7, <2>t DEF NextDocument, Goto, TypeOK
      <3> QED BY <2>g, <3>1
    <2> QED BY <1>2, <2>1, <2>2, <2>3, <2>4, <2>5, <2>6, <2>7 DEF ScanStep, ScanFails, Conflict,
              Finish, Crash, StoreDocument, MarkDocumentFailed
  <1> QED BY <1>1, <1>2 DEF Next

LEMMA AloneInit == Init => ScansAlone
  BY DEF Init, ScansAlone

\* The changes of a scan are those to the states it has loaded: its states are of what
\* it has found.
LEMMA StatesAreFound ==
  ASSUME IngestInv, NEW w \in Scanner, previous[w] = states, Known + New(w) <= MaxDocs
  PROVE  /\ Moved(w) = Renames(w)
         /\ \A r \in Renames(w) : /\ states[r[1]].content = seen[w][r[2]].content
                                  /\ states[r[1]].content # None /\ states[r[2]].content = None
         /\ \A p \in Path : NewStates(w)[p].content = seen[w][p].content
  <1>1. \A r \in Renames(w) : /\ r[1] \in Deleted(w) /\ r[2] \in Created(w)
                              /\ states[r[1]].content = seen[w][r[2]].content
    <2> SUFFICES ASSUME NEW r \in Renames(w)
                 PROVE  /\ r[1] \in Deleted(w) /\ r[2] \in Created(w)
                        /\ states[r[1]].content = seen[w][r[2]].content
      OBVIOUS
    <2>1. r[1] \in Deleted(w) /\ r[2] \in Created(w) BY RenamesAreOneToOne
    <2>2. {o \in Deleted(w) : previous[w][o].content = seen[w][r[2]].content} = {r[1]}
      BY DEF Renames
    <2> QED BY <2>1, <2>2
  <1>2. \A r \in Renames(w) : states[r[1]].content # None /\ states[r[2]].content = None
    BY <1>1 DEF Deleted, Created, Present
  <1>3. Moved(w) = Renames(w) BY <1>2 DEF Moved
  <1>4. ASSUME NEW p \in Path PROVE NewStates(w)[p].content = seen[w][p].content
    <2>1. CASE p \in Changed(w) BY <2>1 DEF NewStates
    <2>2. CASE \E r \in Moved(w) :
                 /\ r[2] = p /\ p \notin Changed(w)
                 /\ NewStates(w)[p] = [content |-> seen[w][p].content, mtime |-> seen[w][p].mtime,
                                       doc |-> states[r[1]].doc]
      BY <2>2
    <2>3. CASE /\ p \notin Changed(w) /\ \A r \in Moved(w) : r[2] # p
               /\ p \in Gone(w) \/ \E r \in Moved(w) : r[1] = p
               /\ NewStates(w)[p] = NoState
      <3>1. p \in Deleted(w) BY <1>1, <1>3, <2>3, RenamesAreOneToOne
      <3>2. p \notin Present(seen[w]) BY <3>1 DEF Deleted
      <3> QED BY <2>3, <3>2 DEF NoState, Present
    <2>4. CASE /\ p \notin Changed(w) \cup Gone(w) /\ \A r \in Moved(w) : r[1] # p /\ r[2] # p
               /\ NewStates(w)[p] = states[p]
      <3>1. CASE p \in Present(seen[w])
        <4>1. p \notin Created(w) BY <1>3, <2>4 DEF Changed
        <4>2. p \in Present(states) BY <3>1, <4>1 DEF Created
        <4>3. p \notin Modified(w) BY <2>4 DEF Changed
        <4> QED BY <2>4, <3>1, <4>2, <4>3 DEF Modified
      <3>2. CASE p \notin Present(seen[w])
        <4>1. p \in Present(states) => p \in Deleted(w) BY <3>2 DEF Deleted
        <4>2. p \in Deleted(w) /\ p \in Present(states) => p \in Gone(w)
          BY <1>3, <2>4 DEF Gone, Present
        <4>3. states[p].content = None BY <2>4, <4>1, <4>2 DEF Present
        <4> QED BY <2>4, <3>2, <4>3 DEF Present
      <3> QED BY <3>1, <3>2
    <2> QED BY <2>1, <2>2, <2>3, <2>4, StatesAfter
  <1> QED BY <1>1, <1>2, <1>3, <1>4

\* A path with a state after the changes has been changed, has got a file that moved, or
\* is as it was, and so has its document.
LEMMA OwnersAfter ==
  ASSUME IngestInv, NEW w \in Scanner, previous[w] = states, Known + New(w) <= MaxDocs,
         NEW p \in Path, NewStates(w)[p].content # None
  PROVE  \/ p \in Changed(w) /\ NewStates(w)[p].doc = DocOf(w, p)
         \/ \E r \in Moved(w) :
              /\ r[2] = p /\ r[1] \in Present(states)
              /\ NewStates(w)[p].doc = states[r[1]].doc
              /\ NewStates(w)[p].content = states[r[1]].content
              /\ NewStates(w)[p].mtime = seen[w][p].mtime
              /\ NewDocs(w)[states[r[1]].doc] = [docs[states[r[1]].doc] EXCEPT !.path = p]
              /\ \A q \in Gone(w) : states[q].doc # states[r[1]].doc
         \/ /\ p \in Present(states) /\ NewStates(w)[p] = states[p]
            /\ NewDocs(w)[states[p].doc] = docs[states[p].doc]
            /\ \A q \in Changed(w) : DocOf(w, q) # states[p].doc
            /\ \A q \in Gone(w) : states[q].doc # states[p].doc
  <1>0. /\ \A q \in Path : states[q].doc \in Doc => q \in Present(states)
        /\ \A q \in Present(states) : states[q].doc \in Registered
        /\ \A q, u \in Present(states) : states[q].doc = states[u].doc => q = u
        /\ Registered \subseteq Doc /\ Present(states) \subseteq Path
    BY OwnersOfDocuments
  <1>g. /\ \A q \in Gone(w) : q \in Present(states)
        /\ Gone(w) \subseteq Path /\ Changed(w) \subseteq Path
        /\ \A q \in Changed(w) \ Fresh(w) : q \in Present(states)
        /\ \A q \in Fresh(w) : NewDoc(w, q) \in Doc \ Registered
    BY DocumentsAfter, RenamesAreOneToOne, NewDocuments DEF IngestInv
  <1>1. CASE p \in Changed(w)
    BY <1>1 DEF NewStates
  <1>2. CASE \E r \in Moved(w) :
                /\ r[2] = p /\ p \notin Changed(w)
                /\ NewStates(w)[p] = [content |-> seen[w][p].content, mtime |-> seen[w][p].mtime,
                                      doc |-> states[r[1]].doc]
    <2>1. PICK r \in Moved(w) :
                /\ r[2] = p
                /\ NewStates(w)[p] = [content |-> seen[w][p].content, mtime |-> seen[w][p].mtime,
                                      doc |-> states[r[1]].doc]
      BY <1>2
    <2>2. /\ NewStates(w)[p].content = seen[w][p].content
          /\ NewStates(w)[p].mtime = seen[w][p].mtime /\ NewStates(w)[p].doc = states[r[1]].doc
      BY <2>1
    <2>3. /\ r[1] \in Present(states)
          /\ NewDocs(w)[states[r[1]].doc] = [docs[states[r[1]].doc] EXCEPT !.path = p]
      BY <2>1, DocumentsAfter
    <2>4. states[r[1]].content = seen[w][p].content BY <2>1, StatesAreFound DEF Moved
    <2>5. \A q \in Gone(w) : q # r[1] BY RenamesAreOneToOne DEF Moved
    <2>6. \A q \in Gone(w) : states[q].doc # states[r[1]].doc BY <1>0, <1>g, <2>3, <2>5
    <2> QED BY <2>1, <2>2, <2>3, <2>4, <2>6
  <1>3. CASE /\ p \notin Changed(w) \cup Gone(w) /\ \A r \in Moved(w) : r[1] # p /\ r[2] # p
             /\ NewStates(w)[p] = states[p]
    <2> DEFINE d == states[p].doc
    <2>1. p \in Present(states) BY <1>3 DEF Present
    <2>2. d \in Registered /\ d \in Doc BY <1>0, <2>1
    <2>3. \A q \in Fresh(w) : NewDoc(w, q) # d BY <1>g, <2>2
    <2>4. \A q \in Changed(w) \cup Gone(w) : states[q].doc # d
      BY <1>0, <1>3, <1>g, <2>1, <2>2
    <2>5. \A r \in Moved(w) : states[r[1]].doc # d
      <3>1. \A r \in Moved(w) : r[1] \in Present(states) BY DocumentsAfter
      <3> QED BY <1>0, <1>3, <2>1, <3>1
    <2>6. \A q \in Changed(w) : DocOf(w, q) # d
      <3> HIDE DEF d
      <3> QED BY <2>3, <2>4 DEF DocOf
    <2>7. NewDocs(w)[d] = docs[d]
      <3> HIDE DEF d
      <3> QED BY <2>2, <2>3, <2>4, <2>5, DocumentsAfter
    <2> QED BY <1>3, <2>1, <2>4, <2>6, <2>7
  <1>4. CASE NewStates(w)[p] = NoState
    BY <1>4 DEF NoState
  <1> QED BY <1>1, <1>2, <1>3, <1>4, StatesAfter

\* A set of paths with at most one member has one.
LEMMA OnlyOne ==
  ASSUME NEW S \in SUBSET Path, NEW x \in S, ~ (Cardinality(S) > 1)
  PROVE  S = {x}
  <1>1. IsFiniteSet(S) /\ Cardinality(S) \in Nat
    <2>1. 1 \in Int /\ NumPaths \in Int BY IngestAssumption
    <2>2. IsFiniteSet(Path) BY <2>1, FS_Interval DEF Path
    <2> QED BY <2>2, FS_Subset, FS_CardinalityType
  <1>2. IsFiniteSet(S \ {x}) /\ Cardinality(S \ {x}) = Cardinality(S) - 1
    BY <1>1, FS_RemoveElement
  <1>3. Cardinality(S \ {x}) \in Nat BY <1>2, FS_CardinalityType
  <1>4. Cardinality(S \ {x}) = 0 BY <1>1, <1>2, <1>3
  <1>5. S \ {x} = {} BY <1>2, <1>4, FS_EmptySet
  <1> QED BY <1>5

\* Documents are deleted and registered by the storing of changes only.
LEMMA DeletedByApply ==
  ASSUME IngestInv, Next, NEW d \in Doc, docs[d].life # "deleted", docs'[d].life = "deleted"
  PROVE  \E w \in Scanner : /\ Apply(w) /\ Known + New(w) <= MaxDocs
                            /\ states' = NewStates(w) /\ docs' = NewDocs(w) /\ pc[w] = "applying"
  <1>1. docs' # docs OBVIOUS
  <1>2. PICK w \in Scanner : ScanStep(w)
    BY <1>1 DEF Next, Edit, store
  <1>t. docs \in [Doc -> Document] BY DEF IngestInv, TypeOK
  <1>3. ASSUME StoreDocument(w) PROVE FALSE
    <2>1. docs' = [docs EXCEPT ![source[w].doc].version = source[w].content,
                               ![source[w].doc].life = "active"]
      BY <1>3 DEF StoreDocument
    <2> QED BY <1>t, <2>1 DEF Document
  <1>4. ASSUME MarkDocumentFailed(w) PROVE FALSE
    <2>1. docs' = [docs EXCEPT ![source[w].doc].life = "error"]
      BY <1>4 DEF MarkDocumentFailed
    <2> QED BY <1>t, <2>1 DEF Document
  <1>5. Apply(w)
    BY <1>1, <1>2, <1>3, <1>4 DEF ScanStep, Begin, Visit, Walked, ScanFails, Conflict, Read,
       Finish, Crash, store
  <1> QED BY <1>1, <1>5 DEF Apply, Known, New, store

\* A document is deleted and another registered by one Apply: if their contents were alike
\* and alone, it would have renamed.
LEMMA MoveStep ==
  ASSUME IngestInv, OneAtATime => ScansAlone, [Next]_vars
  PROVE  [KeepsDocumentOfMove]_vars
  <1> SUFFICES ASSUME OneAtATime, Next, NEW d \in Doc, NEW e \in Doc,
                      docs[d].life # "deleted", docs'[d].life = "deleted",
                      docs[e].life = "none", docs'[e].life = "active"
               PROVE
      LET p == docs[d].path
          c == states[p].content
          left == {q \in Present(states) : states[q].content = c /\ states'[q].content = None}
          came == {q \in Path : states'[q].content = c /\ states[q].content = None}
      IN states'[docs'[e].path].content = c => Cardinality(left) > 1 \/ Cardinality(came) > 1
    BY DEF KeepsDocumentOfMove
  <1> DEFINE c == states[docs[d].path].content
             left == {q \in Present(states) : states[q].content = c /\ states'[q].content = None}
             came == {q \in Path : states'[q].content = c /\ states[q].content = None}
  <1> SUFFICES ASSUME states'[docs'[e].path].content = c,
                      ~ (Cardinality(left) > 1), ~ (Cardinality(came) > 1)
               PROVE  FALSE
    OBVIOUS
  <1>1. PICK w \in Scanner : /\ Apply(w) /\ Known + New(w) <= MaxDocs
                             /\ states' = NewStates(w) /\ docs' = NewDocs(w) /\ pc[w] = "applying"
    BY DeletedByApply
  <1>2. previous[w] = states BY <1>1 DEF ScansAlone
  <1>t. docs \in [Doc -> Document] BY DEF IngestInv, TypeOK
  <1>3. PICK p \in Gone(w) : states[p].doc = d
    <2>1. docs[d] \in Document BY <1>t
    <2>2. ASSUME NEW p \in Path
          PROVE  /\ NewDocs(w)[d] # [docs[d] EXCEPT !.life = "active", !.path = p]
                 /\ NewDocs(w)[d] # [docs[d] EXCEPT !.path = p]
      BY <1>1, <2>1 DEF Document
    <2>3. /\ NewDocs(w)[d] # docs[d]
          /\ \A p : NewDocs(w)[d] # [path |-> p, life |-> "active", version |-> None]
      BY <1>1
    <2>4. \/ \E p \in Fresh(w) : NewDocs(w)[d] = [path |-> p, life |-> "active", version |-> None]
          \/ \E p \in Path : NewDocs(w)[d] = [docs[d] EXCEPT !.life = "active", !.path = p]
          \/ \E p \in Path : NewDocs(w)[d] = [docs[d] EXCEPT !.path = p]
          \/ \E p \in Gone(w) : states[p].doc = d
          \/ NewDocs(w)[d] = docs[d]
      BY <1>1, EachDocumentAfter
    <2> QED BY <2>2, <2>3, <2>4
  <1>4. PICK q \in Fresh(w) : docs'[e].path = q
    <2>1. docs[e] \in Document /\ e \notin Registered BY <1>t DEF Registered
    <2>2. PICK q \in Fresh(w) : NewDocs(w)[e] = [path |-> q, life |-> "active", version |-> None]
      BY <1>1, <2>1, EachDocumentAfter
    <2> QED BY <1>1, <2>2
  <1>5. /\ p \in Present(states) /\ p \in Deleted(w) /\ p \in Path
        /\ \A r \in Renames(w) : r[1] # p
    BY <1>1, RenamesAreOneToOne, DocumentsAfter, <1>3
  <1>6. docs[d].path = p BY <1>3, <1>5 DEF IngestInv, StatesOwnDocuments
  <1>7. /\ q \in Path /\ states[q].content = None /\ q \in Present(seen[w])
        /\ q \in Created(w)
    BY <1>2, RenamesAreOneToOne DEF Fresh, Created, Present
  <1>8. \A u \in Path : states'[u].content = seen[w][u].content
    BY <1>1, <1>2, StatesAreFound
  <1>9. seen[w][q].content = c BY <1>4, <1>7, <1>8
  <1>10. \A o \in Deleted(w) : states[o].content = c => o \in left
    BY <1>2, <1>8 DEF Deleted, Present
  <1>11. \A n \in Created(w) : seen[w][n].content = c => n \in came
    BY <1>2, <1>8 DEF Created, Present
  <1>12. left = {p}
    <2>1. p \in left /\ left \in SUBSET Path BY <1>5, <1>6, <1>10 DEF Present
    <2> HIDE DEF left
    <2> QED BY <2>1, OnlyOne
  <1>13. came = {q}
    <2>1. q \in came /\ came \in SUBSET Path BY <1>7, <1>9, <1>11
    <2> HIDE DEF came
    <2> QED BY <2>1, OnlyOne
  <1>14. /\ {o \in Deleted(w) : previous[w][o].content = c} = {p}
         /\ {n \in Created(w) : seen[w][n].content = c} = {q}
    <2>1. states[p].content = c BY <1>6
    <2> HIDE DEF left, came, c
    <2> QED BY <1>2, <1>5, <1>7, <1>9, <1>10, <1>11, <1>12, <1>13, <2>1
  <1>15. <<p, q>> \in Renames(w)
    BY <1>5, <1>7, <1>9, <1>14 DEF Renames
  <1> QED BY <1>5, <1>15

-----------------------------------------------------------------------------
(***************************************************************************)
(* ... of files that can be hashed, on paths that are not used again.      *)
(***************************************************************************)

FilesInOrder ==
  \A p \in Path : /\ files[p].content = None => files[p] = NoFile
                  /\ files[p].content # None => past[p] # {}
                  /\ files[p].mtime <= edits

\* What is known of the file at p is from before, and an edit since shows in its mtime,
\* unless it is a silent one.
Tells(p, row) ==
  /\ row.mtime <= edits
  /\ row.content # None => past[p] # {}
  /\ row.content # None /\ files[p].content # None /\ p \notin silent
     /\ row.mtime = files[p].mtime => row.content = files[p].content

RowsTell ==
  \A p \in Path : /\ Tells(p, states[p])
                  /\ \A w \in Scanner : Tells(p, seen[w][p]) /\ Tells(p, previous[w][p])

\* A path that had a file and has none will have none.
GoneForGood(p) == files[p].content = None /\ past[p] # {}

MissingIsGone ==
  \A w \in Scanner :
    /\ pc[w] \in {"walking", "applying"} =>
         \A p \in Path : p < at[w] /\ seen[w][p].content = None /\ previous[w][p].content # None
                           => files[p].content = None
    /\ pc[w] = "applying" => at[w] > NumPaths

HasState(s) == states[s.path].doc = s.doc /\ states[s.path].content = s.content

\* What is parsed has a state, or no file any more.
SourcesLive ==
  \A w \in Scanner :
    /\ \A s \in todo[w] : HasState(s) \/ GoneForGood(s.path)
    /\ pc[w] = "storing" => HasState(source[w]) /\ text[w] # None
    /\ pc[w] = "failing" => trouble[w] # {}

ActiveOwned ==
  \A d \in Doc : docs[d].life = "active" => \E p \in Present(states) : states[p].doc = d

SteadyInv == FilesInOrder /\ RowsTell /\ MissingIsGone /\ SourcesLive /\ ActiveOwned

\* At first each indexed path has its state, and no scan runs.
LEMMA SteadyInit == IngestInv /\ Init => SteadyInv
  <1> SUFFICES ASSUME IngestInv, Init PROVE SteadyInv OBVIOUS
  <1>1. FilesInOrder BY DEF Init, FilesInOrder, NoFile
  <1>2. RowsTell
    <2> SUFFICES ASSUME NEW p \in Path
                 PROVE  /\ Tells(p, states[p])
                        /\ \A w \in Scanner : Tells(p, seen[w][p]) /\ Tells(p, previous[w][p])
      BY DEF RowsTell
    <2>1. Tells(p, NoState) /\ Tells(p, NoFile) BY DEF Tells, NoState, NoFile, Init
    <2>2. PICK indexed \in {{}, Present(files)} :
            states = [q \in Path |->
              IF q \in indexed
              THEN [content |-> files[q].content, mtime |-> 0, doc |-> FirstDoc(q)]
              ELSE NoState]
      BY DEF Init
    <2>3. CASE p \in indexed
      <3>1. states[p].content = files[p].content /\ states[p].mtime = 0
        BY <2>2, <2>3
      <3> QED BY <1>1, <2>1, <3>1 DEF Tells, Init, FilesInOrder
    <2>4. CASE p \notin indexed
      <3>1. states[p] = NoState BY <2>2, <2>4
      <3> QED BY <2>1, <3>1 DEF Init
    <2> QED BY <2>3, <2>4
  <1>3. MissingIsGone /\ SourcesLive BY DEF Init, MissingIsGone, SourcesLive
  <1>4. ActiveOwned
    <2> SUFFICES ASSUME NEW d \in Doc, docs[d].life = "active"
                 PROVE  \E p \in Present(states) : states[p].doc = d
      BY DEF ActiveOwned
    <2>1. PICK indexed \in {{}, Present(files)} :
            /\ states = [q \in Path |->
                 IF q \in indexed
                 THEN [content |-> files[q].content, mtime |-> 0, doc |-> FirstDoc(q)]
                 ELSE NoState]
            /\ docs = [e \in Doc |->
                 IF \E p \in indexed : FirstDoc(p) = e
                 THEN LET p == CHOOSE q \in indexed : FirstDoc(q) = e IN
                      [path |-> p, life |-> "active", version |-> files[p].content]
                 ELSE NoDocument]
      BY DEF Init
    <2>2. PICK p \in indexed : FirstDoc(p) = d BY <2>1 DEF NoDocument
    <2>3. p \in Path /\ files[p].content # None BY <2>2 DEF Present
    <2>4. states[p].content = files[p].content /\ states[p].doc = d BY <2>1, <2>2, <2>3
    <2> QED BY <2>3, <2>4 DEF Present
  <1> QED BY <1>1, <1>2, <1>3, <1>4 DEF SteadyInv

\* What an edit does to a path.
LEMMA EditOf ==
  ASSUME IngestInv, FilesInOrder, Steady, Edit
  PROVE  /\ edits \in Nat /\ edits' = edits + 1 /\ silent \subseteq silent'
         /\ \A p \in Path :
              /\ past[p] \subseteq past'[p]
              /\ \/ files'[p] = files[p]
                 \/ files'[p] = NoFile
                 \/ /\ ~ GoneForGood(p) /\ files'[p].content # None /\ past'[p] # {}
                    /\ files'[p].mtime <= edits + 1
                    /\ files'[p].mtime = edits + 1 \/ p \in silent' \/ past[p] = {}
  <1>1. /\ files \in [Path -> File] /\ past \in [Path -> SUBSET Content] /\ silent \subseteq Path
        /\ edits \in Nat
    BY DEF IngestInv, TypeOK
  <1>2. edits' = edits + 1 BY DEF Edit
  <1>3. None \notin Content BY IngestAssumption
  <1>4. PICK p \in Path : Write(p) \/ Remove(p) \/ \E q \in Path \ {p} : Move(p, q)
    BY DEF Edit
  <1>5. \A q \in Path : \A c : MayHold(q, c) => ~ GoneForGood(q)
    BY DEF MayHold, GoneForGood, Steady
  <1>6. CASE Write(p)
    <2>1. PICK c \in Content, mtime \in {edits + 1, files[p].mtime} :
            /\ MayHold(p, c)
            /\ files' = [files EXCEPT ![p] = [content |-> c, mtime |-> mtime]]
            /\ silent' = IF mtime = edits + 1 THEN silent ELSE silent \cup {p}
            /\ past' = [past EXCEPT ![p] = @ \cup {c}]
      BY <1>6 DEF Write
    <2>2. \A q \in Path \ {p} : files'[q] = files[q] /\ past'[q] = past[q] BY <1>1, <2>1
    <2>3. /\ files'[p].content = c /\ files'[p].mtime = mtime /\ past'[p] = past[p] \cup {c}
          /\ mtime = edits + 1 \/ p \in silent'
      BY <1>1, <2>1
    <2>4. mtime <= edits + 1 BY <1>1 DEF FilesInOrder, File
    <2>5. silent \subseteq silent' BY <2>1
    <2> QED BY <1>1, <1>2, <1>3, <1>5, <2>1, <2>2, <2>3, <2>4, <2>5
  <1>7. CASE Remove(p)
    BY <1>1, <1>2, <1>7 DEF Remove
  <1>8. ASSUME NEW q \in Path \ {p}, Move(p, q)
        PROVE  /\ silent \subseteq silent'
               /\ \A u \in Path :
                    /\ past[u] \subseteq past'[u]
                    /\ \/ files'[u] = files[u]
                       \/ files'[u] = NoFile
                       \/ /\ ~ GoneForGood(u) /\ files'[u].content # None /\ past'[u] # {}
                          /\ files'[u].mtime <= edits + 1
                          /\ files'[u].mtime = edits + 1 \/ u \in silent' \/ past[u] = {}
    <2>1. /\ files' = [files EXCEPT ![p] = NoFile, ![q] = files[p]]
          /\ past' = [past EXCEPT ![q] = @ \cup {files[p].content}]
          /\ silent \subseteq silent' /\ files[p].content # None
          /\ files[q].content = None /\ ~ GoneForGood(q)
      BY <1>5, <1>8 DEF Move
    <2>2. /\ files'[p] = NoFile /\ files'[q] = files[p]
          /\ \A u \in Path \ {p, q} : files'[u] = files[u]
      BY <1>1, <2>1
    <2>3. /\ past'[q] = past[q] \cup {files[p].content}
          /\ \A u \in Path \ {q} : past'[u] = past[u]
      BY <1>1, <2>1
    <2>4. past[q] = {} BY <2>1 DEF GoneForGood
    <2>5. files'[q].mtime <= edits + 1 BY <1>1, <2>2 DEF FilesInOrder, File
    <2> QED BY <2>1, <2>2, <2>3, <2>4, <2>5
  <1> QED BY <1>1, <1>2, <1>4, <1>6, <1>7, <1>8

\* Rows tell as much after an edit.
LEMMA EditTells ==
  ASSUME IngestInv, FilesInOrder, Steady, Edit
  PROVE  /\ FilesInOrder'
         /\ \A p \in Path : GoneForGood(p) => GoneForGood(p)'
         /\ \A p \in Path : \A row :
              row.mtime \in Nat /\ Tells(p, row) =>
                /\ row.mtime <= edits'
                /\ row.content # None => past'[p] # {}
                /\ row.content # None /\ files'[p].content # None /\ p \notin silent'
                   /\ row.mtime = files'[p].mtime => row.content = files'[p].content
  <1>1. /\ edits \in Nat /\ edits' = edits + 1 /\ silent \subseteq silent'
        /\ \A p \in Path :
             /\ past[p] \subseteq past'[p]
             /\ \/ files'[p] = files[p]
                \/ files'[p] = NoFile
                \/ /\ ~ GoneForGood(p) /\ files'[p].content # None /\ past'[p] # {}
                   /\ files'[p].mtime <= edits + 1
                   /\ files'[p].mtime = edits + 1 \/ p \in silent' \/ past[p] = {}
    BY EditOf
  <1>t. \A p \in Path : files[p].mtime \in Nat BY DEF IngestInv, TypeOK, File
  <1>n. NoFile.content = None /\ NoFile.mtime = 0 BY DEF NoFile
  <1>2. FilesInOrder'
    <2> SUFFICES ASSUME NEW p \in Path
                 PROVE  /\ files'[p].content = None => files'[p] = NoFile
                        /\ files'[p].content # None => past'[p] # {}
                        /\ files'[p].mtime <= edits'
      BY DEF FilesInOrder
    <2> QED BY <1>1, <1>t, <1>n DEF FilesInOrder
  <1>3. ASSUME NEW p \in Path, GoneForGood(p) PROVE GoneForGood(p)'
    BY <1>1, <1>3, <1>n DEF GoneForGood
  <1>4. ASSUME NEW p \in Path, NEW row, row.mtime \in Nat, Tells(p, row)
        PROVE  /\ row.mtime <= edits'
               /\ row.content # None => past'[p] # {}
               /\ row.content # None /\ files'[p].content # None /\ p \notin silent'
                  /\ row.mtime = files'[p].mtime => row.content = files'[p].content
    <2>1. row.mtime <= edits /\ (row.content # None => past[p] # {}) BY <1>4 DEF Tells
    <2>2. row.content # None /\ files[p].content # None /\ p \notin silent
             /\ row.mtime = files[p].mtime => row.content = files[p].content
      BY <1>4 DEF Tells
    <2>3. row.mtime <= edits' /\ (row.content # None => past'[p] # {}) BY <1>1, <1>4, <2>1
    <2>4. row.content # None /\ files'[p].content # None /\ p \notin silent'
             /\ row.mtime = files'[p].mtime => row.content = files'[p].content
      BY <1>1, <1>4, <1>n, <2>1, <2>2
    <2> QED BY <2>3, <2>4
  <1> QED BY <1>2, <1>3, <1>4

\* What the steps of a scan do to rows, when they do not store changes.
LEMMA RowsStay ==
  ASSUME IngestInv, FilesInOrder, RowsTell, UNCHANGED <<vault, edits, states>>,
         \A w \in Scanner, p \in Path :
           /\ seen'[w][p] = seen[w][p] \/ seen'[w][p] = NoFile
           /\ previous'[w][p] \in {previous[w][p], states[p], NoState}
  PROVE  FilesInOrder' /\ RowsTell'
  <1> USE DEF vault
  <1>1. FilesInOrder' BY DEF FilesInOrder
  <1>2. ASSUME NEW p \in Path
        PROVE  /\ Tells(p, states[p])'
               /\ \A w \in Scanner : Tells(p, seen[w][p])' /\ Tells(p, previous[w][p])'
    <2>1. \A row : Tells(p, row) => /\ row.mtime <= edits'
                                    /\ row.content # None => past'[p] # {}
                                    /\ row.content # None /\ files'[p].content # None
                                       /\ p \notin silent' /\ row.mtime = files'[p].mtime
                                         => row.content = files'[p].content
      BY DEF Tells
    <2>2. Tells(p, NoState) /\ Tells(p, NoFile)
      <3>1. 0 <= edits BY DEF IngestInv, TypeOK
      <3> QED BY <3>1 DEF Tells, NoState, NoFile
    <2> QED BY <2>1, <2>2 DEF RowsTell, Tells
  <1> QED BY <1>1, <1>2 DEF RowsTell

\* An edit shows in mtime or is silent, leaves the store alone, and brings no file back.
LEMMA SteadyEdit ==
  ASSUME IngestInv, Steady, SteadyInv, Edit
  PROVE  SteadyInv'
  <1> USE DEF SteadyInv
  <1>s. UNCHANGED <<store, memory>> BY DEF Edit
  <1>t. TypeOK BY DEF IngestInv
  <1>1. FilesInOrder' BY EditTells
  <1>2. RowsTell'
    <2>1. \A p \in Path : /\ states[p].mtime \in Nat
                          /\ \A w \in Scanner : seen[w][p].mtime \in Nat /\ previous[w][p].mtime \in Nat
      BY <1>t DEF TypeOK, State, File
    <2> SUFFICES ASSUME NEW p \in Path
                 PROVE  /\ Tells(p, states[p])'
                        /\ \A w \in Scanner : Tells(p, seen[w][p])' /\ Tells(p, previous[w][p])'
      BY DEF RowsTell
    <2>2. \A row : row.mtime \in Nat /\ Tells(p, row) =>
                     /\ row.mtime <= edits'
                     /\ row.content # None => past'[p] # {}
                     /\ row.content # None /\ files'[p].content # None /\ p \notin silent'
                        /\ row.mtime = files'[p].mtime => row.content = files'[p].content
      BY EditTells
    <2>3. Tells(p, states[p])' BY <1>s, <2>1, <2>2 DEF Tells, store, RowsTell
    <2>4. ASSUME NEW w \in Scanner PROVE Tells(p, seen[w][p])' /\ Tells(p, previous[w][p])'
      BY <1>s, <2>1, <2>2 DEF Tells, memory, RowsTell
    <2> QED BY <2>3, <2>4
  <1>g. \A p \in Path : GoneForGood(p) => GoneForGood(p)' BY EditTells
  <1>3. MissingIsGone'
    <2>1. ASSUME NEW w \in Scanner, pc[w] \in {"walking", "applying"}, NEW p \in Path,
                 p < at[w], seen[w][p].content = None, previous[w][p].content # None
          PROVE  files'[p].content = None
      <3>1. files[p].content = None BY <2>1 DEF MissingIsGone
      <3>2. past[p] # {} BY <2>1 DEF RowsTell, Tells
      <3> QED BY <1>g, <3>1, <3>2 DEF GoneForGood
    <2> QED BY <1>s, <2>1 DEF MissingIsGone, memory
  <1>4. SourcesLive'
    <2>1. ASSUME NEW w \in Scanner, NEW s \in todo[w] PROVE HasState(s)' \/ GoneForGood(s.path)'
      <3>1. s.path \in Path BY <1>t DEF TypeOK, Source
      <3>2. HasState(s) \/ GoneForGood(s.path) BY DEF SourcesLive
      <3>3. HasState(s) => HasState(s)' BY <1>s DEF HasState, store
      <3> QED BY <1>g, <3>1, <3>2, <3>3
    <2>2. ASSUME NEW w \in Scanner, pc[w] = "failing" PROVE trouble'[w] # {}
      <3>1. trouble'[w] = trouble[w] \cup {"edit"} BY <2>2 DEF Edit
      <3> QED BY <3>1
    <2>3. ASSUME NEW w \in Scanner, pc[w] = "storing" PROVE HasState(source[w])' /\ text'[w] # None
      BY <1>s, <2>3 DEF SourcesLive, HasState, store, memory
    <2> QED BY <1>s, <2>1, <2>2, <2>3 DEF SourcesLive, memory
  <1>5. ActiveOwned' BY <1>s DEF ActiveOwned, Present, store
  <1> QED BY <1>1, <1>2, <1>3, <1>4, <1>5

\* What a visit finds tells of the file, hashed or not, and only a missing file is not found.
LEMMA SteadyVisit ==
  ASSUME IngestInv, Steady, SteadyInv, NEW w \in Scanner, Visit(w)
  PROVE  FilesInOrder' /\ RowsTell' /\ MissingIsGone'
  <1> USE DEF SteadyInv
  <1> DEFINE p == at[w]
             found == [files[p] EXCEPT
                         !.content = IF ShouldHash(w, p) THEN @ ELSE previous[w][p].content]
             row == IF files[p] = NoFile THEN NoFile ELSE found
  <1>t. TypeOK BY DEF IngestInv
  <1>1. /\ pc[w] = "walking" /\ p \in Path
        /\ seen' = [seen EXCEPT ![w][p] = row]
        /\ at' = [at EXCEPT ![w] = p + 1]
        /\ UNCHANGED <<vault, store, pc, previous, edits>>
    BY <1>t DEF Visit, bounds, Steady, TypeOK, Path
  <1>2. files[p] \in File BY <1>t, <1>1 DEF TypeOK
  <1>3. /\ row.content = None <=> files[p].content = None
        /\ Tells(p, row)
    <2>1. CASE files[p] = NoFile
      <3>1. row = NoFile BY <2>1
      <3>2. 0 <= edits BY <1>t DEF TypeOK
      <3> HIDE DEF row
      <3> QED BY <2>1, <3>1, <3>2 DEF NoFile, Tells
    <2>2. CASE files[p] # NoFile
      <3>1. files[p].content # None /\ past[p] # {} /\ files[p].mtime <= edits
        BY <1>1, <2>2 DEF FilesInOrder
      <3>2. row = found BY <2>2
      <3>3. /\ row.mtime = files[p].mtime
            /\ row.content = IF ShouldHash(w, p) THEN files[p].content ELSE previous[w][p].content
        <4> HIDE DEF row, p
        <4> QED BY <1>2, <3>2 DEF File
      <3>4. ~ ShouldHash(w, p) => /\ previous[w][p].content # None
                                  /\ previous[w][p].mtime = files[p].mtime
        BY DEF ShouldHash
      <3>5. Tells(p, previous[w][p]) BY <1>1 DEF RowsTell
      <3> HIDE DEF row, p
      <3> QED BY <3>1, <3>3, <3>4, <3>5 DEF Tells
    <2> QED BY <2>1, <2>2
  <1> HIDE DEF row
  <1>4. /\ seen'[w][p] = row
        /\ \A v \in Scanner, q \in Path : v # w \/ q # p => seen'[v][q] = seen[v][q]
    BY <1>t, <1>1 DEF TypeOK
  <1> HIDE DEF p
  <1>5. FilesInOrder' BY <1>1 DEF FilesInOrder, vault
  <1>6. RowsTell'
    <2>1. \A q \in Path : \A r : Tells(q, r) =>
                     /\ r.mtime <= edits'
                     /\ r.content # None => past'[q] # {}
                     /\ r.content # None /\ files'[q].content # None /\ q \notin silent'
                        /\ r.mtime = files'[q].mtime => r.content = files'[q].content
      BY <1>1 DEF Tells, vault
    <2>2. ASSUME NEW q \in Path PROVE Tells(q, states[q])'
      BY <1>1, <2>1 DEF Tells, RowsTell, store
    <2>3. ASSUME NEW q \in Path, NEW v \in Scanner PROVE Tells(q, previous[v][q])'
      BY <1>1, <2>1 DEF Tells, RowsTell
    <2>4. ASSUME NEW q \in Path, NEW v \in Scanner PROVE Tells(q, seen[v][q])'
      <3>1. Tells(q, seen'[v][q])
        BY <1>3, <1>4 DEF RowsTell
      <3> QED BY <2>1, <3>1 DEF Tells
    <2> QED BY <2>2, <2>3, <2>4 DEF RowsTell
  <1>7. MissingIsGone'
    <2>1. ASSUME NEW v \in Scanner, pc[v] \in {"walking", "applying"}, NEW q \in Path,
                 q < at'[v], seen'[v][q].content = None, previous[v][q].content # None
          PROVE  files[q].content = None
      <3>1. CASE v = w /\ q = p BY <1>3, <1>4, <2>1, <3>1
      <3>2. CASE ~ (v = w /\ q = p)
        <4>1. seen[v][q].content = None BY <1>4, <2>1, <3>2
        <4>2. q < at[v]
          <5>1. CASE v # w BY <1>1, <1>t, <2>1, <5>1 DEF TypeOK
          <5>2. CASE v = w
            <6>1. at'[w] = p + 1 /\ p \in Nat /\ at[w] = p BY <1>1, <1>t DEF TypeOK, Path, p
            <6> QED BY <2>1, <3>2, <5>2, <6>1 DEF Path
          <5> QED BY <5>1, <5>2
        <4> QED BY <2>1, <4>1, <4>2 DEF MissingIsGone
      <3> QED BY <3>1, <3>2
    <2>2. ASSUME NEW v \in Scanner, pc[v] = "applying" PROVE at'[v] > NumPaths
      <3>1. at[v] > NumPaths BY <2>2 DEF MissingIsGone
      <3>2. v # w BY <1>1, <2>2
      <3> QED BY <1>1, <1>t, <3>1, <3>2 DEF TypeOK
    <2> QED BY <1>1, <2>1, <2>2 DEF MissingIsGone, vault
  <1> QED BY <1>5, <1>6, <1>7

\* The storing of changes finds a path for each source, and leaves one for each document.
LEMMA SteadyChanges ==
  ASSUME IngestInv, Steady, SteadyInv, NEW w \in Scanner, previous[w] = states,
         pc[w] = "applying", Known + New(w) <= MaxDocs,
         states' = NewStates(w), docs' = NewDocs(w), UNCHANGED <<vault, edits, seen, previous>>
  PROVE  /\ FilesInOrder' /\ RowsTell' /\ ActiveOwned'
         /\ \A s \in ToParse(w) : HasState(s)' \/ GoneForGood(s.path)'
  <1> USE DEF SteadyInv
  <1>t. TypeOK BY DEF IngestInv
  <1>f. \A p \in Path : NewStates(w)[p].content = seen[w][p].content BY StatesAreFound
  <1>0. /\ \A q \in Path : states[q].doc \in Doc => q \in Present(states)
        /\ \A q \in Present(states) : states[q].doc \in Registered
        /\ \A q, u \in Present(states) : states[q].doc = states[u].doc => q = u
        /\ Registered \subseteq Doc /\ Present(states) \subseteq Path
    BY OwnersOfDocuments
  <1>1. FilesInOrder' BY DEF FilesInOrder, vault
  <1>2. RowsTell'
    <2>1. ASSUME NEW p \in Path PROVE Tells(p, NewStates(w)[p])
      <3>1. Tells(p, states[p]) /\ Tells(p, seen[w][p]) BY DEF RowsTell
      <3>2. ASSUME NEW d PROVE Tells(p, [content |-> seen[w][p].content, mtime |-> seen[w][p].mtime,
                                         doc |-> d])
        BY <3>1 DEF Tells
      <3>3. Tells(p, NoState)
        <4>1. 0 <= edits BY <1>t DEF TypeOK
        <4> QED BY <4>1 DEF Tells, NoState
      <3>4. \/ \E d : NewStates(w)[p] = [content |-> seen[w][p].content,
                                         mtime |-> seen[w][p].mtime, doc |-> d]
            \/ NewStates(w)[p] = NoState
            \/ NewStates(w)[p] = states[p]
        <4>1. CASE p \in Changed(w) BY <4>1 DEF NewStates
        <4>2. CASE p \notin Changed(w) /\ \E r \in Moved(w) : r[2] = p BY <4>2 DEF NewStates
        <4>3. CASE p \notin Changed(w) /\ ~ \E r \in Moved(w) : r[2] = p BY <4>3 DEF NewStates
        <4> QED BY <4>1, <4>2, <4>3
      <3> QED BY <3>1, <3>2, <3>3, <3>4
    <2>2. \A p \in Path : \A r : Tells(p, r) =>
                     /\ r.mtime <= edits'
                     /\ r.content # None => past'[p] # {}
                     /\ r.content # None /\ files'[p].content # None /\ p \notin silent'
                        /\ r.mtime = files'[p].mtime => r.content = files'[p].content
      BY DEF Tells, vault
    <2>3. ASSUME NEW p \in Path PROVE Tells(p, states[p])' BY <2>1, <2>2 DEF Tells
    <2>4. ASSUME NEW p \in Path, NEW v \in Scanner
          PROVE  Tells(p, previous[v][p])' /\ Tells(p, seen[v][p])'
      BY <2>2 DEF Tells, RowsTell
    <2> QED BY <2>3, <2>4 DEF RowsTell
  <1>3. ASSUME NEW s \in ToParse(w) PROVE HasState(s)' \/ GoneForGood(s.path)'
    <2>1. ASSUME NEW p \in Changed(w),
                 s = [doc |-> DocOf(w, p), path |-> p, content |-> seen[w][p].content]
          PROVE  HasState(s)'
      <3>1. p \in Path BY RenamesAreOneToOne
      <3>2. states'[p].doc = DocOf(w, p) /\ states'[p].content = seen[w][p].content
        BY <3>1, <2>1 DEF NewStates
      <3> QED BY <2>1, <3>2 DEF HasState
    <2>2. ASSUME NEW p \in Present(states),
                 states[p].doc \notin {DocOf(w, q) : q \in Changed(w)},
                 s = [doc |-> states[p].doc, path |-> p, content |-> states[p].content]
          PROVE  HasState(s)' \/ GoneForGood(s.path)'
      <3>1. p \in Path /\ states[p].content # None BY DEF Present
      <3>2. CASE NewStates(w)[p].content # None
        <4>1. p \notin Changed(w)
          <5>1. p \notin Fresh(w) BY <3>1 DEF Fresh
          <5> QED BY <2>2, <5>1 DEF DocOf
        <4>2. \A r \in Moved(w) : r[2] # p BY <3>1, StatesAreFound
        <4>3. NewStates(w)[p] = states[p] BY <3>1, <3>2, <4>1, <4>2, OwnersAfter
        <4> QED BY <2>2, <4>3 DEF HasState
      <3>3. CASE NewStates(w)[p].content = None
        <4>1. seen[w][p].content = None BY <1>f, <3>1, <3>3
        <4>2. p < at[w] BY <1>t, <3>1, IngestAssumption DEF MissingIsGone, TypeOK, Path
        <4>3. files[p].content = None BY <3>1, <4>1, <4>2 DEF MissingIsGone
        <4>4. past[p] # {} BY <3>1 DEF RowsTell, Tells
        <4> QED BY <2>2, <4>3, <4>4 DEF GoneForGood, vault
      <3> QED BY <3>2, <3>3
    <2>3. \/ \E p \in Changed(w) :
               s = [doc |-> DocOf(w, p), path |-> p, content |-> seen[w][p].content]
          \/ \E p \in Present(states) :
               /\ states[p].doc \notin {DocOf(w, q) : q \in Changed(w)}
               /\ s = [doc |-> states[p].doc, path |-> p, content |-> states[p].content]
      <3> DEFINE changed == {[doc |-> DocOf(w, p), path |-> p, content |-> seen[w][p].content] :
                               p \in Changed(w)}
      <3>1. \A q \in Changed(w) : DocOf(w, q) \in {c.doc : c \in changed}
        <4> SUFFICES ASSUME NEW q \in Changed(w) PROVE DocOf(w, q) \in {c.doc : c \in changed}
          OBVIOUS
        <4> DEFINE c == [doc |-> DocOf(w, q), path |-> q, content |-> seen[w][q].content]
        <4>1. c \in changed /\ c.doc = DocOf(w, q) OBVIOUS
        <4> HIDE DEF changed, c
        <4> QED BY <4>1
      <3>2. \/ s \in changed
            \/ \E p \in Present(states) :
                 /\ states[p].doc \in Pending \ {c.doc : c \in changed}
                 /\ s = [doc |-> states[p].doc, path |-> p, content |-> states[p].content]
        BY <1>3 DEF ToParse
      <3>3. s \in changed => \E p \in Changed(w) :
               s = [doc |-> DocOf(w, p), path |-> p, content |-> seen[w][p].content]
        OBVIOUS
      <3> HIDE DEF changed
      <3> QED BY <3>1, <3>2, <3>3
    <2> QED BY <2>1, <2>2, <2>3
  <1>4. ASSUME NEW d \in Doc, NewDocs(w)[d].life = "active"
        PROVE  \E p \in Path : NewStates(w)[p].content # None /\ NewStates(w)[p].doc = d
    <2>1. ASSUME NEW p \in Changed(w), d = DocOf(w, p)
          PROVE  \E q \in Path : NewStates(w)[q].content # None /\ NewStates(w)[q].doc = d
      <3>1. p \in Path /\ seen[w][p].content # None BY RenamesAreOneToOne DEF Present
      <3>2. NewStates(w)[p].doc = d BY <2>1, <3>1 DEF NewStates
      <3> QED BY <1>f, <3>1, <3>2
    <2>2. ASSUME NEW p \in Fresh(w), NewDoc(w, p) = d PROVE p \in Changed(w) /\ d = DocOf(w, p)
      BY <2>2 DEF DocOf, Fresh
    <2>3. ASSUME NEW p \in Changed(w) \ Fresh(w), states[p].doc = d PROVE d = DocOf(w, p)
      BY <2>3 DEF DocOf
    <2>4. ASSUME NEW r \in Moved(w), states[r[1]].doc = d
          PROVE  \E q \in Path : NewStates(w)[q].content # None /\ NewStates(w)[q].doc = d
      <3>1. /\ r \in Renames(w) /\ r[2] \in Path /\ r[2] \notin Changed(w)
            /\ seen[w][r[2]].content # None
        BY RenamesAreOneToOne DEF Moved, Present
      <3>2. PICK q \in Moved(w) : q[2] = r[2] /\ NewStates(w)[r[2]].doc = states[q[1]].doc
        <4>1. NewStates(w)[r[2]].content # None BY <1>f, <3>1
        <4>2. states[r[2]].content = None BY <3>1, StatesAreFound
        <4> QED BY <3>1, <4>1, <4>2, OwnersAfter DEF Present
      <3>3. q[1] = r[1] BY <3>1, <3>2, RenamesAreOneToOne
      <3> QED BY <1>f, <2>4, <3>1, <3>2, <3>3
    <2>5. ASSUME NEW p \in Gone(w), states[p].doc = d PROVE FALSE
      <3>1. NewDocs(w)[d] = Struck(docs[d]) BY <2>5, DocumentsAfter
      <3>2. docs[d] \in Document BY <1>t DEF TypeOK
      <3>3. Struck(docs[d]).life = "deleted" BY <3>2 DEF Struck, Document
      <3> QED BY <1>4, <3>1, <3>3
    <2>6. CASE /\ \A p \in Fresh(w) : NewDoc(w, p) # d
               /\ \A p \in Changed(w) \cup Gone(w) : states[p].doc # d
               /\ \A r \in Moved(w) : states[r[1]].doc # d
      <3>1. NewDocs(w)[d] = docs[d] BY <2>6, DocumentsAfter
      <3>2. PICK p \in Present(states) : states[p].doc = d BY <1>4, <3>1 DEF ActiveOwned
      <3>3. p \in Path /\ states[p].content # None BY <3>2 DEF Present
      <3>4. p \notin Changed(w) \cup Gone(w) /\ \A r \in Moved(w) : r[1] # p /\ r[2] # p
        BY <2>6, <3>2, <3>3, StatesAreFound
      <3>5. NewStates(w)[p] = states[p] BY <3>3, <3>4 DEF NewStates
      <3> QED BY <3>2, <3>3, <3>5
    <2>7. CASE \E p \in Changed(w) : states[p].doc = d /\ p \in Fresh(w)
      <3>1. PICK p \in Fresh(w) : states[p].doc = d BY <2>7
      <3>2. p \in Path /\ states[p].content = None BY RenamesAreOneToOne DEF Fresh
      <3> QED BY <1>0, <3>1, <3>2 DEF Present
    <2> QED BY <2>1, <2>2, <2>3, <2>4, <2>5, <2>6, <2>7
  <1>5. ActiveOwned' BY <1>4 DEF ActiveOwned, Present
  <1> QED BY <1>1, <1>2, <1>3, <1>5

\* Step by step of a scan.
LEMMA SteadyScan ==
  ASSUME IngestInv, OneAtATime, Steady, ScansAlone, SteadyInv, NEW w \in Scanner, ScanStep(w)
  PROVE  SteadyInv'
  <1> USE DEF SteadyInv
  <1>t. TypeOK BY DEF IngestInv
  <1>a. ScansAlone' BY AloneStep DEF Next
  <1>o. \A v \in Scanner \ {w} : pc'[v] = "idle" /\ todo'[v] = {} BY OthersIdle
  <1>b. edits' = edits /\ UNCHANGED vault /\ (Apply(w) \/ UNCHANGED states)
    BY DEF ScanStep, Begin, Visit, Walked, ScanFails, Apply, Conflict, Read, StoreDocument,
       MarkDocumentFailed, Finish, Crash, store, bounds
  <1>m. ASSUME pc'[w] \in {"walking", "applying"} =>
                 \A p \in Path : p < at'[w] /\ seen'[w][p].content = None
                                   /\ previous'[w][p].content # None => files[p].content = None,
               pc'[w] = "applying" => at'[w] > NumPaths
        PROVE  MissingIsGone'
    BY <1>o, <1>b, <1>m DEF MissingIsGone, vault
  <1>l. ASSUME \A s \in todo'[w] : HasState(s)' \/ GoneForGood(s.path)',
               pc'[w] = "storing" => HasState(source[w])' /\ text'[w] # None,
               pc'[w] = "failing" => trouble'[w] # {}
        PROVE  SourcesLive'
    BY <1>o, <1>l DEF SourcesLive
  \* Steps that leave states and documents alone.
  <1>k. ASSUME UNCHANGED states,
               docs' = docs \/ \E d \in Doc : /\ \A e \in Doc \ {d} : docs'[e] = docs[e]
                                              /\ docs'[d].life # "active"
                                                   \/ \E p \in Present(states) : states[p].doc = d
        PROVE  ActiveOwned'
    BY <1>k DEF ActiveOwned, Present
  <1>1. CASE End(w) /\ UNCHANGED store
    <2>1. /\ pc'[w] = "idle" /\ todo'[w] = {}
          /\ previous'[w] = [p \in Path |-> NoState] /\ seen'[w] = [p \in Path |-> NoFile]
      BY <1>1, Ended
    <2>2. \A v \in Scanner, p \in Path :
            /\ seen'[v][p] = seen[v][p] \/ seen'[v][p] = NoFile
            /\ previous'[v][p] \in {previous[v][p], states[p], NoState}
      BY <2>1, OthersStay
    <2>3. FilesInOrder' /\ RowsTell' BY <1>1, <1>b, <2>2, RowsStay DEF store
    <2> QED BY <1>1, <1>m, <1>l, <1>k, <2>1, <2>3 DEF store
  <1>2. CASE Begin(w)
    <2>1. /\ pc'[w] = "walking" /\ at'[w] = 1 /\ todo'[w] = {} /\ previous'[w] = states
          /\ UNCHANGED <<store, seen>>
      BY <1>2, <1>t, <1>a DEF Begin, Goto, TypeOK, ScansAlone
    <2>2. \A v \in Scanner, p \in Path :
            /\ seen'[v][p] = seen[v][p] \/ seen'[v][p] = NoFile
            /\ previous'[v][p] \in {previous[v][p], states[p], NoState}
      BY <2>1, OthersStay
    <2>3. FilesInOrder' /\ RowsTell' BY <1>b, <2>1, <2>2, RowsStay DEF store
    <2>4. \A p \in Path : ~ (p < 1) BY DEF Path
    <2> QED BY <1>m, <1>l, <1>k, <2>1, <2>3, <2>4 DEF store
  <1>3. CASE Visit(w)
    <2>1. FilesInOrder' /\ RowsTell' /\ MissingIsGone' BY <1>3, SteadyVisit
    <2>2. UNCHANGED <<pc, store, todo>> /\ pc[w] = "walking" BY <1>3 DEF Visit
    <2>3. todo'[w] = {} BY <1>a, <2>2 DEF ScansAlone
    <2> QED BY <1>l, <1>k, <2>1, <2>2, <2>3 DEF store
  <1>4. CASE Walked(w)
    <2>1. /\ pc[w] = "walking" /\ pc'[w] = "applying" /\ at[w] > NumPaths
          /\ UNCHANGED <<store, seen, at, previous, todo>>
      BY <1>4, <1>t DEF Walked, Goto, TypeOK
    <2>2. FilesInOrder' /\ RowsTell' BY <1>b, <2>1, RowsStay DEF store
    <2>3. todo'[w] = {} BY <1>a, <2>1 DEF ScansAlone
    <2>4. MissingIsGone' BY <1>m, <2>1 DEF MissingIsGone
    <2> QED BY <1>l, <1>k, <2>1, <2>2, <2>3, <2>4 DEF store
  <1>5. CASE Apply(w)
    <2>1. /\ pc[w] = "applying" /\ pc'[w] \in {"finishing", "conflict", "parsing"}
          /\ UNCHANGED <<seen, at, previous>>
          /\ \/ UNCHANGED <<store, todo>>
             \/ /\ Known + New(w) <= MaxDocs /\ states' = NewStates(w) /\ docs' = NewDocs(w)
                /\ todo'[w] = ToParse(w)
      BY <1>5, <1>t DEF Apply, Goto, TypeOK, Known, New
    <2>2. previous[w] = states BY <2>1 DEF ScansAlone
    <2>3. MissingIsGone' BY <1>m, <2>1
    <2>4. CASE UNCHANGED <<store, todo>>
      <3>1. FilesInOrder' /\ RowsTell' BY <1>b, <2>1, <2>4, RowsStay DEF store
      <3>2. todo'[w] = {} BY <2>1, <2>4 DEF ScansAlone
      <3> QED BY <1>l, <1>k, <2>1, <2>3, <2>4, <3>1, <3>2 DEF store
    <2>5. CASE /\ Known + New(w) <= MaxDocs /\ states' = NewStates(w) /\ docs' = NewDocs(w)
               /\ todo'[w] = ToParse(w)
      <3>1. /\ FilesInOrder' /\ RowsTell' /\ ActiveOwned'
            /\ \A s \in ToParse(w) : HasState(s)' \/ GoneForGood(s.path)'
        BY <1>b, <2>1, <2>2, <2>5, SteadyChanges
      <3> QED BY <1>l, <2>1, <2>3, <2>5, <3>1
    <2> QED BY <2>1, <2>4, <2>5
  <1>6. CASE Read(w)
    <2>1. /\ pc[w] = "parsing" /\ pc'[w] \in {"storing", "failing"}
          /\ UNCHANGED <<store, seen, previous, todo>>
          /\ \E s \in todo[w] :
               /\ source'[w] = s
               /\ \/ pc'[w] = "storing" /\ files[s.path] # NoFile /\ text'[w] = files[s.path].content
                  \/ pc'[w] = "failing" /\ trouble'[w] # {}
      <3>1. PICK s \in todo[w] :
              /\ source' = [source EXCEPT ![w] = s]
              /\ \/ /\ files[s.path] # NoFile /\ Goto(w, "storing")
                    /\ text' = [text EXCEPT ![w] = files[s.path].content]
                 \/ /\ Goto(w, "failing")
                    /\ trouble' = [trouble EXCEPT ![w] = @ \cup {"failure"}]
        BY <1>6 DEF Read
      <3>2. /\ pc[w] = "parsing" /\ UNCHANGED <<store, seen, previous, todo>>
        BY <1>6 DEF Read
      <3>3. source'[w] = s BY <1>t, <3>1 DEF TypeOK
      <3>4. CASE /\ files[s.path] # NoFile /\ Goto(w, "storing")
                 /\ text' = [text EXCEPT ![w] = files[s.path].content]
        <4>1. pc'[w] = "storing" /\ text'[w] = files[s.path].content
          BY <1>t, <3>4 DEF TypeOK, Goto
        <4> QED BY <3>2, <3>3, <3>4, <4>1
      <3>5. CASE Goto(w, "failing") /\ trouble' = [trouble EXCEPT ![w] = @ \cup {"failure"}]
        <4>1. pc'[w] = "failing" BY <1>t, <3>5 DEF TypeOK, Goto
        <4>2. trouble'[w] = trouble[w] \cup {"failure"} BY <1>t, <3>5 DEF TypeOK
        <4>3. trouble'[w] # {} BY <4>2
        <4> QED BY <3>2, <3>3, <4>1, <4>3
      <3> QED BY <3>1, <3>4, <3>5
    <2>2. FilesInOrder' /\ RowsTell' BY <1>b, <2>1, RowsStay DEF store
    <2>3. \A s \in todo[w] : s.path \in Path BY <1>t DEF TypeOK, Source
    <2>4. \A s \in todo[w] : files[s.path] # NoFile =>
            HasState(s) /\ files[s.path].content # None
      BY <2>3 DEF SourcesLive, FilesInOrder, GoneForGood
    <2>5. \A s : HasState(s) => HasState(s)' BY <2>1 DEF HasState, store
    <2>6. \A s \in todo'[w] : HasState(s)' \/ GoneForGood(s.path)'
      BY <1>b, <2>1, <2>5 DEF SourcesLive, GoneForGood, vault
    <2>7. pc'[w] = "storing" => HasState(source[w])' /\ text'[w] # None
      BY <2>1, <2>4 DEF HasState, store
    <2>8. pc'[w] = "failing" => trouble'[w] # {} BY <2>1
    <2>9. SourcesLive' BY <1>l, <2>6, <2>7, <2>8
    <2>10. MissingIsGone' BY <1>m, <2>1
    <2> QED BY <1>k, <2>1, <2>2, <2>9, <2>10 DEF store
  <1>7. CASE StoreDocument(w) \/ MarkDocumentFailed(w)
    <2>1. /\ pc[w] \in {"storing", "failing"} /\ pc'[w] \in {"parsing", "finishing"}
          /\ UNCHANGED <<states, seen, previous>> /\ todo'[w] \subseteq todo[w]
      BY <1>7, <1>t DEF StoreDocument, MarkDocumentFailed, NextDocument, Goto, TypeOK
    <2>2. FilesInOrder' /\ RowsTell' BY <1>b, <2>1, RowsStay
    <2>3. \A s : HasState(s) => HasState(s)' BY <2>1 DEF HasState
    <2>4. \A s \in todo'[w] : HasState(s)' \/ GoneForGood(s.path)'
      BY <1>b, <2>1, <2>3 DEF SourcesLive, GoneForGood, vault
    <2>5. SourcesLive' BY <1>l, <2>1, <2>4
    <2>6. MissingIsGone' BY <1>m, <2>1
    <2>7. source[w] \in Source /\ source[w] \in todo[w] BY <1>t, <2>1 DEF TypeOK
    <2>8. source[w].doc \in Doc /\ source[w].path \in Path /\ source[w].content # None
      BY <2>7, IngestAssumption DEF Source
    <2>9. ActiveOwned'
      <3>1. \A e \in Doc \ {source[w].doc} : docs'[e] = docs[e]
        BY <1>7, <1>t DEF StoreDocument, MarkDocumentFailed, TypeOK
      <3>2. CASE StoreDocument(w)
        <4>1. HasState(source[w]) BY <3>2 DEF StoreDocument, SourcesLive
        <4>2. \E p \in Present(states) : states[p].doc = source[w].doc
          BY <2>8, <4>1 DEF HasState, Present
        <4> QED BY <1>k, <2>1, <2>8, <3>1, <4>2
      <3>3. CASE MarkDocumentFailed(w)
        <4>1. docs[source[w].doc] \in Document BY <1>t, <2>8 DEF TypeOK
        <4>2. docs'[source[w].doc].life = "error"
          BY <1>t, <2>8, <3>3, <4>1 DEF MarkDocumentFailed, TypeOK, Document
        <4> QED BY <1>k, <2>1, <2>8, <3>1, <4>2
      <3> QED BY <1>7, <3>2, <3>3
    <2> QED BY <2>2, <2>5, <2>6, <2>9
  <1> QED BY <1>1, <1>2, <1>3, <1>4, <1>5, <1>6, <1>7 DEF ScanStep, ScanFails, Conflict, Finish,
            Crash

LEMMA SteadyStep ==
  ASSUME IngestInv, OneAtATime, Steady, ScansAlone, SteadyInv, [Next]_vars
  PROVE  SteadyInv'
  <1>1. CASE UNCHANGED vars
    BY <1>1 DEF vars, vault, store, memory, bounds, SteadyInv, FilesInOrder, RowsTell, Tells,
       MissingIsGone, SourcesLive, HasState, GoneForGood, ActiveOwned, Present
  <1> QED BY <1>1, SteadyEdit, SteadyScan DEF Next

-----------------------------------------------------------------------------
(***************************************************************************)
(* ... none of which dies.                                                 *)
(***************************************************************************)

Indexed(p) ==
  /\ docs[states[p].doc] = [path |-> p, life |-> "active", version |-> states[p].content]
  /\ derived[states[p].doc][states[p].content] # None

Scheduled(w, p) == \E s \in todo[w] : s.doc = states[p].doc

\* What is neither indexed nor scheduled is taken up by the next scan.
Settled ==
  \A p \in Present(states) :
    states[p].doc \in Pending \/ Indexed(p) \/ \E w \in Scanner : Scheduled(w, p)

\* The type of a scan and the mtime tell whether the file is as it was.
Told(w, p) == kind[w] # "incremental" \/ p \notin silent

FoundIs(w, p) ==
  /\ seen[w][p].content = None <=> files[p].content = None
  /\ Told(w, p) => seen[w][p].content = files[p].content

\* What a scan that nothing has disturbed has found, and then has stored, is the vault.
Follows(w) ==
  trouble[w] = {} /\ kind[w] # "measure" =>
    /\ pc[w] \in {"walking", "applying"} => \A p \in Path : p < at[w] => FoundIs(w, p)
    /\ pc[w] \in {"parsing", "storing", "failing", "finishing"} =>
         /\ \A p \in Path : /\ states[p].content = None <=> files[p].content = None
                            /\ Told(w, p) => states[p].content = files[p].content
         /\ \A p \in Present(states) : Indexed(p) \/ Scheduled(w, p)

WholeInv == Settled /\ \A w \in Scanner : Follows(w)

\* At first no path is scheduled, and those with a state are indexed.
LEMMA WholeInit == IngestInv /\ Init => WholeInv
  <1> SUFFICES ASSUME IngestInv, Init PROVE WholeInv OBVIOUS
  <1>1. \A w \in Scanner : Follows(w) BY DEF Init, Follows
  <1>2. ASSUME NEW p \in Present(states) PROVE Indexed(p)
    <2>1. PICK indexed \in {{}, Present(files)} :
            /\ states = [q \in Path |->
                 IF q \in indexed
                 THEN [content |-> files[q].content, mtime |-> 0, doc |-> FirstDoc(q)]
                 ELSE NoState]
            /\ docs = [e \in Doc |->
                 IF \E q \in indexed : FirstDoc(q) = e
                 THEN LET q == CHOOSE u \in indexed : FirstDoc(u) = e IN
                      [path |-> q, life |-> "active", version |-> files[q].content]
                 ELSE NoDocument]
      BY DEF Init
    <2>2. p \in Path /\ states[p].content # None BY DEF Present
    <2>3. p \in indexed BY <2>1, <2>2 DEF NoState
    <2>4. states[p].content = files[p].content /\ states[p].doc = FirstDoc(p) BY <2>1, <2>2, <2>3
    <2>5. /\ states[p].doc \in Doc /\ docs[states[p].doc].path = p
          /\ states[p].content \in Content
      BY <2>2, OwnersOfDocuments DEF IngestInv, StatesOwnDocuments, TypeOK, State, Maybe
    <2>6. PICK q \in indexed :
            docs[states[p].doc] = [path |-> q, life |-> "active", version |-> files[q].content]
      <3> DEFINE d == states[p].doc
                 q == CHOOSE u \in indexed : FirstDoc(u) = d
      <3>1. FirstDoc(p) = d BY <2>4
      <3>2. q \in indexed BY <2>3, <3>1
      <3>3. docs[d] = [path |-> q, life |-> "active", version |-> files[q].content]
        BY <2>1, <2>3, <2>5, <3>1
      <3> QED BY <3>2, <3>3
    <2>7. q = p BY <2>5, <2>6
    <2>8. docs[states[p].doc] = [path |-> p, life |-> "active", version |-> states[p].content]
      BY <2>4, <2>6, <2>7
    <2>9. derived[states[p].doc][states[p].content] # None
      <3> DEFINE d == states[p].doc
                 c == states[p].content
      <3>1. derived[d] = [v \in Content |-> IF docs[d].version = v THEN v ELSE None]
        BY <2>5 DEF Init
      <3>2. docs[d].version = c BY <2>8
      <3> HIDE DEF d, c
      <3> QED BY <2>2, <2>5, <3>1, <3>2 DEF d, c
    <2> QED BY <2>2, <2>8, <2>9 DEF Indexed
  <1> QED BY <1>1, <1>2 DEF WholeInv, Settled

\* What a visit finds.
LEMMA VisitFinds ==
  ASSUME IngestInv, Steady, SteadyInv, NEW w \in Scanner, Visit(w)
  PROVE  /\ \A p \in Path : p < at'[w] =>
              (p < at[w] /\ seen'[w][p] = seen[w][p]) \/ (kind[w] # "measure" => FoundIs(w, p)')
         /\ UNCHANGED <<files, silent, store, pc, kind, trouble, todo>>
  <1>t. TypeOK BY DEF IngestInv
  <1>1. PICK p \in Path : p = at[w] BY <1>t DEF Visit, TypeOK, Path
  <1> DEFINE found == [files[p] EXCEPT
                         !.content = IF ShouldHash(w, p) THEN @ ELSE previous[w][p].content]
             row == IF files[p] = NoFile THEN NoFile ELSE found
  <1>2. /\ seen' = [seen EXCEPT ![w][p] = row] /\ at' = [at EXCEPT ![w] = p + 1]
        /\ UNCHANGED <<files, silent, store, pc, kind, trouble, todo>>
    BY <1>1 DEF Visit, vault, Steady
  <1>3. /\ files[p] \in File /\ previous[w][p] \in State
        /\ kind[w] \in {"incremental", "full_rehash", "measure"}
    BY <1>t DEF TypeOK
  <1>4. /\ seen'[w][p] = row /\ at'[w] = p + 1
        /\ \A q \in Path \ {p} : seen'[w][q] = seen[w][q]
    <2> HIDE DEF row
    <2> QED BY <1>t, <1>2 DEF TypeOK
  <1>5. row.content = None <=> files[p].content = None
    <2>1. CASE files[p] = NoFile
      <3>1. row = NoFile BY <2>1
      <3> HIDE DEF row
      <3> QED BY <2>1, <3>1
    <2>2. CASE files[p] # NoFile
      <3>1. files[p].content # None BY <2>2 DEF SteadyInv, FilesInOrder
      <3>2. row.content = IF ShouldHash(w, p) THEN files[p].content ELSE previous[w][p].content
        BY <1>3, <2>2 DEF File
      <3>3. ~ ShouldHash(w, p) => previous[w][p].content # None BY DEF ShouldHash
      <3> HIDE DEF row
      <3> QED BY <3>1, <3>2, <3>3
    <2> QED BY <2>1, <2>2
  <1>6. ASSUME kind[w] # "measure", Told(w, p) PROVE row.content = files[p].content
    <2>1. CASE files[p] = NoFile
      <3>1. row = NoFile BY <2>1
      <3> HIDE DEF row
      <3> QED BY <2>1, <3>1
    <2>2. CASE files[p] # NoFile
      <3>1. files[p].content # None BY <2>2 DEF SteadyInv, FilesInOrder
      <3>2. row.content = IF ShouldHash(w, p) THEN files[p].content ELSE previous[w][p].content
        BY <1>3, <2>2 DEF File
      <3>3. ASSUME ~ ShouldHash(w, p) PROVE previous[w][p].content = files[p].content
        <4>1. /\ kind[w] = "incremental" /\ previous[w][p].content # None
              /\ previous[w][p].mtime = files[p].mtime
          BY <1>3, <3>3 DEF ShouldHash
        <4>2. p \notin silent BY <1>6, <4>1 DEF Told
        <4>3. Tells(p, previous[w][p]) BY DEF SteadyInv, RowsTell
        <4> QED BY <3>1, <4>1, <4>2, <4>3 DEF Tells
      <3> HIDE DEF row
      <3> QED BY <3>2, <3>3
    <2> QED BY <2>1, <2>2
  <1> HIDE DEF row
  <1>7. kind[w] # "measure" => FoundIs(w, p)'
    BY <1>2, <1>4, <1>5, <1>6 DEF FoundIs, Told
  <1>8. ASSUME NEW q \in Path, q < at'[w]
        PROVE  (q < at[w] /\ seen'[w][q] = seen[w][q]) \/ (kind[w] # "measure" => FoundIs(w, q)')
    <2>1. CASE q = p BY <1>7, <2>1
    <2>2. CASE q # p
      <3>1. q < p BY <1>4, <1>8, <2>2 DEF Path
      <3> QED BY <1>1, <1>4, <2>2, <3>1
    <2> QED BY <2>1, <2>2
  <1> QED BY <1>2, <1>8

\* Steps that leave the store alone and take nothing from what is to be parsed.
LEMMA SettledStays ==
  ASSUME Settled, UNCHANGED store, \A w \in Scanner : todo'[w] = todo[w]
  PROVE  /\ Settled'
         /\ \A p \in Path : Indexed(p)' <=> Indexed(p)
         /\ \A w \in Scanner, p \in Path : Scheduled(w, p)' <=> Scheduled(w, p)
  <1> USE DEF store
  <1>1. \A p \in Path : Indexed(p)' <=> Indexed(p) BY DEF Indexed
  <1>2. \A w \in Scanner, p \in Path : Scheduled(w, p)' <=> Scheduled(w, p) BY DEF Scheduled
  <1> QED BY <1>1, <1>2 DEF Settled, Present, Pending, Registered

\* The storing of changes leaves each path indexed or scheduled, and a table of what the
\* scan has found.
LEMMA WholeChanges ==
  ASSUME IngestInv, OneAtATime, Steady, ScansAlone, SteadyInv, WholeInv,
         NEW w \in Scanner, Apply(w), kind[w] # "measure", states' = NewStates(w),
         docs' = NewDocs(w), todo'[w] = ToParse(w), Known + New(w) <= MaxDocs,
         \A d \in Doc : (\A p \in Gone(w) : states[p].doc # d) => derived'[d] = derived[d]
  PROVE  Settled' /\ Follows(w)'
  <1>t. TypeOK BY DEF IngestInv
  <1>1. /\ pc[w] = "applying" /\ previous[w] = states /\ todo[w] = {}
        /\ UNCHANGED <<files, silent, kind, trouble, seen, at>>
    BY DEF Apply, ScansAlone, vault
  <1>2. \A v \in Scanner : todo[v] = {} BY <1>1 DEF ScansAlone
  <1>0. /\ \A q \in Present(states) : states[q].doc \in Registered
        /\ Registered \subseteq Doc /\ Present(states) \subseteq Path
    BY OwnersOfDocuments
  <1>3. \A p \in Present(states) : states[p].doc \in Pending \/ Indexed(p)
    BY <1>2 DEF WholeInv, Settled, Scheduled
  <1>4. ASSUME NEW p \in Present(states), states[p].doc \in Pending
        PROVE  \E s \in ToParse(w) : s.doc = states[p].doc
    <2> DEFINE changed == {[doc |-> DocOf(w, q), path |-> q, content |-> seen[w][q].content] :
                             q \in Changed(w)}
               again == {q \in Present(states) : states[q].doc \in Pending \ {s.doc : s \in changed}}
               s0 == [doc |-> states[p].doc, path |-> p, content |-> states[p].content]
    <2>1. ToParse(w) = changed \cup {[doc |-> states[q].doc, path |-> q,
                                      content |-> states[q].content] : q \in again}
      BY DEF ToParse
    <2>2. p \in again \/ \E s \in changed : s.doc = states[p].doc
      <3> HIDE DEF changed
      <3> QED BY <1>4
    <2>3. p \in again => s0 \in ToParse(w)
      <3> HIDE DEF changed, again
      <3> QED BY <2>1
    <2>4. s0.doc = states[p].doc OBVIOUS
    <2> HIDE DEF changed, again, s0
    <2> QED BY <2>1, <2>2, <2>3, <2>4
  <1>5. ASSUME NEW p \in Path, NewStates(w)[p].content # None
        PROVE  Indexed(p)' \/ Scheduled(w, p)'
    <2>1. CASE p \in Changed(w) /\ NewStates(w)[p].doc = DocOf(w, p)
      <3> DEFINE s0 == [doc |-> DocOf(w, p), path |-> p, content |-> seen[w][p].content]
      <3>1. s0 \in ToParse(w) BY <2>1 DEF ToParse
      <3>2. s0.doc = DocOf(w, p) OBVIOUS
      <3> HIDE DEF s0
      <3> QED BY <2>1, <3>1, <3>2 DEF Scheduled
    <2>2. ASSUME NEW r \in Moved(w), r[2] = p, r[1] \in Present(states),
                 NewStates(w)[p].doc = states[r[1]].doc,
                 NewStates(w)[p].content = states[r[1]].content,
                 NewDocs(w)[states[r[1]].doc] = [docs[states[r[1]].doc] EXCEPT !.path = p],
                 \A q \in Gone(w) : states[q].doc # states[r[1]].doc
          PROVE  Indexed(p)' \/ Scheduled(w, p)'
      <3>1. CASE states[r[1]].doc \in Pending
        BY <1>4, <2>2, <3>1 DEF Scheduled
      <3>2. CASE Indexed(r[1])
        <4>1. states[r[1]].doc \in Doc BY <1>0, <2>2
        <4>2. derived'[states[r[1]].doc] = derived[states[r[1]].doc] BY <2>2, <4>1
        <4>3. docs'[states[r[1]].doc] = [path |-> p, life |-> "active",
                                         version |-> states[r[1]].content]
          BY <2>2, <3>2 DEF Indexed
        <4> QED BY <2>2, <3>2, <4>2, <4>3 DEF Indexed
      <3> QED BY <1>3, <2>2, <3>1, <3>2
    <2>3. ASSUME p \in Present(states), NewStates(w)[p] = states[p],
                 NewDocs(w)[states[p].doc] = docs[states[p].doc],
                 \A q \in Gone(w) : states[q].doc # states[p].doc
          PROVE  Indexed(p)' \/ Scheduled(w, p)'
      <3>1. CASE states[p].doc \in Pending
        BY <1>4, <2>3, <3>1 DEF Scheduled
      <3>2. CASE Indexed(p)
        <4>1. states[p].doc \in Doc BY <1>0, <2>3
        <4>2. derived'[states[p].doc] = derived[states[p].doc] BY <2>3, <4>1
        <4> QED BY <2>3, <3>2, <4>2 DEF Indexed
      <3> QED BY <1>3, <2>3, <3>1, <3>2
    <2>0. previous[w] = states BY <1>1
    <2>4. \/ p \in Changed(w) /\ NewStates(w)[p].doc = DocOf(w, p)
          \/ \E r \in Moved(w) :
               /\ r[2] = p /\ r[1] \in Present(states)
               /\ NewStates(w)[p].doc = states[r[1]].doc
               /\ NewStates(w)[p].content = states[r[1]].content
               /\ NewStates(w)[p].mtime = seen[w][p].mtime
               /\ NewDocs(w)[states[r[1]].doc] = [docs[states[r[1]].doc] EXCEPT !.path = p]
               /\ \A q \in Gone(w) : states[q].doc # states[r[1]].doc
          \/ /\ p \in Present(states) /\ NewStates(w)[p] = states[p]
             /\ NewDocs(w)[states[p].doc] = docs[states[p].doc]
             /\ \A q \in Changed(w) : DocOf(w, q) # states[p].doc
             /\ \A q \in Gone(w) : states[q].doc # states[p].doc
      BY <2>0, <1>5, OwnersAfter
    <2>5. CASE \E r \in Moved(w) :
               /\ r[2] = p /\ r[1] \in Present(states)
               /\ NewStates(w)[p].doc = states[r[1]].doc
               /\ NewStates(w)[p].content = states[r[1]].content
               /\ NewDocs(w)[states[r[1]].doc] = [docs[states[r[1]].doc] EXCEPT !.path = p]
               /\ \A q \in Gone(w) : states[q].doc # states[r[1]].doc
      BY <2>2, <2>5
    <2> QED BY <2>1, <2>3, <2>4, <2>5
  <1>6. Settled' BY <1>5 DEF Settled, Present
  <1>7. ASSUME trouble'[w] = {}, NEW p \in Path
        PROVE  /\ states'[p].content = None <=> files'[p].content = None
               /\ Told(w, p)' => states'[p].content = files'[p].content
    <2>1. p < at[w]
      BY <1>1, <1>t, IngestAssumption DEF SteadyInv, MissingIsGone, TypeOK, Path
    <2>2. Follows(w) BY DEF WholeInv
    <2>3. FoundIs(w, p) BY <1>1, <1>7, <2>1, <2>2 DEF Follows
    <2>4. states'[p].content = seen[w][p].content BY <1>1, StatesAreFound
    <2> QED BY <1>1, <2>3, <2>4 DEF FoundIs, Told
  <1>8. pc'[w] \in {"parsing", "finishing", "conflict"}
    BY <1>t DEF Apply, Goto, TypeOK
  <1>9. \A p \in Present(states)' : Indexed(p)' \/ Scheduled(w, p)' BY <1>5 DEF Present
  <1> QED BY <1>6, <1>7, <1>8, <1>9 DEF Follows

\* The storing of a document indexes its path, and no other path has the document.
LEMMA WholeStore ==
  ASSUME IngestInv, SteadyInv, WholeInv, NEW w \in Scanner, StoreDocument(w)
  PROVE  /\ Settled'
         /\ \A p \in Present(states) : Indexed(p) \/ Scheduled(w, p) =>
                                         Indexed(p)' \/ Scheduled(w, p)'
  <1>t. TypeOK BY DEF IngestInv
  <1>s. PICK s \in todo[w] : s = source[w] BY <1>t DEF StoreDocument, TypeOK
  <1>0. /\ pc[w] = "storing" /\ UNCHANGED states
        /\ NextDocument(w)
        /\ derived' = [derived EXCEPT ![s.doc] = [v \in Content |->
             IF v = s.content THEN text[w] ELSE IF v = docs[s.doc].version THEN None ELSE @[v]]]
        /\ docs' = [docs EXCEPT ![s.doc].version = s.content, ![s.doc].life = "active"]
    BY <1>s DEF StoreDocument
  <1>1. s \in Source BY <1>t DEF TypeOK
  <1>2. s.doc \in Doc /\ s.path \in Path /\ s.content \in Content /\ s.content # None
    BY <1>1, IngestAssumption DEF Source
  <1>3. HasState(s) /\ text[w] # None BY <1>0, <1>s DEF SteadyInv, SourcesLive
  <1>4. s.path \in Present(states) /\ states[s.path].doc = s.doc /\ states[s.path].content = s.content
    BY <1>2, <1>3 DEF HasState, Present
  <1>5. docs[s.doc].path = s.path BY <1>4 DEF IngestInv, StatesOwnDocuments
  <1>6. /\ \A d \in Doc \ {s.doc} : docs'[d] = docs[d] /\ derived'[d] = derived[d]
        /\ docs'[s.doc] = [path |-> s.path, life |-> "active", version |-> s.content]
        /\ derived'[s.doc][s.content] = text[w]
    <2>1. docs[s.doc] \in Document BY <1>2, <1>t DEF TypeOK
    <2>2. docs'[s.doc] = [docs[s.doc] EXCEPT !.version = s.content, !.life = "active"]
      BY <1>0, <1>2, <1>t DEF TypeOK
    <2>3. docs'[s.doc] = [path |-> s.path, life |-> "active", version |-> s.content]
      BY <1>5, <2>1, <2>2 DEF Document
    <2> QED BY <1>0, <1>2, <1>t, <2>3 DEF TypeOK
  <1>7. /\ \A v \in Scanner \ {w} : todo'[v] = todo[v]
        /\ todo'[w] = todo[w] \ {s}
    BY <1>0, <1>s, <1>t DEF NextDocument, TypeOK
  <1>8. /\ \A p, q \in Present(states) : states[p].doc = states[q].doc => p = q
        /\ \A p \in Present(states) : states[p].doc \in Doc /\ p \in Path
    BY OwnersOfDocuments
  <1>9. Indexed(s.path)' BY <1>0, <1>3, <1>4, <1>6 DEF Indexed
  <1>10. ASSUME NEW p \in Present(states), p # s.path
         PROVE  /\ Indexed(p) => Indexed(p)'
                /\ \A v \in Scanner : Scheduled(v, p) => Scheduled(v, p)'
                /\ states[p].doc \in Pending => (states[p].doc \in Pending)'
    <2>1. states[p].doc # s.doc /\ states[p].doc \in Doc BY <1>4, <1>8, <1>10
    <2>2. docs'[states[p].doc] = docs[states[p].doc] /\ derived'[states[p].doc] = derived[states[p].doc]
      BY <1>6, <2>1
    <2>3. Indexed(p) => Indexed(p)' BY <1>0, <2>2 DEF Indexed
    <2>4. \A v \in Scanner : Scheduled(v, p) => Scheduled(v, p)'
      BY <1>0, <1>7, <2>1 DEF Scheduled
    <2>5. states[p].doc \in Pending => (states[p].doc \in Pending)'
      BY <1>0, <2>1, <2>2 DEF Pending, Registered
    <2> QED BY <2>3, <2>4, <2>5
  <1>11. Settled'
    <2> SUFFICES ASSUME NEW p \in Present(states)
                 PROVE  \/ (states[p].doc \in Pending)' \/ Indexed(p)'
                        \/ \E v \in Scanner : Scheduled(v, p)'
      BY <1>0 DEF Settled, Present
    <2> QED BY <1>9, <1>10 DEF WholeInv, Settled
  <1> QED BY <1>9, <1>10, <1>11

\* A document that failed is in error, and taken up by the next scan.
LEMMA WholeFail ==
  ASSUME IngestInv, WholeInv, NEW w \in Scanner, MarkDocumentFailed(w)
  PROVE  Settled'
  <1>t. TypeOK BY DEF IngestInv
  <1>s. PICK s \in todo[w] : s = source[w] BY <1>t DEF MarkDocumentFailed, TypeOK
  <1>0. /\ pc[w] = "failing" /\ UNCHANGED <<states, derived>>
        /\ NextDocument(w)
        /\ docs' = [docs EXCEPT ![s.doc].life = "error"]
    BY <1>s DEF MarkDocumentFailed
  <1>1. s \in Source BY <1>t DEF TypeOK
  <1>2. s.doc \in Doc BY <1>1 DEF Source
  <1>3. /\ \A d \in Doc \ {s.doc} : docs'[d] = docs[d]
        /\ docs'[s.doc].life = "error"
    <2>1. docs[s.doc] \in Document BY <1>2, <1>t DEF TypeOK
    <2> QED BY <1>0, <1>2, <1>t, <2>1 DEF TypeOK, Document
  <1>4. /\ \A v \in Scanner \ {w} : todo'[v] = todo[v]
        /\ todo'[w] = todo[w] \ {s}
    BY <1>0, <1>s, <1>t DEF NextDocument, TypeOK
  <1>5. \A p \in Present(states) : states[p].doc \in Doc BY OwnersOfDocuments
  <1> SUFFICES ASSUME NEW p \in Present(states)
               PROVE  \/ (states[p].doc \in Pending)' \/ Indexed(p)'
                      \/ \E v \in Scanner : Scheduled(v, p)'
    BY <1>0 DEF Settled, Present
  <1>6. CASE states[p].doc = s.doc
    BY <1>0, <1>2, <1>3, <1>6 DEF Pending, Registered
  <1>7. CASE states[p].doc # s.doc
    <2>1. docs'[states[p].doc] = docs[states[p].doc] BY <1>3, <1>5, <1>7
    <2>2. \A v \in Scanner : Scheduled(v, p) => Scheduled(v, p)'
      BY <1>0, <1>4, <1>7 DEF Scheduled
    <2>3. states[p].doc \in Pending => (states[p].doc \in Pending)'
      BY <1>0, <1>5, <2>1 DEF Pending, Registered
    <2>4. Indexed(p) => Indexed(p)' BY <1>0, <2>1 DEF Indexed
    <2> QED BY <2>2, <2>3, <2>4 DEF WholeInv, Settled
  <1> QED BY <1>6, <1>7

\* Step by step of a scan; none is a death.
LEMMA WholeScan ==
  ASSUME IngestInv, OneAtATime, Steady, setting.crashes = 0, ScansAlone, SteadyInv, WholeInv,
         NEW w \in Scanner, ScanStep(w)
  PROVE  WholeInv'
  <1>t. TypeOK BY DEF IngestInv
  <1>f. Settled /\ Follows(w) BY DEF WholeInv
  <1>o. \A v \in Scanner \ {w} : pc'[v] = "idle" BY OthersIdle
  <1>g. ASSUME Settled', Follows(w)' PROVE WholeInv'
    BY <1>g, <1>o DEF WholeInv, Follows
  \* Steps that schedule nothing.
  <1>k. ASSUME todo'[w] = todo[w] PROVE \A v \in Scanner : todo'[v] = todo[v]
    BY <1>k, OthersStay
  <1>1. CASE End(w) /\ UNCHANGED store /\ pc[w] \notin {"parsing", "storing", "failing"}
    <2>1. pc'[w] = "idle" /\ todo'[w] = {} /\ todo[w] = {} BY <1>1, Ended DEF ScansAlone
    <2>2. Settled' BY <1>1, <1>f, <1>k, <2>1, SettledStays
    <2> QED BY <1>g, <2>1, <2>2 DEF Follows
  <1>2. CASE Begin(w)
    <2>1. pc'[w] = "walking" /\ at'[w] = 1 /\ UNCHANGED <<store, todo>>
      BY <1>2, <1>t DEF Begin, Goto, TypeOK, ScansAlone
    <2>2. Settled' BY <1>f, <2>1, SettledStays
    <2>3. \A p \in Path : ~ (p < 1) BY DEF Path
    <2> QED BY <1>g, <2>1, <2>2, <2>3 DEF Follows
  <1>3. CASE Visit(w)
    <2>1. /\ \A p \in Path : p < at'[w] =>
               (p < at[w] /\ seen'[w][p] = seen[w][p]) \/ (kind[w] # "measure" => FoundIs(w, p)')
          /\ UNCHANGED <<files, silent, store, pc, kind, trouble, todo>>
      BY <1>3, VisitFinds
    <2>2. pc[w] = "walking" BY <1>3 DEF Visit
    <2>3. Settled' BY <1>f, <2>1, SettledStays
    <2>4. ASSUME trouble'[w] = {}, kind'[w] # "measure", NEW p \in Path, p < at'[w]
          PROVE  FoundIs(w, p)'
      <3>1. CASE p < at[w] /\ seen'[w][p] = seen[w][p]
        <4>1. FoundIs(w, p) BY <1>f, <2>1, <2>2, <2>4, <3>1 DEF Follows
        <4> QED BY <2>1, <3>1, <4>1 DEF FoundIs, Told
      <3> QED BY <2>1, <2>4, <3>1
    <2> QED BY <1>g, <2>1, <2>2, <2>3, <2>4 DEF Follows
  <1>4. CASE Walked(w)
    <2>1. /\ pc[w] = "walking" /\ pc'[w] = "applying"
          /\ UNCHANGED <<files, silent, store, kind, seen, at, todo, trouble>>
      BY <1>4, <1>t DEF Walked, Goto, TypeOK, vault
    <2>2. Settled' BY <1>f, <2>1, SettledStays
    <2> QED BY <1>f, <1>g, <2>1, <2>2 DEF Follows, FoundIs, Told
  <1>5. CASE Apply(w)
    <2>1. CASE UNCHANGED <<store, todo>>
                 /\ (kind[w] = "measure" \/ pc'[w] = "conflict")
      <3>1. Settled' BY <1>f, <2>1, SettledStays
      <3>2. kind' = kind BY <1>5 DEF Apply
      <3> QED BY <1>g, <2>1, <3>1, <3>2 DEF Follows
    <2>2. CASE /\ kind[w] # "measure" /\ Known + New(w) <= MaxDocs
               /\ states' = NewStates(w) /\ docs' = NewDocs(w) /\ todo'[w] = ToParse(w)
               /\ \A d \in Doc : (\A p \in Gone(w) : states[p].doc # d) => derived'[d] = derived[d]
      BY <1>5, <1>g, <2>2, WholeChanges
    <2>3. \/ UNCHANGED <<store, todo>> /\ (kind[w] = "measure" \/ pc'[w] = "conflict")
          \/ /\ kind[w] # "measure" /\ Known + New(w) <= MaxDocs
             /\ states' = NewStates(w) /\ docs' = NewDocs(w) /\ todo'[w] = ToParse(w)
             /\ \A d \in Doc : (\A p \in Gone(w) : states[p].doc # d) => derived'[d] = derived[d]
      <3>1. CASE kind[w] = "measure" BY <1>5, <3>1 DEF Apply
      <3>2. CASE kind[w] # "measure" /\ Conflicts(w)
        BY <1>5, <1>t, <3>2 DEF Apply, Goto, TypeOK
      <3>3. CASE kind[w] # "measure" /\ ~ Conflicts(w)
        <4>1. /\ states' = NewStates(w) /\ docs' = NewDocs(w)
              /\ todo' = [todo EXCEPT ![w] = ToParse(w)]
              /\ derived' = [d \in Doc |->
                   IF \E p \in Gone(w) : states[p].doc = d
                   THEN [c \in Content |->
                           IF c = docs[d].version THEN None ELSE derived[d][c]]
                   ELSE derived[d]]
          BY <1>5, <3>3 DEF Apply
        <4>2. \A d \in Doc : (\A p \in Gone(w) : states[p].doc # d) => derived'[d] = derived[d]
          BY <4>1
        <4>3. todo'[w] = ToParse(w) BY <1>t, <4>1 DEF TypeOK
        <4>4. Known + New(w) <= MaxDocs BY <1>5, <3>3 DEF Apply, Known, New
        <4> QED BY <3>3, <4>1, <4>2, <4>3, <4>4
      <3> QED BY <3>1, <3>2, <3>3
    <2> QED BY <2>1, <2>2, <2>3
  <1>6. CASE Read(w)
    <2>1. /\ pc[w] = "parsing" /\ pc'[w] \in {"storing", "failing"}
          /\ UNCHANGED <<files, silent, store, kind, todo>>
      BY <1>6, <1>t DEF Read, Goto, TypeOK, vault
    <2>2. trouble[w] \subseteq trouble'[w] BY <1>6, <1>t DEF Read, TypeOK
    <2>3. /\ Settled'
          /\ \A p \in Path : (Indexed(p)' <=> Indexed(p)) /\ (Scheduled(w, p)' <=> Scheduled(w, p))
      BY <1>f, <2>1, SettledStays
    <2> QED BY <1>f, <1>g, <2>1, <2>2, <2>3 DEF Follows, Told, Present, store
  <1>7. CASE StoreDocument(w)
    <2>1. /\ pc[w] = "storing" /\ pc'[w] \in {"parsing", "finishing"}
          /\ UNCHANGED <<files, silent, states, kind, trouble>>
      BY <1>7, <1>t DEF StoreDocument, NextDocument, Goto, TypeOK, vault
    <2>2. /\ Settled'
          /\ \A p \in Present(states) : Indexed(p) \/ Scheduled(w, p) =>
                                          Indexed(p)' \/ Scheduled(w, p)'
      BY <1>7, WholeStore
    <2>3. Present(states)' = Present(states) BY <2>1 DEF Present
    <2> QED BY <1>f, <1>g, <2>1, <2>2, <2>3 DEF Follows, Told
  <1>8. CASE MarkDocumentFailed(w)
    <2>1. Settled' BY <1>8, WholeFail
    <2>2. trouble'[w] # {} BY <1>8 DEF MarkDocumentFailed, SteadyInv, SourcesLive
    <2> QED BY <1>g, <2>1, <2>2 DEF Follows
  <1>9. CASE Crash(w)
    <2>1. crashes \in 0 .. 0 BY <1>t DEF TypeOK
    <2> QED BY <1>9, <2>1 DEF Crash
  <1> QED BY <1>1, <1>2, <1>3, <1>4, <1>5, <1>6, <1>7, <1>8, <1>9
          DEF ScanStep, ScanFails, Conflict, Finish

LEMMA WholeStep ==
  ASSUME IngestInv, OneAtATime, Steady, setting.crashes = 0, ScansAlone, SteadyInv, WholeInv,
         [Next]_vars
  PROVE  WholeInv'
  <1>1. CASE UNCHANGED vars
    <2>1. UNCHANGED <<store, todo, files, silent, kind, trouble, pc, at, seen>>
      BY <1>1 DEF vars, vault, memory
    <2>2. /\ Settled'
          /\ \A w \in Scanner, p \in Path : (Indexed(p)' <=> Indexed(p))
                                            /\ (Scheduled(w, p)' <=> Scheduled(w, p))
      BY <2>1, SettledStays DEF WholeInv
    <2>3. Present(states)' = Present(states) BY <2>1 DEF Present, store
    <2>4. ASSUME NEW w \in Scanner PROVE Follows(w)'
      <3>1. Follows(w) BY DEF WholeInv
      <3> QED BY <2>1, <2>2, <2>3, <3>1 DEF Follows, FoundIs, Told, Present, store
    <2> QED BY <2>2, <2>4 DEF WholeInv
  <1>2. CASE Edit
    <2>1. UNCHANGED <<store, todo, pc>> BY <1>2 DEF Edit, memory
    <2>2. Settled' BY <2>1, SettledStays DEF WholeInv
    <2>3. ASSUME NEW w \in Scanner, trouble'[w] = {} PROVE pc'[w] = "idle"
      <3>1. trouble'[w] = IF pc[w] = "idle" THEN {} ELSE trouble[w] \cup {"edit"}
        BY <1>2 DEF Edit
      <3> QED BY <2>1, <2>3, <3>1
    <2> QED BY <2>2, <2>3 DEF WholeInv, Follows
  <1> QED BY <1>1, <1>2, WholeScan DEF Next

-----------------------------------------------------------------------------
(***************************************************************************)
(* What holds of every scan.                                               *)
(***************************************************************************)

\* States, documents and derived rows are consistent, however many scans run at a
\* time and wherever they die.
THEOREM IngestInvariance == Spec => []IngestInv
  <1> QED BY IngestInit, IngestStep, PTL DEF Spec

\* Every variable has its type; in particular the documents that scans register get
\* identifiers of their own.
THEOREM IngestTypes == Spec => []TypeOK
  <1>1. IngestInv => TypeOK BY DEF IngestInv
  <1> QED BY <1>1, IngestInvariance, PTL

\* apply_scan keeps file states and documents together: no two paths share a document,
\* and each document has the path of its state, whatever two scans do to each other.
THEOREM StatesKeepTheirDocuments == Spec => []StatesOwnDocuments
  <1>1. IngestInv => StatesOwnDocuments BY DEF IngestInv
  <1> QED BY <1>1, IngestInvariance, PTL

\* store_document and the deletion of a source leave derived rows of the current
\* version only (docs/adr/0005), also with late writes of another scan.
THEOREM NoTextIsHistorical == Spec => []NoHistoricalText
  <1>1. IngestInv => NoHistoricalText BY DEF IngestInv
  <1> QED BY <1>1, IngestInvariance, PTL

-----------------------------------------------------------------------------
(***************************************************************************)
(* What holds while scans follow each other.                               *)
(***************************************************************************)

\* What each step needs of the one before, as far as the setting allows.
SequenceInv ==
  /\ IngestInv
  /\ OneAtATime => ScansAlone
  /\ OneAtATime /\ Steady => SteadyInv
  /\ OneAtATime /\ Steady /\ setting.crashes = 0 => WholeInv

\* As long as scans follow each other: of any kind; of files that can be hashed, on paths
\* that are not used again; and without a death.
THEOREM SequenceInvariance == Spec => []SequenceInv
  <1>1. Init => SequenceInv
    BY IngestInit, AloneInit, SteadyInit, WholeInit DEF SequenceInv
  <1>2. SequenceInv /\ [Next]_vars => SequenceInv'
    <2> SUFFICES ASSUME SequenceInv, [Next]_vars PROVE SequenceInv' OBVIOUS
    <2>1. IngestInv /\ IngestInv' BY IngestStep DEF SequenceInv
    <2>2. setting' = setting BY SettingStays
    <2>3. (OneAtATime' <=> OneAtATime) /\ (Steady' <=> Steady) BY <2>2 DEF OneAtATime, Steady
    <2>4. OneAtATime => ScansAlone' BY <2>1, AloneStep DEF SequenceInv
    <2>5. OneAtATime /\ Steady => SteadyInv' BY <2>1, SteadyStep DEF SequenceInv
    <2>6. OneAtATime /\ Steady /\ setting.crashes = 0 => WholeInv'
      BY <2>1, WholeStep DEF SequenceInv
    <2> QED BY <2>1, <2>2, <2>3, <2>4, <2>5, <2>6 DEF SequenceInv
  <1> QED BY <1>1, <1>2, PTL DEF Spec

\* An active document has a file state at which later scans find its file missing: apply_scan
\* deletes it with its state, and store_document revives none, since what is scheduled and
\* has no state any more has no file to read either.
THEOREM ActiveAreOwned == Spec => []ActiveHasState
  <1>1. SequenceInv => ActiveHasState
    BY DEF SequenceInv, SteadyInv, ActiveOwned, ActiveHasState
  <1> QED BY <1>1, SequenceInvariance, PTL

\* A file that only moved keeps its document (docs/adr/0004): if what left and what came
\* have one content and are the only ones with it, compare_file_states pairs them, so that
\* apply_scan does not delete the one's document and register another for it.
THEOREM MovesKeepDocuments == Spec => MoveKeepsDocument
  <1>1. SequenceInv /\ [Next]_vars => [KeepsDocumentOfMove]_vars
    BY MoveStep DEF SequenceInv
  <1> QED BY <1>1, SequenceInvariance, PTL DEF Spec, MoveKeepsDocument

\* A scan that nothing disturbs leaves an index of exactly the files there are, whatever
\* earlier scans missed or failed at.  The conditions are those under which the code does
\* so: after an earlier scan has died, one may leave something out (VaultIngest_crash), and
\* after an earlier one could not hash a file, or missed one that came back, something in.
THEOREM CompleteScansIndexAll ==
  Spec => [](Steady /\ setting.crashes = 0 => CompleteScanIndexesAll)
  <1>1. SequenceInv => (Steady /\ setting.crashes = 0 => CompleteScanIndexesAll)
    <2> SUFFICES ASSUME SequenceInv, Steady, setting.crashes = 0, OneAtATime, NEW w \in Scanner,
                        pc[w] = "finishing", trouble[w] = {}, kind[w] # "measure"
                 PROVE
      /\ Present(states) = Present(files)
      /\ \A p \in Present(files) \ (IF kind[w] = "incremental" THEN silent ELSE {}) :
           /\ docs[states[p].doc] = [path |-> p, life |-> "active",
                                    version |-> files[p].content]
           /\ derived[states[p].doc][files[p].content] # None
      /\ \A d \in Doc : docs[d].life = "active" => \E p \in Present(files) : states[p].doc = d
      BY DEF CompleteScanIndexesAll
    <2>1. ScansAlone /\ SteadyInv /\ Follows(w) BY DEF SequenceInv, WholeInv
    <2>2. /\ \A p \in Path : /\ states[p].content = None <=> files[p].content = None
                             /\ Told(w, p) => states[p].content = files[p].content
          /\ \A p \in Present(states) : Indexed(p) \/ Scheduled(w, p)
      BY <2>1 DEF Follows
    <2>3. \A p \in Present(states) : Indexed(p)
      BY <2>1, <2>2 DEF ScansAlone, Scheduled
    <2>4. Present(states) = Present(files) BY <2>2 DEF Present
    <2>5. \A p \in Present(files) \ (IF kind[w] = "incremental" THEN silent ELSE {}) :
            p \in Path /\ Told(w, p)
      BY DEF Told, Present
    <2>6. \A d \in Doc : docs[d].life = "active" => \E p \in Present(files) : states[p].doc = d
      BY <2>1, <2>4 DEF SteadyInv, ActiveOwned
    <2> QED BY <2>2, <2>3, <2>4, <2>5, <2>6 DEF Indexed
  <1> QED BY <1>1, SequenceInvariance, PTL
=============================================================================
