------------------------ MODULE GraphProjection_proofs ------------------------
(***************************************************************************)
(* What TLAPS proves of GraphProjection, for any number of workers,        *)
(* queries, changes and failures: rows are well-typed and no run is tried  *)
(* more often than rebuilds began; the graph is of a started run; and,     *)
(* while no part of the canonical rows returns to what it was, a rebuild   *)
(* that was not overtaken leaves the graph that belongs to them.           *)
(***************************************************************************)
EXTENDS GraphProjection, FiniteSetTheorems, TLAPS

\* A worker that has a row of its run.
Started(w) == pc[w] \in {"starting", "replacing", "succeeding", "failing", "returned"}

\* Weaker than TypeOK: attempts and generations are not bounded.
RebuildTypes ==
  /\ current \in Snapshot /\ been \in [Part -> SUBSET Content]
  /\ DOMAIN runs = Snapshot
  /\ \A s \in Snapshot : runs[s].attempts \in Nat
  /\ graph \subseteq Snapshot
  /\ pc \in [Rebuilder -> {"idle", "reading", "preparing", "inserting", "starting",
                           "replacing", "succeeding", "failing", "returned"}]
  /\ DOMAIN read = Rebuilder /\ DOMAIN work = Rebuilder
  /\ overtaken \in [Rebuilder -> SUBSET {"rows", "graph"}]
  /\ crossed \in BOOLEAN

\* What a worker has read: nothing, so many parts, or a snapshot.
ReadsConsistent ==
  \A w \in Rebuilder :
    /\ pc[w] = "idle" => overtaken[w] = {}
    /\ pc[w] \in {"idle", "reading"} =>
         \E n \in 0 .. NumParts - 1 : read[w] \in [1 .. n -> Content]
    /\ pc[w] \in {"preparing", "inserting"} => read[w] \in Snapshot
    /\ Started(w) => read[w] \in Registered
    /\ pc[w] \in {"replacing", "succeeding", "failing"} =>
         runs[read[w]].status # "pending" /\ runs[read[w]].attempts > 0

\* A run that is not there, or not yet begun, has not been tried.
RunsConsistent ==
  \A s \in Snapshot : runs[s].status = "none" => runs[s].attempts = 0

AuditInv == RebuildTypes /\ ReadsConsistent /\ RunsConsistent /\ GraphIsAudited

LEMMA AuditInit == Init => AuditInv
  <1> SUFFICES ASSUME Init PROVE AuditInv OBVIOUS
  <1> USE DEF Init
  <1>1. RebuildTypes BY DEF RebuildTypes, NoRun, Snapshot
  <1>2. ReadsConsistent
    <2>1. NothingRead \in [1 .. 0 -> Content] BY DEF NothingRead
    <2>2. 0 \in 0 .. NumParts - 1 BY GraphAssumption
    <2> QED BY <2>1, <2>2 DEF ReadsConsistent, Started
  <1>3. RunsConsistent /\ GraphIsAudited BY DEF RunsConsistent, GraphIsAudited, NoRun
  <1> QED BY <1>1, <1>2, <1>3 DEF AuditInv

\* Reading one more part.
LEMMA OneMorePart ==
  ASSUME RebuildTypes, ReadsConsistent, NEW w \in Rebuilder, ReadPart(w)
  PROVE  \E n \in 0 .. NumParts - 1 :
           /\ read[w] \in [1 .. n -> Content] /\ read'[w] \in [1 .. n + 1 -> Content]
           /\ \A i \in 1 .. n : read'[w][i] = read[w][i]
           /\ read'[w][n + 1] = current[n + 1]
           /\ pc'[w] = IF n + 1 = NumParts THEN "preparing" ELSE "reading"
  <1>1. PICK n \in 0 .. NumParts - 1 : read[w] \in [1 .. n -> Content]
    BY DEF ReadPart, ReadsConsistent
  <1>2. n \in Nat /\ NumParts \in Nat BY GraphAssumption
  <1>3. DOMAIN read[w] = 1 .. n BY <1>1
  <1>4. Cardinality(1 .. n) = n BY <1>2, FS_Interval
  <1>5. n + 1 \in Part BY <1>2 DEF Part
  <1>6. current[n + 1] \in Content BY <1>5 DEF RebuildTypes, Snapshot
  <1> DEFINE longer == [i \in 1 .. n + 1 |-> IF i = n + 1 THEN current[n + 1] ELSE read[w][i]]
  <1>7. longer \in [1 .. n + 1 -> Content] BY <1>1, <1>2, <1>6
  <1>8. read'[w] = longer /\ pc'[w] = IF n + 1 = NumParts THEN "preparing" ELSE "reading"
    BY <1>3, <1>4 DEF ReadPart, Goto, RebuildTypes
  <1>9. \A i \in 1 .. n : read'[w][i] = read[w][i]
    BY <1>2, <1>8
  <1>10. read'[w][n + 1] = current[n + 1] BY <1>2, <1>8
  <1>11. read'[w] \in [1 .. n + 1 -> Content] BY <1>7, <1>8
  <1> QED BY <1>1, <1>8, <1>9, <1>10, <1>11

LEMMA AuditStep == AuditInv /\ [Next]_vars => AuditInv'
  <1> SUFFICES ASSUME AuditInv, [Next]_vars PROVE AuditInv' OBVIOUS
  <1> USE DEF AuditInv
  <1>1. CASE Change
    <2>1. RebuildTypes'
      BY <1>1 DEF Change, RebuildTypes, Overtake, rebuild, Snapshot
    <2>2. ReadsConsistent'
      BY <1>1 DEF Change, ReadsConsistent, RebuildTypes, Started, Registered, Overtake, rebuild
    <2> QED BY <1>1, <2>1, <2>2 DEF Change, RunsConsistent, GraphIsAudited
  <1>2. ASSUME NEW w \in Rebuilder, RebuildStep(w) PROVE AuditInv'
    <2> USE DEF RebuildTypes, ReadsConsistent, RunsConsistent, GraphIsAudited, Started, Registered,
                Goto, canonical, rebuild
    <2>e. ASSUME End(w), UNCHANGED <<canonical, runs, graph, crossed>> PROVE AuditInv'
      <3>1. NothingRead \in [1 .. 0 -> Content] /\ 0 \in 0 .. NumParts - 1
        BY GraphAssumption DEF NothingRead
      <3> QED BY <2>e, <3>1 DEF End
    <2>1. CASE Begin(w) BY <2>1 DEF Begin
    <2>2. CASE ReadPart(w)
      <3>1. PICK n \in 0 .. NumParts - 1 :
              /\ read'[w] \in [1 .. n + 1 -> Content]
              /\ pc'[w] = IF n + 1 = NumParts THEN "preparing" ELSE "reading"
        BY <2>2, OneMorePart
      <3>2. n + 1 # NumParts => n + 1 \in 0 .. NumParts - 1 BY GraphAssumption
      <3>3. n + 1 = NumParts => read'[w] \in Snapshot BY <3>1 DEF Snapshot, Part
      <3>4. \A v \in Rebuilder \ {w} : read'[v] = read[v] /\ pc'[v] = pc[v]
        BY <2>2 DEF ReadPart
      <3>5. RebuildTypes'
        <4>1. overtaken' = overtaken /\ runs' = runs /\ graph' = graph /\ work' = work
              /\ DOMAIN read' = Rebuilder
          BY <2>2 DEF ReadPart
        <4>2. pc' = pc \/ pc' = [pc EXCEPT ![w] = "preparing"] BY <2>2 DEF ReadPart
        <4> QED BY <2>2, <4>1, <4>2 DEF ReadPart
      <3>6. ReadsConsistent'
        <4>1. overtaken' = overtaken /\ runs' = runs BY <2>2 DEF ReadPart
        <4>2. \A v \in Rebuilder \ {w} : ReadsConsistent!(v)'
          BY <3>4, <4>1
        <4>3. ReadsConsistent!(w)'
          <5>1. CASE n + 1 = NumParts BY <5>1, <3>1, <3>3
          <5>2. CASE n + 1 # NumParts BY <5>2, <3>1, <3>2
          <5> QED BY <5>1, <5>2
        <4> QED BY <4>2, <4>3
      <3> QED BY <2>2, <3>5, <3>6 DEF ReadPart
    <2>3. CASE Prepare(w) BY <2>3 DEF Prepare
    <2>4. CASE Insert(w)
      <3>1. CASE read[w] \in Registered BY <2>4, <2>e, <3>1 DEF Insert
      <3>2. CASE read[w] \notin Registered
        <4>1. /\ read[w] \in Snapshot /\ runs[read[w]].status = "none"
              /\ runs[read[w]].attempts = 0
          BY <2>4, <3>2 DEF Insert
        <4> DEFINE fresh == [NoRun EXCEPT !.status = "pending", !.outbox = "pending",
                                          !.generation = work[w]]
        <4>7. fresh.status = "pending" /\ fresh.attempts = 0 BY Zenon DEF NoRun
        <4>8. runs' = [runs EXCEPT ![read[w]] = fresh] BY <2>4, <3>2, Zenon DEF Insert
        <4> HIDE DEF fresh
        <4>2. /\ DOMAIN runs' = Snapshot /\ runs'[read[w]].status = "pending"
              /\ runs'[read[w]].attempts = 0
              /\ \A s \in Snapshot \ {read[w]} : runs'[s] = runs[s]
          BY <4>1, <4>7, <4>8
        <4>3. /\ pc' = [pc EXCEPT ![w] = "starting"]
              /\ UNCHANGED <<canonical, graph, read, work, overtaken, crossed>>
          BY <2>4, <3>2, Zenon DEF Insert
        <4>4. RebuildTypes' BY <4>1, <4>2, <4>3
        <4>5. ReadsConsistent' BY <4>1, <4>2, <4>3
        <4>6. RunsConsistent' /\ GraphIsAudited' BY <4>1, <4>2, <4>3
        <4> QED BY <4>4, <4>5, <4>6
      <3> QED BY <3>1, <3>2
    <2>5. CASE MarkRunning(w) BY <2>5 DEF MarkRunning
    <2>6. CASE Replace(w) BY <2>6 DEF Replace, Overtake
    <2>7. CASE ReplaceFails(w) BY <2>7 DEF ReplaceFails, Overtake
    <2>8. CASE MarkSucceeded(w) BY <2>8 DEF MarkSucceeded
    <2>9. CASE MarkFailed(w)
      <3>1. NothingRead \in [1 .. 0 -> Content] /\ 0 \in 0 .. NumParts - 1
        BY GraphAssumption DEF NothingRead
      <3> QED BY <2>9, <3>1 DEF MarkFailed, End
    <2>10. CASE Return(w) BY <2>10, <2>e DEF Return
    <2>11. CASE Crash(w) BY <2>11, <2>e DEF Crash
    <2> QED BY <1>2, <2>1, <2>2, <2>3, <2>4, <2>5, <2>6, <2>7, <2>8, <2>9, <2>10, <2>11
          DEF RebuildStep
  <1>3. CASE UNCHANGED vars
    BY <1>3 DEF vars, canonical, rebuild, RebuildTypes, ReadsConsistent, RunsConsistent,
                GraphIsAudited, Started, Registered
  <1> QED BY <1>1, <1>2, <1>3 DEF Next

LEMMA AuditInvariant == Spec => []AuditInv
  BY AuditInit, AuditStep, PTL DEF Spec

\* Whatever workers, failures and crashes: what is in Neo4j, PostgreSQL has a run of that
\* was marked running first.
THEOREM GraphHasItsRun == Spec => []GraphIsAudited
  BY AuditInvariant, PTL DEF AuditInv

-----------------------------------------------------------------------------
(***************************************************************************)
(* A rebuild that was not overtaken leaves the graph of the rows there     *)
(* are.  A part that has changed holds what it never held, so what is      *)
(* registered or has been read cannot become current again.                *)
(***************************************************************************)

Agrees(w) == \A i \in DOMAIN read[w] : read[w][i] = current[i]

\* The snapshot has been written, and not been begun again.
Done(s) ==
  runs[s].status = "succeeded" \/ \E w \in Rebuilder : pc[w] = "succeeding" /\ read[w] = s

KnownHasBeen ==
  /\ \A i \in Part : current[i] \in been[i]
  /\ \A w \in Rebuilder : pc[w] = "idle" => DOMAIN read[w] = {}
  /\ \A w \in Rebuilder : \A i \in DOMAIN read[w] : i \in Part /\ read[w][i] \in been[i]
  /\ \A s \in Registered : \A i \in Part : s[i] \in been[i]

ReadsAgree == \A w \in Rebuilder : "rows" \notin overtaken[w] => Agrees(w)

\* Who began after the graph became current has read nothing else.
DoneIsThere ==
  ~crossed /\ Done(current) =>
    /\ graph = {current}
    /\ \A w \in Rebuilder : pc[w] # "idle" /\ "graph" \notin overtaken[w] => Agrees(w)

WrittenIsCurrent ==
  \A w \in Rebuilder :
    pc[w] \in {"succeeding", "returned"} /\ overtaken[w] = {} /\ ~crossed => graph = {current}

CurrentInv == AuditInv /\ KnownHasBeen /\ ReadsAgree /\ DoneIsThere /\ WrittenIsCurrent

LEMMA CurrentInit == Init => CurrentInv
  <1> SUFFICES ASSUME Init PROVE CurrentInv OBVIOUS
  <1>1. AuditInv BY AuditInit
  <1>2. DOMAIN NothingRead = {} BY DEF NothingRead
  <1>3. KnownHasBeen BY <1>2 DEF Init, KnownHasBeen, Registered, NoRun
  <1>4. ReadsAgree BY <1>2 DEF Init, ReadsAgree, Agrees
  <1>5. ~Done(current) BY DEF Init, Done, NoRun
  <1> QED BY <1>1, <1>3, <1>4, <1>5 DEF CurrentInv, DoneIsThere, WrittenIsCurrent, Init

\* A worker that has read all of the current rows has read the current snapshot.
LEMMA WholeIsCurrent ==
  ASSUME AuditInv, NEW w \in Rebuilder, pc[w] \notin {"idle", "reading"}, Agrees(w)
  PROVE  read[w] = current
  <1>1. read[w] \in [Part -> Content] /\ current \in [Part -> Content]
    BY DEF AuditInv, RebuildTypes, ReadsConsistent, Started, Registered, Snapshot
  <1>2. \A i \in Part : read[w][i] = current[i] BY <1>1 DEF Agrees
  <1> QED BY <1>1, <1>2

LEMMA ChangeIsNew ==
  ASSUME ~PartsReturn, CurrentInv, Change
  PROVE  ~Done(current)'
  <1> USE DEF CurrentInv, AuditInv, RebuildTypes
  <1>1. PICK part \in Part, c \in Content :
          c \notin been[part] /\ current' = [current EXCEPT ![part] = c]
    BY DEF Change
  <1>2. current'[part] \notin been[part] /\ current' \in Snapshot BY <1>1 DEF Snapshot
  <1>3. current' \notin Registered BY <1>1, <1>2 DEF KnownHasBeen
  <1>4. \A w \in Rebuilder : pc[w] = "succeeding" => read[w] # current'
    BY <1>2, <1>3 DEF ReadsConsistent, Started
  <1> QED BY <1>2, <1>3, <1>4 DEF Done, Change, rebuild, Registered

LEMMA CurrentStep == ~PartsReturn /\ CurrentInv /\ [Next]_vars => CurrentInv'
  <1> SUFFICES ASSUME ~PartsReturn, CurrentInv, [Next]_vars PROVE CurrentInv' OBVIOUS
  <1>a. AuditInv' BY AuditStep DEF CurrentInv
  <1>1. CASE Change
    <2>1. KnownHasBeen'
      BY <1>1 DEF Change, KnownHasBeen, CurrentInv, AuditInv, RebuildTypes, Snapshot, rebuild, Registered
    <2>2. ReadsAgree'
      <3>1. \A w \in Rebuilder : "rows" \notin overtaken'[w] => pc[w] = "idle"
        BY <1>1 DEF Change, Overtake
      <3> QED BY <1>1, <3>1 DEF Change, rebuild, ReadsAgree, Agrees, KnownHasBeen, CurrentInv
    <2>3. DoneIsThere' BY <1>1, ChangeIsNew DEF DoneIsThere
    <2>4. WrittenIsCurrent'
      <3>1. \A w \in Rebuilder : pc[w] # "idle" => overtaken'[w] # {}
        BY <1>1 DEF Change, Overtake
      <3> QED BY <1>1, <3>1 DEF WrittenIsCurrent, Change, rebuild
    <2> QED BY <1>a, <2>1, <2>2, <2>3, <2>4 DEF CurrentInv
  <1>2. ASSUME NEW w \in Rebuilder, RebuildStep(w) PROVE CurrentInv'
    <2> USE DEF CurrentInv, Goto, canonical, rebuild
    <2>t. RebuildTypes /\ ReadsConsistent BY DEF AuditInv
    <2> SUFFICES KnownHasBeen' /\ ReadsAgree' /\ DoneIsThere' /\ WrittenIsCurrent' BY <1>a
    <2>e. ASSUME End(w), UNCHANGED <<canonical, graph, crossed>>,
                 \A s \in Snapshot : /\ runs'[s].status = "succeeded" => runs[s].status = "succeeded"
                                     /\ runs'[s].status # "none" => runs[s].status # "none"
          PROVE  KnownHasBeen' /\ ReadsAgree' /\ DoneIsThere' /\ WrittenIsCurrent'
      <3>1. DOMAIN NothingRead = {} BY DEF NothingRead
      <3>2. /\ pc' = [pc EXCEPT ![w] = "idle"] /\ DOMAIN read'[w] = {}
            /\ \A v \in Rebuilder \ {w} : read'[v] = read[v] /\ overtaken'[v] = overtaken[v]
        BY <2>e, <2>t, <3>1 DEF End, RebuildTypes
      <3>r. \A v \in Rebuilder \ {w} : pc'[v] = pc[v] BY <3>2, <2>t DEF RebuildTypes
      <3>c. current \in Snapshot /\ current' = current /\ been' = been BY <2>e, <2>t DEF RebuildTypes
      <3>3. KnownHasBeen'
        <4>1. \A v \in Rebuilder : pc'[v] = "idle" => DOMAIN read'[v] = {}
          BY <3>2, <3>r DEF KnownHasBeen
        <4>2. \A v \in Rebuilder : \A i \in DOMAIN read'[v] : i \in Part /\ read'[v][i] \in been[i]
          BY <3>2 DEF KnownHasBeen
        <4>3. \A s \in Registered' : s \in Registered BY <2>e DEF Registered
        <4> QED BY <3>c, <4>1, <4>2, <4>3 DEF KnownHasBeen
      <3>4. ReadsAgree' BY <2>e, <2>t, <3>2 DEF ReadsAgree, Agrees, RebuildTypes
      <3>5. Done(current)' => Done(current)
        <4>1. \A v \in Rebuilder : pc'[v] = "succeeding" => pc[v] = "succeeding" /\ read'[v] = read[v]
          BY <2>t, <3>2, <3>r DEF RebuildTypes
        <4> QED BY <2>e, <3>c, <4>1 DEF Done
      <3>6. DoneIsThere' BY <2>e, <2>t, <3>2, <3>5 DEF DoneIsThere, Agrees, RebuildTypes
      <3>7. WrittenIsCurrent' BY <2>e, <2>t, <3>2 DEF WrittenIsCurrent, RebuildTypes
      <3> QED BY <3>3, <3>4, <3>6, <3>7
    <2>1. CASE Begin(w)
      BY <2>1, <2>t DEF Begin, KnownHasBeen, ReadsAgree, DoneIsThere, WrittenIsCurrent, Done, Agrees,
                  RebuildTypes, Registered
    <2>2. CASE ReadPart(w)
      <3>1. PICK n \in 0 .. NumParts - 1 :
              /\ read[w] \in [1 .. n -> Content] /\ read'[w] \in [1 .. n + 1 -> Content]
              /\ \A i \in 1 .. n : read'[w][i] = read[w][i]
              /\ read'[w][n + 1] = current[n + 1]
              /\ pc'[w] = IF n + 1 = NumParts THEN "preparing" ELSE "reading"
        BY <2>2, <2>t, OneMorePart
      <3>2. /\ UNCHANGED <<canonical, runs, graph, overtaken, crossed>> /\ pc[w] = "reading"
            /\ \A v \in Rebuilder \ {w} : read'[v] = read[v] /\ pc'[v] = pc[v]
        BY <2>2, <2>t DEF ReadPart, RebuildTypes
      <3>3. n + 1 \in Part /\ \A i \in 1 .. n + 1 : i \in 1 .. n \/ i = n + 1
        BY GraphAssumption DEF Part
      <3>4. DOMAIN read[w] = 1 .. n /\ DOMAIN read'[w] = 1 .. n + 1 BY <3>1
      <3>5. KnownHasBeen' BY <3>1, <3>2, <3>3, <3>4 DEF KnownHasBeen, Registered
      <3>6. Agrees(w) => Agrees(w)' BY <3>1, <3>2, <3>3, <3>4 DEF Agrees
      <3>7. \A v \in Rebuilder \ {w} : Agrees(v) => Agrees(v)' BY <3>2 DEF Agrees
      <3>8. ReadsAgree' BY <3>2, <3>6, <3>7 DEF ReadsAgree
      <3>9. Done(current)' => Done(current) BY <3>1, <3>2 DEF Done
      <3>10. DoneIsThere' BY <3>2, <3>6, <3>7, <3>9 DEF DoneIsThere
      <3>11. WrittenIsCurrent' BY <3>1, <3>2 DEF WrittenIsCurrent
      <3> QED BY <3>5, <3>8, <3>10, <3>11
    <2>3. CASE Prepare(w)
      <3>1. /\ UNCHANGED <<canonical, runs, graph, read, overtaken, crossed>>
            /\ pc[w] = "preparing"
            /\ \/ pc' = [pc EXCEPT ![w] = "starting"] \/ pc' = [pc EXCEPT ![w] = "inserting"]
               \/ pc' = [pc EXCEPT ![w] = "returned"] /\ runs[read[w]].status = "succeeded"
        BY <2>3 DEF Prepare, ShouldProject
      <3>2. KnownHasBeen' /\ ReadsAgree'
        BY <2>t, <3>1 DEF KnownHasBeen, ReadsAgree, Agrees, Registered, RebuildTypes
      <3>3. DoneIsThere' BY <2>t, <3>1 DEF DoneIsThere, Done, Agrees, RebuildTypes
      <3>4. runs[read[w]].status = "succeeded" /\ overtaken[w] = {} /\ ~crossed => graph = {current}
        BY <3>1, WholeIsCurrent DEF ReadsAgree, DoneIsThere, Done
      <3>5. WrittenIsCurrent' BY <2>t, <3>1, <3>4 DEF WrittenIsCurrent, RebuildTypes
      <3> QED BY <3>2, <3>3, <3>5
    <2>4. CASE Insert(w)
      <3>1. CASE read[w] \in Registered BY <2>4, <2>e, <3>1 DEF Insert
      <3>2. CASE read[w] \notin Registered
        <4> DEFINE fresh == [NoRun EXCEPT !.status = "pending", !.outbox = "pending",
                                          !.generation = work[w]]
        <4>1. fresh.status = "pending" BY Zenon DEF NoRun
        <4>2. runs' = [runs EXCEPT ![read[w]] = fresh] BY <2>4, <3>2, Zenon DEF Insert
        <4> HIDE DEF fresh
        <4>3. /\ pc[w] = "inserting" /\ pc' = [pc EXCEPT ![w] = "starting"]
              /\ UNCHANGED <<canonical, graph, read, overtaken, crossed>>
          BY <2>4, <3>2, Zenon DEF Insert
        <4>4. read[w] \in Snapshot BY <2>t, <4>3 DEF ReadsConsistent
        <4>5. \A s \in Snapshot : runs'[s].status = IF s = read[w] THEN "pending" ELSE runs[s].status
          BY <2>t, <4>1, <4>2 DEF RebuildTypes
        <4>6. KnownHasBeen' BY <2>t, <4>3, <4>4, <4>5 DEF KnownHasBeen, Registered, RebuildTypes, Snapshot
        <4>7. ReadsAgree' BY <4>3 DEF ReadsAgree, Agrees
        <4>8. Done(current)' => Done(current) BY <2>t, <4>3, <4>5 DEF Done, RebuildTypes
        <4>9. DoneIsThere' BY <2>t, <4>3, <4>8 DEF DoneIsThere, Agrees, RebuildTypes
        <4>10. WrittenIsCurrent' BY <2>t, <4>3 DEF WrittenIsCurrent, RebuildTypes
        <4> QED BY <4>6, <4>7, <4>9, <4>10
      <3> QED BY <3>1, <3>2
    <2>5. CASE MarkRunning(w)
      <3>1. /\ UNCHANGED <<canonical, graph, read, overtaken, crossed>>
            /\ pc[w] = "starting" /\ pc' = [pc EXCEPT ![w] = "replacing"]
            /\ read[w] \in Registered
            /\ \A s \in Snapshot : runs'[s].status = IF s = read[w] THEN "running" ELSE runs[s].status
        BY <2>5, <2>t DEF MarkRunning, RebuildTypes, ReadsConsistent, Started
      <3>2. KnownHasBeen' BY <2>t, <3>1 DEF KnownHasBeen, Registered, RebuildTypes
      <3>3. ReadsAgree' BY <3>1 DEF ReadsAgree, Agrees
      <3>4. Done(current)' => Done(current) BY <2>t, <3>1 DEF Done, RebuildTypes
      <3>5. DoneIsThere' BY <2>t, <3>1, <3>4 DEF DoneIsThere, Agrees, RebuildTypes
      <3>6. WrittenIsCurrent' BY <2>t, <3>1 DEF WrittenIsCurrent, RebuildTypes
      <3> QED BY <3>2, <3>3, <3>5, <3>6
    <2>o. ASSUME pc[w] = "replacing", Overtake(Rebuilder \ {w}, "graph")
          PROVE  \A v \in Rebuilder : /\ overtaken'[v] = {} => overtaken[v] = {}
                                      /\ "rows" \notin overtaken'[v] => "rows" \notin overtaken[v]
                                      /\ v # w /\ pc[v] # "idle" => "graph" \in overtaken'[v]
      BY <2>o, <2>t DEF Overtake, RebuildTypes
    <2>6. CASE Replace(w)
      <3>1. /\ UNCHANGED <<canonical, runs, read>> /\ graph' = {read[w]}
            /\ pc[w] = "replacing" /\ pc' = [pc EXCEPT ![w] = "succeeding"]
            /\ overtaken'[w] = overtaken[w]
            /\ crossed' = (crossed \/ "graph" \in overtaken[w])
        BY <2>6, <2>t DEF Replace, Overtake, RebuildTypes
      <3>2. \A v \in Rebuilder : /\ overtaken'[v] = {} => overtaken[v] = {}
                                 /\ "rows" \notin overtaken'[v] => "rows" \notin overtaken[v]
                                 /\ v # w /\ pc[v] # "idle" => "graph" \in overtaken'[v]
        BY <2>6, <2>o DEF Replace
      <3>3. KnownHasBeen' BY <2>t, <3>1 DEF KnownHasBeen, Registered, RebuildTypes
      <3>4. ReadsAgree' BY <3>1, <3>2 DEF ReadsAgree, Agrees
      <3>5. ~crossed' /\ Done(current)' => read[w] = current
        BY <2>t, <3>1, WholeIsCurrent DEF Done, DoneIsThere, RebuildTypes
      <3>6. DoneIsThere' BY <2>t, <3>1, <3>2, <3>5 DEF DoneIsThere, Agrees, RebuildTypes
      <3>7. overtaken[w] = {} => read[w] = current BY <3>1, WholeIsCurrent DEF ReadsAgree
      <3>8. WrittenIsCurrent' BY <2>t, <3>1, <3>2, <3>7 DEF WrittenIsCurrent, RebuildTypes
      <3> QED BY <3>3, <3>4, <3>6, <3>8
    <2>7. CASE ReplaceFails(w)
      <3>1. /\ UNCHANGED <<canonical, runs, read>> /\ graph' \in {graph, {read[w]}}
            /\ pc[w] = "replacing" /\ pc' = [pc EXCEPT ![w] = "failing"]
            /\ overtaken'[w] = overtaken[w]
            /\ crossed' = (crossed \/ "graph" \in overtaken[w])
        BY <2>7, <2>t DEF ReplaceFails, Overtake, RebuildTypes
      <3>2. \A v \in Rebuilder : /\ overtaken'[v] = {} => overtaken[v] = {}
                                 /\ "rows" \notin overtaken'[v] => "rows" \notin overtaken[v]
                                 /\ v # w /\ pc[v] # "idle" => "graph" \in overtaken'[v]
        BY <2>7, <2>o DEF ReplaceFails
      <3>3. KnownHasBeen' BY <2>t, <3>1 DEF KnownHasBeen, Registered, RebuildTypes
      <3>4. ReadsAgree' BY <3>1, <3>2 DEF ReadsAgree, Agrees
      <3>5. ~crossed' /\ Done(current)' => read[w] = current /\ graph = {current}
        BY <2>t, <3>1, WholeIsCurrent DEF Done, DoneIsThere, RebuildTypes
      <3>6. DoneIsThere' BY <2>t, <3>1, <3>2, <3>5 DEF DoneIsThere, Agrees, RebuildTypes
      <3>7. \A v \in Rebuilder : pc'[v] \in {"succeeding", "returned"} => overtaken'[v] # {}
        BY <2>t, <3>1, <3>2 DEF RebuildTypes
      <3>8. WrittenIsCurrent' BY <3>7 DEF WrittenIsCurrent
      <3> QED BY <3>3, <3>4, <3>6, <3>8
    <2>8. CASE MarkSucceeded(w)
      <3>1. /\ UNCHANGED <<canonical, graph, read, overtaken, crossed>>
            /\ pc[w] = "succeeding" /\ pc' = [pc EXCEPT ![w] = "returned"]
            /\ read[w] \in Registered
            /\ \A s \in Snapshot : runs'[s].status = IF s = read[w] THEN "succeeded" ELSE runs[s].status
        BY <2>8, <2>t DEF MarkSucceeded, RebuildTypes, ReadsConsistent, Started
      <3>2. KnownHasBeen' BY <2>t, <3>1 DEF KnownHasBeen, Registered, RebuildTypes
      <3>3. ReadsAgree' BY <3>1 DEF ReadsAgree, Agrees
      <3>4. Done(current)' => Done(current) BY <2>t, <3>1 DEF Done, RebuildTypes
      <3>5. DoneIsThere' BY <2>t, <3>1, <3>4 DEF DoneIsThere, Agrees, RebuildTypes
      <3>6. WrittenIsCurrent' BY <2>t, <3>1 DEF WrittenIsCurrent, RebuildTypes
      <3> QED BY <3>2, <3>3, <3>5, <3>6
    <2>9. CASE MarkFailed(w)
      <3>1. \A s \in Snapshot : /\ runs'[s].status = "succeeded" => runs[s].status = "succeeded"
                                /\ runs'[s].status # "none" => runs[s].status # "none"
        BY <2>9, <2>t DEF MarkFailed, RebuildTypes, ReadsConsistent, Started, Registered
      <3> QED BY <2>9, <2>e, <3>1 DEF MarkFailed
    <2>10. CASE Return(w) BY <2>10, <2>e DEF Return
    <2>11. CASE Crash(w) BY <2>11, <2>e DEF Crash
    <2> QED BY <1>2, <2>1, <2>2, <2>3, <2>4, <2>5, <2>6, <2>7, <2>8, <2>9, <2>10, <2>11
          DEF RebuildStep
  <1>3. CASE UNCHANGED vars
    BY <1>a, <1>3 DEF vars, canonical, rebuild, CurrentInv, KnownHasBeen, ReadsAgree, DoneIsThere,
                      WrittenIsCurrent, Done, Agrees, Registered
  <1> QED BY <1>1, <1>2, <1>3 DEF Next

\* While rows do not return to what they were: whatever number of workers rebuild, fail
\* and die, a rebuild that returns and was not overtaken leaves the graph of the rows
\* there are, unless rebuilds have crossed before.
THEOREM RebuildIsCurrent ==
  ASSUME ~PartsReturn
  PROVE  Spec => []CompleteRebuildIsCurrent
  <1>1. CurrentInv /\ [Next]_vars => CurrentInv' BY CurrentStep
  <1>2. CurrentInv => CompleteRebuildIsCurrent
    BY DEF CurrentInv, WrittenIsCurrent, CompleteRebuildIsCurrent
  <1> QED BY CurrentInit, <1>1, <1>2, PTL DEF Spec
-----------------------------------------------------------------------------
(***************************************************************************)
(* Types.  Attempts and generations are bounded only because each takes a  *)
(* rebuild that began: a run has been tried as often as rebuilds began,    *)
(* but for those that are still to try, and generations are counted the    *)
(* same way.                                                               *)
(***************************************************************************)

\* Rebuilds that have not taken a generation yet, and those that have not tried a run.
Unprepared == {w \in Rebuilder : pc[w] \in {"reading", "preparing"}}
Untried == {w \in Rebuilder : pc[w] \in {"reading", "preparing", "inserting", "starting"}}

RunOfAnyCount ==
  [status : {"none", "pending", "running", "succeeded", "failed"},
   outbox : {"none", "pending", "processing", "succeeded", "failed"},
   attempts : Nat, generation : Nat]

RowsTyped ==
  /\ runs \in [Snapshot -> RunOfAnyCount] /\ work \in [Rebuilder -> Nat]
  /\ read \in [Rebuilder -> Prefix]
  /\ graph = {} \/ \E s \in Snapshot : graph = {s}
  /\ changes \in 0 .. MaxChanges /\ rebuilds \in 0 .. MaxRebuilds
  /\ failures \in 0 .. MaxFailures

RebuildsCounted ==
  /\ IsFiniteSet(Unprepared) /\ IsFiniteSet(Untried)
  /\ \A s \in Snapshot : /\ runs[s].attempts + Cardinality(Untried) <= rebuilds
                         /\ runs[s].generation + Cardinality(Unprepared) <= rebuilds
  /\ \A w \in Rebuilder : work[w] + Cardinality(Unprepared) <= rebuilds

\* There is a last generation.
GenerationsEnd ==
  \E g \in {0} \cup {runs[s].generation : s \in Registered} :
    \A s \in Registered : runs[s].generation <= g

CountInv == AuditInv /\ RowsTyped /\ RebuildsCounted /\ GenerationsEnd

LEMMA Fewer ==
  ASSUME NEW U, IsFiniteSet(U), NEW V \in SUBSET U
  PROVE  /\ IsFiniteSet(V) /\ Cardinality(V) \in Nat /\ Cardinality(U) \in Nat
         /\ Cardinality(V) <= Cardinality(U)
  BY FS_Subset, FS_CardinalityType

LEMMA OneFewer ==
  ASSUME NEW U, IsFiniteSet(U), NEW w \in U
  PROVE  /\ IsFiniteSet(U \ {w}) /\ Cardinality(U) \in Nat
         /\ Cardinality(U \ {w}) + 1 = Cardinality(U)
  <1>1. IsFiniteSet(U \ {w}) /\ Cardinality(U \ {w}) = Cardinality(U) - 1
    BY FS_RemoveElement
  <1>2. Cardinality(U) \in Nat /\ Cardinality(U \ {w}) \in Nat
    BY <1>1, FS_CardinalityType
  <1> QED BY <1>1, <1>2

LEMMA OneMore ==
  ASSUME NEW U, IsFiniteSet(U), NEW w, w \notin U
  PROVE  /\ IsFiniteSet(U \cup {w}) /\ Cardinality(U) \in Nat
         /\ Cardinality(U \cup {w}) = Cardinality(U) + 1
  BY FS_AddElement, FS_CardinalityType

LEMMA PrefixIs ==
  ASSUME NEW n \in 0 .. NumParts, NEW f \in [1 .. n -> Content]
  PROVE  f \in Prefix
  BY DEF Prefix

LEMMA CountInit == Init => CountInv
  <1> SUFFICES ASSUME Init PROVE CountInv OBVIOUS
  <1> USE DEF Init
  <1>1. RowsTyped
    <2>1. NothingRead \in [1 .. 0 -> Content] BY DEF NothingRead
    <2>2. 0 \in 0 .. NumParts BY GraphAssumption
    <2>4. NothingRead \in Prefix BY <2>1, <2>2, PrefixIs
    <2>3. NoRun \in RunOfAnyCount BY DEF NoRun, RunOfAnyCount
    <2> QED BY <2>3, <2>4, GraphAssumption DEF RowsTyped
  <1>2. Unprepared = {} /\ Untried = {} BY DEF Unprepared, Untried
  <1>3. RebuildsCounted BY <1>2, FS_EmptySet DEF RebuildsCounted, NoRun
  <1>4. GenerationsEnd BY DEF GenerationsEnd, Registered, NoRun
  <1> QED BY <1>1, <1>3, <1>4, AuditInit DEF CountInv

\* A step that leaves counts alone keeps them.
LEMMA CountsKept ==
  ASSUME RebuildsCounted, RowsTyped, RowsTyped', rebuilds' = rebuilds,
         Unprepared' \subseteq Unprepared, Untried' \subseteq Untried,
         \A w \in Rebuilder : work'[w] \in {work[w], 0},
         \A s \in Snapshot : /\ runs'[s].attempts = runs[s].attempts
                             /\ runs'[s].generation = runs[s].generation
  PROVE  RebuildsCounted'
  <1>1. /\ IsFiniteSet(Unprepared') /\ Cardinality(Unprepared') \in Nat
        /\ Cardinality(Unprepared) \in Nat /\ Cardinality(Unprepared') <= Cardinality(Unprepared)
        /\ IsFiniteSet(Untried') /\ Cardinality(Untried') \in Nat
        /\ Cardinality(Untried) \in Nat /\ Cardinality(Untried') <= Cardinality(Untried)
    BY Fewer DEF RebuildsCounted
  <1>2. rebuilds \in Nat BY DEF RowsTyped
  <1>3. ASSUME NEW s \in Snapshot
        PROVE  /\ runs'[s].attempts + Cardinality(Untried') <= rebuilds'
               /\ runs'[s].generation + Cardinality(Unprepared') <= rebuilds'
    <2>1. runs[s].attempts \in Nat /\ runs[s].generation \in Nat
      BY DEF RowsTyped, RunOfAnyCount
    <2> QED BY <1>1, <1>2, <2>1 DEF RebuildsCounted
  <1>4. ASSUME NEW w \in Rebuilder PROVE work'[w] + Cardinality(Unprepared') <= rebuilds'
    <2>1. work[w] \in Nat BY DEF RowsTyped
    <2> QED BY <1>1, <1>2, <2>1 DEF RebuildsCounted
  <1> QED BY <1>1, <1>3, <1>4 DEF RebuildsCounted

\* ... and while no run is registered, so do generations end.
LEMMA GenerationsKept ==
  ASSUME GenerationsEnd, Registered' = Registered,
         \A s \in Registered : runs'[s].generation = runs[s].generation
  PROVE  GenerationsEnd'
  BY DEF GenerationsEnd

LEMMA LastGenerationIs ==
  ASSUME GenerationsEnd
  PROVE  /\ LastGeneration \in {0} \cup {runs[s].generation : s \in Registered}
         /\ \A s \in Registered : runs[s].generation <= LastGeneration
  BY DEF GenerationsEnd, LastGeneration

LEMMA CountStep == CountInv /\ [Next]_vars => CountInv'
  <1> SUFFICES ASSUME CountInv, [Next]_vars PROVE CountInv' OBVIOUS
  <1> USE DEF CountInv
  <1>a. AuditInv' BY AuditStep
  <1>t. RebuildTypes /\ ReadsConsistent BY DEF AuditInv
  <1>1. CASE Change
    <2>1. /\ UNCHANGED <<runs, graph, pc, read, work, rebuilds, failures>>
          /\ changes < MaxChanges /\ changes' = changes + 1
      BY <1>1 DEF Change, rebuild
    <2>2. RowsTyped' BY <2>1, GraphAssumption DEF RowsTyped
    <2>3. Unprepared' = Unprepared /\ Untried' = Untried /\ Registered' = Registered
      BY <2>1 DEF Unprepared, Untried, Registered
    <2>4. RebuildsCounted' BY <2>1, <2>2, <2>3, CountsKept
    <2>5. GenerationsEnd' BY <2>1, <2>3, GenerationsKept
    <2> QED BY <1>a, <2>2, <2>4, <2>5
  <1>2. ASSUME NEW w \in Rebuilder, RebuildStep(w) PROVE CountInv'
    <2>g. ASSUME UNCHANGED rebuilds, RowsTyped',
                 \A v \in Rebuilder \ {w} : pc'[v] = pc[v],
                 w \in Unprepared' => w \in Unprepared, w \in Untried' => w \in Untried,
                 \A v \in Rebuilder : work'[v] \in {work[v], 0},
                 \A s \in Snapshot : /\ runs'[s].attempts = runs[s].attempts
                                     /\ runs'[s].generation = runs[s].generation
                                     /\ runs'[s].status = "none" <=> runs[s].status = "none"
          PROVE  CountInv'
      <3>1. Unprepared' \subseteq Unprepared /\ Untried' \subseteq Untried
        BY <2>g DEF Unprepared, Untried
      <3>2. Registered' = Registered BY <2>g DEF Registered
      <3>3. RebuildsCounted' BY <2>g, <3>1, CountsKept
      <3>4. GenerationsEnd' BY <2>g, <3>2, GenerationsKept DEF Registered
      <3> QED BY <1>a, <2>g, <3>3, <3>4
    <2>p. \A v \in Rebuilder \ {w} : pc'[v] = pc[v]
      BY <1>2, <1>t DEF RebuildStep, Begin, ReadPart, Prepare, Insert, MarkRunning, Replace,
         ReplaceFails, MarkSucceeded, MarkFailed, Return, Crash, End, Goto, RebuildTypes
    <2>n. NothingRead \in Prefix
      <3>1. NothingRead \in [1 .. 0 -> Content] /\ 0 \in 0 .. NumParts
        BY GraphAssumption DEF NothingRead
      <3> QED BY <3>1, PrefixIs
    <2>e. ASSUME End(w), UNCHANGED <<changes, rebuilds, graph>>,
                 failures' \in 0 .. MaxFailures,
                 runs' \in [Snapshot -> RunOfAnyCount],
                 \A s \in Snapshot : /\ runs'[s].attempts = runs[s].attempts
                                     /\ runs'[s].generation = runs[s].generation
                                     /\ runs'[s].status = "none" <=> runs[s].status = "none"
          PROVE  CountInv'
      <3>1. RowsTyped' BY <2>e, <2>n DEF RowsTyped, End
      <3>2. pc'[w] = "idle" BY <2>e, <1>t DEF End, Goto, RebuildTypes
      <3>3. \A v \in Rebuilder : work'[v] \in {work[v], 0} BY <2>e DEF End, RowsTyped
      <3> QED BY <2>g, <2>e, <2>p, <3>1, <3>2, <3>3 DEF Unprepared, Untried
    <2>1. CASE Begin(w)
      <3>1. /\ pc[w] = "idle" /\ pc'[w] = "reading" /\ rebuilds < MaxRebuilds
            /\ rebuilds' = rebuilds + 1 /\ UNCHANGED <<changes, runs, graph, read, work, failures>>
        BY <2>1, <1>t DEF Begin, Goto, RebuildTypes, canonical
      <3>2. RowsTyped' BY <3>1, GraphAssumption DEF RowsTyped
      <3>3. /\ Unprepared' = Unprepared \cup {w} /\ w \notin Unprepared
            /\ Untried' = Untried \cup {w} /\ w \notin Untried
        BY <2>p, <3>1 DEF Unprepared, Untried
      <3>4. /\ IsFiniteSet(Unprepared') /\ Cardinality(Unprepared) \in Nat
            /\ Cardinality(Unprepared') = Cardinality(Unprepared) + 1
            /\ IsFiniteSet(Untried') /\ Cardinality(Untried) \in Nat
            /\ Cardinality(Untried') = Cardinality(Untried) + 1
        BY <3>3, OneMore DEF RebuildsCounted
      <3>5. ASSUME NEW n \in Nat, NEW c \in Nat, n + c <= rebuilds PROVE n + (c + 1) <= rebuilds'
        BY <3>1, <3>5 DEF RowsTyped
      <3>6. RebuildsCounted'
        <4>1. \A s \in Snapshot : runs[s].attempts \in Nat /\ runs[s].generation \in Nat
          BY DEF RowsTyped, RunOfAnyCount
        <4>2. \A v \in Rebuilder : work[v] \in Nat BY DEF RowsTyped
        <4> QED BY <3>1, <3>4, <3>5, <4>1, <4>2 DEF RebuildsCounted
      <3>7. GenerationsEnd' BY <3>1, GenerationsKept DEF Registered
      <3> QED BY <1>a, <3>2, <3>6, <3>7
    <2>2. CASE ReadPart(w)
      <3>1. PICK n \in 0 .. NumParts - 1 :
              /\ read'[w] \in [1 .. n + 1 -> Content]
              /\ pc'[w] = IF n + 1 = NumParts THEN "preparing" ELSE "reading"
        BY <2>2, <1>t, OneMorePart
      <3>2. /\ pc[w] = "reading" /\ \A v \in Rebuilder \ {w} : read'[v] = read[v]
            /\ DOMAIN read' = Rebuilder
            /\ UNCHANGED <<changes, runs, graph, work, rebuilds, failures>>
        BY <2>2, <1>t DEF ReadPart, RebuildTypes, canonical
      <3>3. n + 1 \in 0 .. NumParts BY GraphAssumption
      <3>4. read'[w] \in Prefix BY <3>1, <3>3, PrefixIs
      <3>5. read' \in [Rebuilder -> Prefix]
        <4>1. read' = [v \in Rebuilder |-> read'[v]] BY <2>2, <1>t DEF ReadPart, RebuildTypes
        <4>2. \A v \in Rebuilder : read'[v] \in Prefix BY <3>2, <3>4 DEF RowsTyped
        <4> QED BY <4>1, <4>2
      <3>6. RowsTyped' BY <3>2, <3>5 DEF RowsTyped
      <3> QED BY <2>g, <2>p, <3>2, <3>6 DEF Unprepared, Untried
    <2>3. CASE Prepare(w)
      <3>1. /\ pc[w] = "preparing" /\ pc'[w] \in {"starting", "returned", "inserting"}
            /\ work' = work \/ work' = [work EXCEPT ![w] = LastGeneration + 1]
            /\ UNCHANGED <<changes, runs, graph, read, rebuilds, failures>>
        BY <2>3, <1>t DEF Prepare, Goto, RebuildTypes, canonical
      <3>2. LastGeneration \in Nat
            /\ (LastGeneration = 0 \/ \E s \in Snapshot : LastGeneration = runs[s].generation)
        <4>1. \A s \in Snapshot : runs[s].generation \in Nat BY DEF RowsTyped, RunOfAnyCount
        <4> QED BY <4>1, LastGenerationIs DEF Registered
      <3>3. RowsTyped' BY <3>1, <3>2 DEF RowsTyped
      <3>4. Unprepared' = Unprepared \ {w} /\ w \in Unprepared /\ Untried' \subseteq Untried
        BY <2>p, <3>1 DEF Unprepared, Untried
      <3>5. /\ IsFiniteSet(Unprepared') /\ Cardinality(Unprepared) \in Nat
            /\ Cardinality(Unprepared') \in Nat
            /\ Cardinality(Unprepared') + 1 = Cardinality(Unprepared)
            /\ IsFiniteSet(Untried') /\ Cardinality(Untried') \in Nat
            /\ Cardinality(Untried) \in Nat /\ Cardinality(Untried') <= Cardinality(Untried)
        BY <3>4, OneFewer, Fewer, FS_CardinalityType DEF RebuildsCounted
      <3>6. LastGeneration + Cardinality(Unprepared) <= rebuilds
        <4>1. CASE \E s \in Snapshot : LastGeneration = runs[s].generation
          BY <4>1 DEF RebuildsCounted
        <4>2. CASE LastGeneration = 0
          <5>1. work[w] \in Nat /\ work[w] + Cardinality(Unprepared) <= rebuilds
            BY DEF RebuildsCounted, RowsTyped
          <5> QED BY <3>5, <4>2, <5>1 DEF RowsTyped
        <4> QED BY <3>2, <4>1, <4>2
      <3>7. ASSUME NEW v \in Rebuilder PROVE work'[v] + Cardinality(Unprepared') <= rebuilds
        <4>1. work[v] \in Nat /\ work[v] + Cardinality(Unprepared) <= rebuilds
          BY DEF RebuildsCounted, RowsTyped
        <4>2. work'[v] \in {work[v], LastGeneration + 1} BY <3>1 DEF RowsTyped
        <4> QED BY <3>2, <3>5, <3>6, <4>1, <4>2 DEF RowsTyped
      <3>8. ASSUME NEW s \in Snapshot
            PROVE  /\ runs[s].attempts + Cardinality(Untried') <= rebuilds
                   /\ runs[s].generation + Cardinality(Unprepared') <= rebuilds
        <4>1. /\ runs[s].attempts \in Nat /\ runs[s].generation \in Nat
              /\ runs[s].attempts + Cardinality(Untried) <= rebuilds
              /\ runs[s].generation + Cardinality(Unprepared) <= rebuilds
          BY DEF RebuildsCounted, RowsTyped, RunOfAnyCount
        <4> QED BY <3>5, <4>1 DEF RowsTyped
      <3>9. RebuildsCounted' BY <3>1, <3>5, <3>7, <3>8 DEF RebuildsCounted
      <3>10. GenerationsEnd' BY <3>1, GenerationsKept DEF Registered
      <3> QED BY <1>a, <3>3, <3>9, <3>10
    <2>4. CASE Insert(w)
      <3>1. CASE read[w] \in Registered
        BY <2>4, <2>e, <3>1 DEF Insert, canonical, RowsTyped
      <3>2. CASE read[w] \notin Registered
        <4> DEFINE fresh == [NoRun EXCEPT !.status = "pending", !.outbox = "pending",
                                          !.generation = work[w]]
        <4>0. NoRun \in RunOfAnyCount /\ NoRun.attempts = 0 BY DEF NoRun, RunOfAnyCount
        <4>2. work[w] \in Nat BY DEF RowsTyped
        <4>3. /\ fresh \in RunOfAnyCount /\ fresh.status # "none" /\ fresh.attempts = 0
              /\ fresh.generation = work[w]
          BY <4>0, <4>2 DEF RunOfAnyCount
        <4>i. Insert(w) => /\ pc[w] = "inserting" /\ Goto(w, "starting")
                           /\ runs' = [runs EXCEPT ![read[w]] = fresh]
                           /\ UNCHANGED <<changes, graph, read, work, rebuilds, failures>>
          BY <3>2 DEF Insert, canonical
        <4> HIDE DEF fresh
        <4>r. read[w] \in Snapshot BY <2>4, <1>t DEF ReadsConsistent, Insert
        <4>1. /\ pc[w] = "inserting" /\ pc'[w] = "starting" /\ read[w] \in Snapshot
              /\ runs' = [runs EXCEPT ![read[w]] = fresh]
              /\ UNCHANGED <<changes, graph, read, work, rebuilds, failures>>
          BY <2>4, <1>t, <4>i, <4>r DEF Goto, RebuildTypes
        <4>4. RowsTyped' BY <4>1, <4>3 DEF RowsTyped
        <4>5. Unprepared' = Unprepared /\ Untried' = Untried
          BY <2>p, <4>1 DEF Unprepared, Untried
        <4>6. \A s \in Snapshot : runs'[s] = IF s = read[w] THEN fresh ELSE runs[s]
          BY <4>1 DEF RowsTyped
        <4>7. RebuildsCounted'
          <5>1. 0 + Cardinality(Untried) <= rebuilds
            <6>1. /\ runs[read[w]].attempts \in Nat
                  /\ runs[read[w]].attempts + Cardinality(Untried) <= rebuilds
              BY <4>1 DEF RebuildsCounted, RowsTyped, RunOfAnyCount
            <6>2. Cardinality(Untried) \in Nat BY FS_CardinalityType DEF RebuildsCounted
            <6> QED BY <6>1, <6>2 DEF RowsTyped
          <5> QED BY <4>1, <4>3, <4>5, <4>6, <5>1 DEF RebuildsCounted
        <4>8. Registered' = Registered \cup {read[w]}
          BY <4>1, <4>3, <4>6 DEF Registered
        <4>9. GenerationsEnd'
          <5>1. PICK g \in {0} \cup {runs[s].generation : s \in Registered} :
                  \A s \in Registered : runs[s].generation <= g
            BY DEF GenerationsEnd
          <5>2. g \in Nat /\ \A s \in Registered : runs[s].generation \in Nat
            BY DEF RowsTyped, RunOfAnyCount, Registered
          <5>3. \A s \in Registered : runs'[s].generation = runs[s].generation
            BY <3>2, <4>6 DEF Registered
          <5>4. runs'[read[w]].generation = work[w] BY <4>1, <4>3, <4>6
          <5>5. CASE g <= work[w]
            <6>1. \A s \in Registered' : runs'[s].generation <= work[w]
              BY <4>2, <4>8, <5>1, <5>2, <5>3, <5>4, <5>5
            <6> QED BY <4>8, <5>4, <6>1 DEF GenerationsEnd
          <5>6. CASE ~ (g <= work[w])
            <6>1. \A s \in Registered' : runs'[s].generation <= g
              BY <4>2, <4>8, <5>1, <5>2, <5>3, <5>4, <5>6
            <6>2. g \in {0} \cup {runs'[s].generation : s \in Registered'}
              BY <4>8, <5>1, <5>3
            <6> QED BY <6>1, <6>2 DEF GenerationsEnd
          <5> QED BY <5>5, <5>6
        <4> QED BY <1>a, <4>4, <4>7, <4>9
      <3> QED BY <3>1, <3>2
    <2>5. CASE MarkRunning(w)
      <3>1. /\ pc[w] = "starting" /\ pc'[w] = "replacing" /\ read[w] \in Registered
            /\ runs' = [runs EXCEPT ![read[w]].status = "running",
                                    ![read[w]].outbox = "processing",
                                    ![read[w]].attempts = @ + 1]
            /\ UNCHANGED <<changes, graph, read, work, rebuilds, failures>>
        BY <2>5, <1>t DEF MarkRunning, Goto, RebuildTypes, ReadsConsistent, Started, canonical
      <3>2. /\ read[w] \in Snapshot
            /\ \A s \in Snapshot \ {read[w]} : runs'[s] = runs[s]
            /\ runs'[read[w]].status = "running"
            /\ runs'[read[w]].attempts = runs[read[w]].attempts + 1
            /\ runs'[read[w]].generation = runs[read[w]].generation
        BY <3>1 DEF Registered, RowsTyped, RunOfAnyCount
      <3>3. RowsTyped'
        <4>2. runs' \in [Snapshot -> RunOfAnyCount]
          BY <3>1 DEF Registered, RowsTyped, RunOfAnyCount
        <4> QED BY <3>1, <4>2 DEF RowsTyped
      <3>4. Unprepared' = Unprepared /\ Untried' = Untried \ {w} /\ w \in Untried
        BY <2>p, <3>1 DEF Unprepared, Untried
      <3>5. /\ IsFiniteSet(Untried') /\ Cardinality(Untried) \in Nat /\ Cardinality(Untried') \in Nat
            /\ Cardinality(Untried') + 1 = Cardinality(Untried)
        BY <3>4, OneFewer, FS_CardinalityType DEF RebuildsCounted
      <3>6. ASSUME NEW s \in Snapshot PROVE runs'[s].attempts + Cardinality(Untried') <= rebuilds
        <4>1. /\ runs[s].attempts \in Nat /\ runs[s].attempts + Cardinality(Untried) <= rebuilds
          BY DEF RebuildsCounted, RowsTyped, RunOfAnyCount
        <4>2. runs'[s].attempts \in {runs[s].attempts, runs[s].attempts + 1} BY <3>2
        <4> QED BY <3>5, <4>1, <4>2 DEF RowsTyped
      <3>7. \A s \in Snapshot : runs'[s].generation = runs[s].generation BY <3>2
      <3>8. RebuildsCounted' BY <3>1, <3>4, <3>5, <3>6, <3>7 DEF RebuildsCounted
      <3>9. Registered' = Registered BY <3>1, <3>2 DEF Registered
      <3>10. GenerationsEnd' BY <3>7, <3>9, GenerationsKept DEF Registered
      <3> QED BY <1>a, <3>3, <3>8, <3>10
    <2>6. CASE Replace(w) \/ ReplaceFails(w)
      <3>1. /\ pc[w] = "replacing" /\ pc'[w] \in {"succeeding", "failing"}
            /\ graph' \in {graph, {read[w]}} /\ failures' \in {failures, failures + 1}
            /\ failures' # failures => failures < MaxFailures
            /\ UNCHANGED <<changes, runs, read, work, rebuilds>>
        BY <2>6, <1>t DEF Replace, ReplaceFails, Goto, RebuildTypes, canonical
      <3>2. read[w] \in Snapshot
        BY <1>t, <3>1 DEF ReadsConsistent, Started, Registered
      <3>3. failures' \in 0 .. MaxFailures BY <3>1, GraphAssumption DEF RowsTyped
      <3>4. RowsTyped' BY <3>1, <3>2, <3>3 DEF RowsTyped
      <3> QED BY <2>g, <2>p, <3>1, <3>4 DEF Unprepared, Untried
    <2>8. CASE MarkSucceeded(w)
      <3>1. /\ pc[w] = "succeeding" /\ pc'[w] = "returned" /\ read[w] \in Registered
            /\ runs' = [runs EXCEPT ![read[w]].status = "succeeded",
                                    ![read[w]].outbox = "succeeded"]
            /\ UNCHANGED <<changes, graph, read, work, rebuilds, failures>>
        BY <2>8, <1>t DEF MarkSucceeded, Goto, RebuildTypes, ReadsConsistent, Started, canonical
      <3>2. /\ runs' \in [Snapshot -> RunOfAnyCount]
            /\ \A s \in Snapshot : /\ runs'[s].attempts = runs[s].attempts
                                   /\ runs'[s].generation = runs[s].generation
                                   /\ runs'[s].status = "none" <=> runs[s].status = "none"
        BY <3>1 DEF Registered, RowsTyped, RunOfAnyCount
      <3>3. RowsTyped' BY <3>1, <3>2 DEF RowsTyped
      <3> QED BY <2>g, <2>p, <3>1, <3>2, <3>3 DEF Unprepared, Untried
    <2>9. CASE MarkFailed(w)
      <3> DEFINE row == IF runs[read[w]].attempts < MaxAttempts THEN "pending" ELSE "failed"
      <3>0. row \in {"pending", "failed"} OBVIOUS
      <3>1. /\ pc[w] = "failing" /\ read[w] \in Registered /\ End(w)
            /\ runs' = [runs EXCEPT ![read[w]].status = "failed", ![read[w]].outbox = row]
            /\ UNCHANGED <<changes, graph, rebuilds, failures>>
        BY <2>9, <1>t DEF MarkFailed, Goto, RebuildTypes, ReadsConsistent, Started, canonical
      <3> HIDE DEF row
      <3>2. /\ runs' \in [Snapshot -> RunOfAnyCount]
            /\ \A s \in Snapshot : /\ runs'[s].attempts = runs[s].attempts
                                   /\ runs'[s].generation = runs[s].generation
                                   /\ runs'[s].status = "none" <=> runs[s].status = "none"
        BY <3>0, <3>1 DEF Registered, RowsTyped, RunOfAnyCount
      <3> QED BY <2>e, <3>1, <3>2 DEF RowsTyped
    <2>10. CASE Return(w)
      BY <2>10, <2>e DEF Return, canonical, RowsTyped
    <2>11. CASE Crash(w)
      <3>1. failures' \in 0 .. MaxFailures BY <2>11, GraphAssumption DEF Crash, RowsTyped
      <3> QED BY <2>11, <2>e, <3>1 DEF Crash, canonical, RowsTyped
    <2> QED BY <1>2, <2>1, <2>2, <2>3, <2>4, <2>5, <2>6, <2>8, <2>9, <2>10, <2>11 DEF RebuildStep
  <1>3. CASE UNCHANGED vars
    <2>1. UNCHANGED <<runs, graph, pc, read, work, changes, rebuilds, failures>>
      BY <1>3 DEF vars, canonical, rebuild
    <2> QED BY <1>a, <2>1 DEF RowsTyped, RebuildsCounted, GenerationsEnd, Unprepared, Untried,
                              Registered
  <1> QED BY <1>1, <1>2, <1>3 DEF Next

LEMMA CountInvariant == Spec => []CountInv
  BY CountInit, CountStep, PTL DEF Spec

\* A run is never tried, nor a generation given, more often than rebuilds began; no two
\* graphs of one vault are in Neo4j; and a worker past the insertion of its run finds it.
THEOREM RebuildsAreTyped == Spec => []TypeOK
  <1>1. CountInv => TypeOK
    <2> SUFFICES ASSUME CountInv PROVE TypeOK OBVIOUS
    <2> USE DEF CountInv, AuditInv
    <2>1. /\ Cardinality(Unprepared) \in Nat /\ Cardinality(Untried) \in Nat
          /\ rebuilds \in Nat /\ rebuilds <= MaxRebuilds /\ MaxRebuilds \in Nat
      BY FS_CardinalityType, GraphAssumption DEF RebuildsCounted, RowsTyped
    <2>2. runs \in [Snapshot -> Run]
      <3>1. ASSUME NEW s \in Snapshot PROVE runs[s] \in Run
        <4>1. /\ runs[s] \in RunOfAnyCount
              /\ runs[s].attempts + Cardinality(Untried) <= rebuilds
              /\ runs[s].generation + Cardinality(Unprepared) <= rebuilds
          BY DEF RebuildsCounted, RowsTyped
        <4>2. runs[s].attempts \in 0 .. MaxRebuilds /\ runs[s].generation \in 0 .. MaxRebuilds
          BY <2>1, <4>1 DEF RunOfAnyCount
        <4> QED BY <4>1, <4>2 DEF Run, RunOfAnyCount
      <3> QED BY <3>1 DEF RowsTyped
    <2>3. work \in [Rebuilder -> 0 .. MaxRebuilds]
      <3>1. ASSUME NEW w \in Rebuilder PROVE work[w] \in 0 .. MaxRebuilds
        <4>1. work[w] \in Nat /\ work[w] + Cardinality(Unprepared) <= rebuilds
          BY DEF RebuildsCounted, RowsTyped
        <4> QED BY <2>1, <4>1
      <3> QED BY <3>1 DEF RowsTyped
    <2>4. graph \subseteq Snapshot /\ Cardinality(graph) <= 1
      <3>1. CASE graph = {}
        <4>1. Cardinality(graph) = 0 BY <3>1, FS_EmptySet
        <4> QED BY <3>1, <4>1
      <3>2. ASSUME NEW s \in Snapshot, graph = {s}
            PROVE  graph \subseteq Snapshot /\ Cardinality(graph) <= 1
        <4>1. Cardinality(graph) = 1 BY <3>2, FS_Singleton
        <4> QED BY <3>2, <4>1
      <3> QED BY <3>1, <3>2 DEF RowsTyped
    <2> QED BY <2>2, <2>3, <2>4 DEF TypeOK, RebuildTypes, RowsTyped, ReadsConsistent, Started
  <1> QED BY <1>1, CountInvariant, PTL
=============================================================================
