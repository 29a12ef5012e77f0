----------------------------- MODULE VaultIngest -----------------------------
(***************************************************************************)
(* Scanning one vault: VaultIngestService.scan over VaultScanner, the      *)
(* read-only file system and PostgresIngestStore.  A scan loads the file   *)
(* states of the last one, walks and hashes the files, stores the changes  *)
(* in one transaction, then reads, parses and stores document after        *)
(* document.  The owner of the vault edits files underneath it, and two    *)
(* workers may scan the same vault.                                        *)
(*                                                                         *)
(* A content stands for a file's bytes and for their hash.  What a         *)
(* document version consists of (sections, blocks, chunks, links) is the   *)
(* text it was parsed from.  Scan counters and change rows are left out,   *)
(* as is case folding: a path is its own key.                              *)
(***************************************************************************)
EXTENDS Naturals, FiniteSets

CONSTANTS
  NumPaths,        \* paths of the vault, in the order of the walk
  Content, None,
  Scanner,         \* workers that scan the vault
  MaxDocs,         \* bound: documents ever registered
  MaxEdits,        \* bound: edits of the vault
  Setting          \* what may happen around the scans, one of:

\* so many scans at a time, of these types; a path is used again after its file has left
\* it ("recreate"), has a content it had before ("return"), an edit leaves size and
\* mtime as they were ("keep_stat"), a file cannot be hashed ("unreadable"); bounds on
\* contents, scans, documents that cannot be read or parsed, and scans that die after
\* storing their changes.
ASSUME IngestAssumption ==
  /\ NumPaths \in Nat /\ None \notin Content
  /\ {MaxDocs, MaxEdits} \subseteq Nat /\ NumPaths <= MaxDocs
  /\ Setting \subseteq
       [atOnce : Nat, types : SUBSET {"incremental", "full_rehash", "measure"},
        may : SUBSET {"recreate", "return", "keep_stat", "unreadable"},
        contents : Nat, scans : Nat, failures : Nat, crashes : Nat]

VARIABLES
  setting,   \* the setting
  files,     \* the vault: files[p] is the content and mtime of p
  past,      \* past[p]: contents p has had
  silent,    \* paths with an edit that left size and mtime as they were
  states,    \* vault_file_states, by path
  docs,      \* documents
  derived,   \* derived[d][c]: text the rows derived from version c were made of
  pc, kind,  \* where a scan is, its type
  previous,  \* previous[w]: file states loaded at the start
  seen,      \* seen[w]: what the walk has found
  at,        \* at[w]: next path of the walk
  todo,      \* todo[w]: documents_to_parse that are left
  text,      \* text[w]: what read_text returned for the document at hand
  source,    \* source[w]: the document at hand
  trouble,   \* trouble[w]: what disturbed the scan: edits, unreadable files
  scans, edits, failures, crashes

vault == <<files, past, silent>>
store == <<states, docs, derived>>
memory == <<pc, kind, previous, seen, at, todo, text, source>>
bounds == <<scans, edits, failures, crashes>>
vars == <<setting, vault, store, memory, trouble, bounds>>

Path == 1 .. NumPaths
Doc == 1 .. MaxDocs
NoDoc == 0
Maybe == Content \cup {None}

File == [content : Maybe, mtime : 0 .. MaxEdits]
NoFile == [content |-> None, mtime |-> 0]

State == [content : Maybe, mtime : 0 .. MaxEdits, doc : Doc \cup {NoDoc}]
NoState == [content |-> None, mtime |-> 0, doc |-> NoDoc]

Document == [path : Path \cup {0}, life : {"none", "active", "deleted", "error"},
             version : Maybe]
NoDocument == [path |-> 0, life |-> "none", version |-> None]

Source == [doc : Doc, path : Path, content : Content]
NoSource == [doc |-> NoDoc, path |-> 0, content |-> None]

Present(table) == {p \in Path : table[p].content # None}

TypeOK ==
  /\ files \in [Path -> File] /\ past \in [Path -> SUBSET Content]
  /\ silent \subseteq Path
  /\ states \in [Path -> State]
  /\ docs \in [Doc -> Document]
  /\ derived \in [Doc -> [Content -> Maybe]]
  /\ pc \in [Scanner -> {"idle", "walking", "applying", "parsing", "storing",
                         "failing", "finishing", "conflict"}]
  /\ kind \in [Scanner -> {"incremental", "full_rehash", "measure"}]
  /\ previous \in [Scanner -> [Path -> State]]
  /\ seen \in [Scanner -> [Path -> File]]
  /\ at \in [Scanner -> 1 .. NumPaths + 1]
  /\ todo \in [Scanner -> SUBSET Source]
  /\ text \in [Scanner -> Maybe] /\ source \in [Scanner -> Source \cup {NoSource}]
  /\ \A w \in Scanner : pc[w] \in {"storing", "failing"} => source[w] \in todo[w]
  /\ trouble \in [Scanner -> SUBSET {"edit", "failure"}]
  /\ setting \in Setting /\ scans \in 0 .. setting.scans /\ edits \in 0 .. MaxEdits
  /\ failures \in 0 .. setting.failures /\ crashes \in 0 .. setting.crashes

\* The document that the first scan registers for the file at p.
FirstDoc(p) == Cardinality({q \in Present(files) : q <= p})

\* The vault is new, or a scan has indexed what it holds.
Init ==
  /\ setting \in Setting
  /\ files \in [Path -> {[content |-> c, mtime |-> 0] : c \in Maybe}]
  /\ past = [p \in Path |-> {files[p].content} \ {None}]
  /\ silent = {}
  /\ \E indexed \in {{}, Present(files)} :
       /\ states = [p \in Path |->
            IF p \in indexed
            THEN [content |-> files[p].content, mtime |-> 0, doc |-> FirstDoc(p)]
            ELSE NoState]
       /\ docs = [d \in Doc |->
            IF \E p \in indexed : FirstDoc(p) = d
            THEN LET p == CHOOSE q \in indexed : FirstDoc(q) = d IN
                 [path |-> p, life |-> "active", version |-> files[p].content]
            ELSE NoDocument]
       /\ derived = [d \in Doc |-> [c \in Content |->
            IF docs[d].version = c THEN c ELSE None]]
  /\ pc = [w \in Scanner |-> "idle"]
  /\ kind = [w \in Scanner |-> "incremental"]
  /\ previous = [w \in Scanner |-> [p \in Path |-> NoState]]
  /\ seen = [w \in Scanner |-> [p \in Path |-> NoFile]]
  /\ at = [w \in Scanner |-> 1]
  /\ todo = [w \in Scanner |-> {}]
  /\ text = [w \in Scanner |-> None]
  /\ source = [w \in Scanner |-> NoSource]
  /\ trouble = [w \in Scanner |-> {}]
  /\ scans = 0 /\ edits = 0 /\ failures = 0 /\ crashes = 0

Goto(w, label) == pc' = [pc EXCEPT ![w] = label]

-----------------------------------------------------------------------------
(***************************************************************************)
(* The owner of the vault.                                                 *)
(***************************************************************************)

\* May a file with content c come to be at p?
MayHold(p, c) ==
  /\ files[p].content = None /\ past[p] # {} => "recreate" \in setting.may
  /\ c \in past[p] => "return" \in setting.may
  /\ Cardinality({c} \cup UNION {past[q] : q \in Path}) <= setting.contents

Write(p) ==
  \E c \in Content \ {files[p].content} :
    /\ MayHold(p, c)
    /\ \E mtime \in {edits + 1} \cup {files[p].mtime : s \in setting.may \cap {"keep_stat"}} :
         /\ files' = [files EXCEPT ![p] = [content |-> c, mtime |-> mtime]]
         /\ silent' = IF mtime = edits + 1 THEN silent ELSE silent \cup {p}
    /\ past' = [past EXCEPT ![p] = @ \cup {c}]

Remove(p) ==
  /\ files[p].content # None
  /\ files' = [files EXCEPT ![p] = NoFile]
  /\ UNCHANGED <<past, silent>>

\* A move keeps content and mtime.
Move(p, q) ==
  /\ files[p].content # None /\ files[q].content = None
  /\ MayHold(q, files[p].content)
  /\ files' = [files EXCEPT ![p] = NoFile, ![q] = files[p]]
  /\ past' = [past EXCEPT ![q] = @ \cup {files[p].content}]
  /\ silent' = IF p \in silent THEN silent \cup {q} ELSE silent

Edit ==
  /\ edits < MaxEdits
  /\ \E p \in Path : Write(p) \/ Remove(p) \/ \E q \in Path \ {p} : Move(p, q)
  /\ edits' = edits + 1
  /\ trouble' = [w \in Scanner |-> IF pc[w] = "idle" THEN {} ELSE trouble[w] \cup {"edit"}]
  /\ UNCHANGED <<setting, store, memory, scans, failures, crashes>>

-----------------------------------------------------------------------------
(***************************************************************************)
(* The walk.                                                               *)
(***************************************************************************)

\* What is left of a scan in memory when it returns, raises or dies.
End(w) ==
  /\ Goto(w, "idle")
  /\ kind' = [kind EXCEPT ![w] = "incremental"]
  /\ trouble' = [trouble EXCEPT ![w] = {}]
  /\ previous' = [previous EXCEPT ![w] = [p \in Path |-> NoState]]
  /\ seen' = [seen EXCEPT ![w] = [p \in Path |-> NoFile]]
  /\ at' = [at EXCEPT ![w] = 1]
  /\ todo' = [todo EXCEPT ![w] = {}]
  /\ text' = [text EXCEPT ![w] = None]
  /\ source' = [source EXCEPT ![w] = NoSource]

\* load_file_states, then begin_scan.
Begin(w) ==
  /\ pc[w] = "idle"
  /\ Cardinality({v \in Scanner : pc[v] # "idle"}) < setting.atOnce
  /\ scans < setting.scans
  /\ scans' = scans + 1
  /\ \E t \in setting.types : kind' = [kind EXCEPT ![w] = t]
  /\ previous' = [previous EXCEPT ![w] = states]
  /\ Goto(w, "walking")
  /\ UNCHANGED <<setting, vault, store, trouble, seen, at, todo, text, source, edits, failures, crashes>>

\* Mutant: the scan type is ignored.
ShouldHashChanged(w, p) ==
  previous[w][p].content = None \/ previous[w][p].mtime # files[p].mtime

ShouldHash(w, p) ==
  \/ kind[w] \in {"full_rehash", "measure"}
  \/ previous[w][p].content = None
  \/ previous[w][p].mtime # files[p].mtime

\* One file of the walk.  A file that cannot be hashed is left out of the files
\* found.
Visit(w) ==
  LET p == at[w]
      found == [files[p] EXCEPT
                  !.content = IF ShouldHash(w, p) THEN @ ELSE previous[w][p].content]
  IN
  /\ pc[w] = "walking" /\ p <= NumPaths
  /\ \/ /\ seen' = [seen EXCEPT ![w][p] = IF files[p] = NoFile THEN NoFile ELSE found]
        /\ UNCHANGED trouble
     \/ /\ "unreadable" \in setting.may /\ files[p] # NoFile /\ ShouldHash(w, p)
        /\ trouble' = [trouble EXCEPT ![w] = @ \cup {"failure"}]
        /\ UNCHANGED seen
  /\ at' = [at EXCEPT ![w] = p + 1]
  /\ UNCHANGED <<setting, vault, store, pc, kind, previous, todo, text, source, bounds>>

Walked(w) ==
  /\ pc[w] = "walking" /\ at[w] > NumPaths
  /\ Goto(w, "applying")
  /\ UNCHANGED <<setting, vault, store, kind, previous, seen, at, todo, text, source, trouble, bounds>>

\* The walk or the transaction raises: fail_scan, and nothing is stored.
ScanFails(w) ==
  /\ pc[w] \in {"walking", "applying"}
  /\ End(w)
  /\ UNCHANGED <<setting, vault, store, bounds>>

-----------------------------------------------------------------------------
(***************************************************************************)
(* The changes, and apply_scan.                                            *)
(***************************************************************************)

Deleted(w) == Present(previous[w]) \ Present(seen[w])

Created(w) == Present(seen[w]) \ Present(previous[w])

Modified(w) == {p \in Present(previous[w]) \cap Present(seen[w]) :
                  previous[w][p].content # seen[w][p].content}

\* Mutant: only a file newer than the old one is taken for it.
RenamesNewer(w) ==
  {r \in Deleted(w) \X Created(w) :
     LET c == seen[w][r[2]].content IN
     /\ previous[w][r[1]].mtime < seen[w][r[2]].mtime
     /\ {o \in Deleted(w) : previous[w][o].content = c} = {r[1]}
     /\ {n \in Created(w) : seen[w][n].content = c} = {r[2]}}

\* Old and new path, when exactly one of each has the content.
Renames(w) ==
  {r \in Deleted(w) \X Created(w) :
     LET c == seen[w][r[2]].content IN
     /\ {o \in Deleted(w) : previous[w][o].content = c} = {r[1]}
     /\ {n \in Created(w) : seen[w][n].content = c} = {r[2]}}

\* The renames whose old state is still there; their documents move.
Moved(w) == {r \in Renames(w) : states[r[1]].content # None}

\* Paths whose state and document source are deleted.
Gone(w) == {o \in Deleted(w) : states[o].content # None /\ \A r \in Renames(w) : r[1] # o}

\* Paths with a created or modified file.
Changed(w) == {n \in Created(w) : \A r \in Renames(w) : r[2] # n} \cup Modified(w)

\* ... and those of them that get a new document.
Fresh(w) == {p \in Changed(w) : states[p].content = None}

Registered == {d \in Doc : docs[d].life # "none"}

\* Mutant: one identifier for all the new documents.
NewDocOnce(w, p) == Cardinality(Registered) + 1

NewDoc(w, p) == Cardinality(Registered) + Cardinality({q \in Fresh(w) : q <= p})

\* Mutant: a new document's identifier is not kept.
DocOfKnown(w, p) == states[p].doc

DocOf(w, p) == IF p \in Fresh(w) THEN NewDoc(w, p) ELSE states[p].doc

NewStates(w) ==
  [p \in Path |->
     IF p \in Changed(w)
     THEN [content |-> seen[w][p].content, mtime |-> seen[w][p].mtime, doc |-> DocOf(w, p)]
     ELSE IF \E r \in Moved(w) : r[2] = p
     THEN [content |-> seen[w][p].content, mtime |-> seen[w][p].mtime,
           doc |-> states[(CHOOSE r \in Moved(w) : r[2] = p)[1]].doc]
     ELSE IF p \in Gone(w) \cup {r[1] : r \in Moved(w)} THEN NoState
     ELSE states[p]]

\* Mutant: the life of a deleted document goes on.
StruckText(doc) == [doc EXCEPT !.version = None]

\* _delete_document_source, but for the derived rows.
Struck(doc) == [doc EXCEPT !.life = "deleted", !.version = None]

NewDocs(w) ==
  [d \in Doc |->
     IF \E p \in Fresh(w) : NewDoc(w, p) = d
     THEN [path |-> CHOOSE p \in Fresh(w) : NewDoc(w, p) = d,
           life |-> "active", version |-> None]
     ELSE IF \E p \in Changed(w) : states[p].doc = d
     THEN [docs[d] EXCEPT !.life = "active",
                          !.path = CHOOSE p \in Changed(w) : states[p].doc = d]
     ELSE IF \E r \in Moved(w) : states[r[1]].doc = d
     THEN [docs[d] EXCEPT !.path = (CHOOSE r \in Moved(w) : states[r[1]].doc = d)[2]]
     ELSE IF \E p \in Gone(w) : states[p].doc = d
     THEN Struck(docs[d])
     ELSE docs[d]]

\* documents (vault_id, path_key) and the key of vault_file_states are unique; a
\* deleted document keeps its path.
Conflicts(w) ==
  \/ \E r \in Moved(w) : states[r[2]].content # None
  \/ \E d, e \in Doc : /\ d # e /\ NewDocs(w)[d].path # 0
                       /\ NewDocs(w)[d].path = NewDocs(w)[e].path

\* Documents that are in error or have no version.  The query does not see the
\* changes of its own transaction (the sessions do not autoflush), nor do the
\* states whose documents are scheduled.
Pending == {d \in Registered : docs[d].life = "error" \/ docs[d].version = None}

ToParse(w) ==
  LET changed == {[doc |-> DocOf(w, p), path |-> p, content |-> seen[w][p].content] :
                    p \in Changed(w)}
      again == {p \in Present(states) :
                  states[p].doc \in Pending \ {s.doc : s \in changed}}
  IN changed \cup {[doc |-> states[p].doc, path |-> p, content |-> states[p].content] :
                     p \in again}

Apply(w) ==
  /\ pc[w] = "applying"
  /\ IF kind[w] = "measure"
     THEN Goto(w, "finishing") /\ UNCHANGED <<store, todo>>
     ELSE /\ Cardinality(Registered) + Cardinality(Fresh(w)) <= MaxDocs
          /\ IF Conflicts(w)
             THEN Goto(w, "conflict") /\ UNCHANGED <<store, todo>>
             ELSE /\ states' = NewStates(w) /\ docs' = NewDocs(w)
                  /\ derived' = [d \in Doc |->
                       IF \E p \in Gone(w) : states[p].doc = d
                       THEN [c \in Content |->
                               IF c = docs[d].version THEN None ELSE derived[d][c]]
                       ELSE derived[d]]
                  /\ todo' = [todo EXCEPT ![w] = ToParse(w)]
                  /\ Goto(w, IF ToParse(w) = {} THEN "finishing" ELSE "parsing")
  /\ UNCHANGED <<setting, vault, kind, previous, seen, at, text, source, trouble, bounds>>

\* The database refuses the transaction: fail_scan.
Conflict(w) ==
  /\ pc[w] = "conflict"
  /\ End(w)
  /\ UNCHANGED <<setting, vault, store, bounds>>

-----------------------------------------------------------------------------
(***************************************************************************)
(* Document after document.                                                *)
(***************************************************************************)

\* read_text returns what the file holds now, or the document cannot be read or
\* parsed.
Read(w) ==
  /\ pc[w] = "parsing"
  /\ \E s \in todo[w] :
       /\ source' = [source EXCEPT ![w] = s]
       /\ \/ /\ files[s.path] # NoFile
             /\ text' = [text EXCEPT ![w] = files[s.path].content]
             /\ Goto(w, "storing")
             /\ UNCHANGED <<trouble, failures>>
          \/ /\ IF files[s.path] = NoFile THEN UNCHANGED failures
                ELSE failures < setting.failures /\ failures' = failures + 1
             /\ Goto(w, "failing")
             /\ trouble' = [trouble EXCEPT ![w] = @ \cup {"failure"}]
             /\ UNCHANGED text
  /\ UNCHANGED <<setting, vault, store, kind, previous, seen, at, todo, scans, edits, crashes>>

\* The document at hand is done with.
NextDocument(w) ==
  /\ todo' = [todo EXCEPT ![w] = @ \ {source[w]}]
  /\ source' = [source EXCEPT ![w] = NoSource]
  /\ text' = [text EXCEPT ![w] = None]
  /\ Goto(w, IF todo[w] = {source[w]} THEN "finishing" ELSE "parsing")
  /\ UNCHANGED <<kind, previous, seen, at>>

\* Mutant: the rows of the version before are kept.
StoreDocumentKeepsOld(w) ==
  /\ pc[w] = "storing"
  /\ derived' = [derived EXCEPT ![source[w].doc][source[w].content] = text[w]]
  /\ docs' = [docs EXCEPT ![source[w].doc].version = source[w].content,
                         ![source[w].doc].life = "active"]
  /\ NextDocument(w)
  /\ UNCHANGED <<setting, vault, states, trouble, bounds>>

\* store_document: the version of the hash the walk found gets the rows parsed
\* from the text, the version before loses its own.
StoreDocument(w) ==
  /\ pc[w] = "storing"
  /\ LET d == source[w].doc
         c == source[w].content IN
       /\ derived' = [derived EXCEPT ![d] = [v \in Content |->
            IF v = c THEN text[w] ELSE IF v = docs[d].version THEN None ELSE @[v]]]
       /\ docs' = [docs EXCEPT ![d].version = c, ![d].life = "active"]
  /\ NextDocument(w)
  /\ UNCHANGED <<setting, vault, states, trouble, bounds>>

MarkDocumentFailed(w) ==
  /\ pc[w] = "failing"
  /\ docs' = [docs EXCEPT ![source[w].doc].life = "error"]
  /\ NextDocument(w)
  /\ UNCHANGED <<setting, vault, states, derived, trouble, bounds>>

\* finish_scan.
Finish(w) ==
  /\ pc[w] = "finishing"
  /\ End(w)
  /\ UNCHANGED <<setting, vault, store, bounds>>

\* The worker dies, or a transaction of this part raises.
Crash(w) ==
  /\ pc[w] \in {"parsing", "storing", "failing", "finishing"}
  /\ crashes < setting.crashes
  /\ crashes' = crashes + 1
  /\ End(w)
  /\ UNCHANGED <<setting, vault, store, scans, edits, failures>>

ScanStep(w) ==
  \/ Begin(w) \/ Visit(w) \/ Walked(w) \/ ScanFails(w) \/ Apply(w) \/ Conflict(w)
  \/ Read(w) \/ StoreDocument(w) \/ MarkDocumentFailed(w) \/ Finish(w) \/ Crash(w)

Next == Edit \/ \E w \in Scanner : ScanStep(w)

Spec == Init /\ [][Next]_vars

-----------------------------------------------------------------------------
(***************************************************************************)
(* Properties.  Some hold only while scans follow each other.              *)
(***************************************************************************)

OneAtATime == setting.atOnce = 1

\* Every file can be hashed, and a path is not used again.
Steady == setting.may \cap {"recreate", "unreadable"} = {}

\* One scan at a time, a scan during which nobody edited the vault and every document
\* could be processed leaves an index of exactly the files there are, whatever earlier
\* scans missed: each file has an active document whose current version is that of
\* the file and has its rows, and no other document is active.  An incremental
\* scan does so for files whose edits show in size or mtime, a full_rehash scan for
\* all.  (Whether the rows are made of the file's text is another matter: a file
\* edited between the walk and read_text gives the old hash the new text.)
CompleteScanIndexesAll ==
  OneAtATime => \A w \in Scanner :
    pc[w] = "finishing" /\ trouble[w] = {} /\ kind[w] # "measure" =>
      /\ Present(states) = Present(files)
      /\ \A p \in Present(files) \ (IF kind[w] = "incremental" THEN silent ELSE {}) :
           /\ docs[states[p].doc] = [path |-> p, life |-> "active",
                                    version |-> files[p].content]
           /\ derived[states[p].doc][files[p].content] # None
      /\ \A d \in Doc : docs[d].life = "active" => \E p \in Present(files) : states[p].doc = d

\* No text of an earlier version, or of a deleted document, is kept
\* (docs/adr/0005): only the current version of a document has derived rows.
NoHistoricalText ==
  \A d \in Doc, c \in Content : derived[d][c] # None => docs[d].version = c

\* File states and documents agree on paths, and no two states share a document.
StatesOwnDocuments ==
  \A p \in Present(states) :
    /\ states[p].doc \in Registered /\ docs[states[p].doc].path = p
    /\ \A q \in Present(states) \ {p} : states[q].doc # states[p].doc

\* One scan at a time, a document in use can still be found missing: its path has a
\* file state, which is all that later scans compare the vault with.  (A file that a
\* scan did not find but can read, as it could not be hashed or has come back, may
\* revive its document, if that was in error, after apply_scan has deleted it.)
ActiveHasState ==
  OneAtATime /\ Steady =>
    \A d \in Doc : docs[d].life = "active" => \E p \in Present(states) : states[p].doc = d

\* One scan at a time, a file that only moved keeps its document (docs/adr/0004): a
\* scan never deletes a document and registers a new one for the same content, unless
\* several files that left or came have that content.
KeepsDocumentOfMove ==
  OneAtATime => \A d, e \in Doc :
    docs[d].life # "deleted" /\ docs'[d].life = "deleted"
    /\ docs[e].life = "none" /\ docs'[e].life = "active" =>
      LET p == docs[d].path
          c == states[p].content
          left == {q \in Present(states) : states[q].content = c /\ states'[q].content = None}
          came == {q \in Path : states'[q].content = c /\ states[q].content = None}
      IN states'[docs'[e].path].content = c => Cardinality(left) > 1 \/ Cardinality(came) > 1

MoveKeepsDocument == [][KeepsDocumentOfMove]_vars

\* Any state of the vault can be stored: the database never refuses the changes
\* of a scan.
ChangesAreStorable == \A w \in Scanner : pc[w] # "conflict"
=============================================================================
