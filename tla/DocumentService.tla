---------------------------- MODULE DocumentService ----------------------------
(***************************************************************************)
(* OKFDocumentService (core/src/services/okf-document-service.ts) over the *)
(* file repository, the repository that caches a compiled bundle, the      *)
(* index service and the log service: operations of several servers on one *)
(* directory, each a chain of awaited reads and writes of whole files.     *)
(* A document is its title.                                                *)
(***************************************************************************)
EXTENDS Naturals, Sequences, FiniteSets

CONSTANTS
  Servers,   \* services in flight, in one process or in several
  Cached,    \* those whose repository keeps a cache
  Docs, Titles,
  MultiLine, \* titles with a line break in them
  MaxOps     \* bound: operations started

Absent == "absent"

ASSUME ServiceAssumption ==
  /\ Cached \subseteq Servers /\ MultiLine \subseteq Titles /\ MaxOps \in Nat
  /\ Absent \notin Titles /\ Servers # {}

VARIABLES
  disk,     \* disk[d]: the document's file
  cache,    \* cache[s][d]: what the server's repository holds of it
  index,    \* index.md: the titles listed
  log,      \* log.md: the rows, newest first; a row is the operation, and whether it has a line break
  op,       \* op[s]: the operation of server s
  count,    \* operations started
  history,  \* history[d]: every content the file ever had
  done,     \* operations that returned, in their order
  alone     \* no two operations overlapped so far, and none died

vars == <<disk, cache, index, log, op, count, history, done, alone>>

Idle == [at |-> "idle", id |-> 0, kind |-> "none", doc |-> "none", title |-> Absent, seen |-> <<>>]

Free(s) == op[s] = Idle
At(s, place) == op[s].at = place
Goto(s, place) == op' = [op EXCEPT ![s].at = place]

TypeOK ==
  /\ disk \in [Docs -> Titles \cup {Absent}]
  /\ cache \in [Servers -> [Docs -> Titles \cup {Absent}]]
  /\ index \in [Docs -> Titles \cup {Absent}]
  /\ \A s \in Servers : At(s, "idle") => Free(s)
  /\ count \in 0 .. MaxOps

\* The cache is made of the IR, which is compiled from the files.
Init ==
  /\ disk \in [Docs -> Titles \cup {Absent}]
  /\ cache = [s \in Servers |-> disk]
  /\ index = disk
  /\ log = <<>>
  /\ op = [s \in Servers |-> Idle]
  /\ count = 0
  /\ history = [d \in Docs |-> {disk[d]}]
  /\ done = <<>>
  /\ alone = TRUE

\* A call of createDocument, updateDocument or deleteDocument.
Begin(s) ==
  /\ Free(s) /\ count < MaxOps
  /\ \E kind \in {"create", "update", "delete"}, d \in Docs :
       \E t \in IF kind = "delete" THEN {Absent} ELSE Titles :
         op' = [op EXCEPT ![s] = [Idle EXCEPT !.at = IF kind = "update" THEN "find" ELSE "store",
                                             !.id = count + 1, !.kind = kind, !.doc = d, !.title = t]]
  /\ count' = count + 1
  /\ alone' = (alone /\ \A r \in Servers : Free(r))
  /\ UNCHANGED <<disk, cache, index, log, history, done>>

Fails(s) ==
  /\ op' = [op EXCEPT ![s] = Idle]
  /\ UNCHANGED <<disk, cache, index, log, count, history, done, alone>>

\* findById of either repository.
Find(s) ==
  IF s \in Cached THEN cache[s][op[s].doc] ELSE disk[op[s].doc]

UpdateFinds(s) ==
  /\ At(s, "find")
  /\ IF Find(s) = Absent THEN Fails(s)
     ELSE Goto(s, "store") /\ UNCHANGED <<disk, cache, index, log, count, history, done, alone>>

Write(d, title) ==
  /\ disk' = [disk EXCEPT ![d] = title]
  /\ history' = [history EXCEPT ![d] = @ \cup {title}]

\* save: whatever file is there is written over, and the cache after it; or the
\* document is not valid or cannot be written.  An update does not go to the index.
Save(s) ==
  LET d == op[s].doc IN
    \/ /\ Write(d, op[s].title)
       /\ cache' = IF s \in Cached THEN [cache EXCEPT ![s][d] = op[s].title] ELSE cache
       /\ Goto(s, IF op[s].kind = "create" THEN "index" ELSE "log")
    \/ op' = [op EXCEPT ![s] = Idle] /\ UNCHANGED <<disk, cache, history>>

\* A mistaken delete: the index is left as it is.
DeleteUnindexed(s) ==
  LET d == op[s].doc IN
    IF disk[d] = Absent
    THEN op' = [op EXCEPT ![s] = Idle] /\ UNCHANGED <<disk, cache, history>>
    ELSE /\ Write(d, Absent)
         /\ cache' = IF s \in Cached THEN [cache EXCEPT ![s][d] = Absent] ELSE cache
         /\ Goto(s, "log")

\* delete: the file must exist.
Delete(s) ==
  LET d == op[s].doc IN
    IF disk[d] = Absent
    THEN op' = [op EXCEPT ![s] = Idle] /\ UNCHANGED <<disk, cache, history>>
    ELSE /\ Write(d, Absent)
         /\ cache' = IF s \in Cached THEN [cache EXCEPT ![s][d] = Absent] ELSE cache
         /\ Goto(s, "index")

Store(s) ==
  /\ At(s, "store")
  /\ IF op[s].kind = "delete" THEN Delete(s) ELSE Save(s)
  /\ UNCHANGED <<index, log, count, done, alone>>

\* IndexService.generate: the files are listed and read ...
IndexReads(s) ==
  /\ At(s, "index")
  /\ op' = [op EXCEPT ![s].at = "write index", ![s].seen = <<disk>>]
  /\ UNCHANGED <<disk, cache, index, log, count, history, done, alone>>

\* ... and the table is written.
IndexWrites(s) ==
  /\ At(s, "write index")
  /\ index' = op[s].seen[1]
  /\ op' = [op EXCEPT ![s].at = "log", ![s].seen = <<>>]
  /\ UNCHANGED <<disk, cache, log, count, history, done, alone>>

\* The table ends at the first line that does not begin with a bar: of a row with a
\* line break its first line is read, and nothing after it.
ExtractTableRows(rows) ==
  LET split == {i \in DOMAIN rows : rows[i].split}
      first == CHOOSE i \in split : \A j \in split : i <= j
  IN IF split = {} THEN rows
     ELSE [SubSeq(rows, 1, first) EXCEPT ![first].split = FALSE]

\* LogService.append: the rows are read, the file is opened, which empties it,
\* and all rows are written.
LogReads(s) ==
  /\ At(s, "log")
  /\ op' = [op EXCEPT ![s].at = "open log", ![s].seen = ExtractTableRows(log)]
  /\ UNCHANGED <<disk, cache, index, log, count, history, done, alone>>

LogOpens(s) ==
  /\ At(s, "open log")
  /\ log' = <<>>
  /\ Goto(s, "write log")
  /\ UNCHANGED <<disk, cache, index, count, history, done, alone>>

\* Only the row of a creation tells the title.
Row(s) == [id |-> op[s].id, split |-> op[s].kind = "create" /\ op[s].title \in MultiLine]

Rows(s) == <<Row(s)>> \o op[s].seen

LogWrites(s) ==
  /\ At(s, "write log")
  /\ log' = Rows(s)
  /\ done' = Append(done, Row(s))
  /\ op' = [op EXCEPT ![s] = Idle]
  /\ UNCHANGED <<disk, cache, index, count, history, alone>>

\* Any await fails, or the process ends.
Dies(s) ==
  /\ ~Free(s)
  /\ op' = [op EXCEPT ![s] = Idle]
  /\ alone' = FALSE
  /\ UNCHANGED <<disk, cache, index, log, count, history, done>>

Next ==
  \E s \in Servers :
    \/ Begin(s) \/ UpdateFinds(s) \/ Store(s) \/ IndexReads(s) \/ IndexWrites(s)
    \/ LogReads(s) \/ LogOpens(s) \/ LogWrites(s) \/ Dies(s)

Spec == Init /\ [][Next]_vars

-----------------------------------------------------------------------------
(* Properties *)

Reverse(q) == [i \in DOMAIN q |-> q[Len(q) + 1 - i]]

Quiet == alone /\ \A s \in Servers : Free(s)

\* While operations do not overlap, the log has every one that returned, the
\* newest first; unless a document was created whose title has a line break.
LogIsComplete ==
  Quiet /\ (\A i \in DOMAIN done : ~done[i].split) => log = Reverse(done)

\* What a cache answers was in the file at some time, also when the disk fails.
CacheWasSaved == \A s \in Cached, d \in Docs : cache[s][d] \in history[d]

\* While operations do not overlap, the index lists no document that is gone, and
\* every document but those that an update through an old cache brought back.
IndexListsDocuments ==
  Quiet => \A d \in Docs :
    /\ index[d] # Absent => disk[d] # Absent
    /\ disk[d] # Absent /\ index[d] = Absent => \E s \in Cached : cache[s][d] # Absent

\* The log, the index, the cache and the documents agree after every operation of either
\* server that did not fail.
ServiceFilesAgree == TypeOK /\ LogIsComplete /\ CacheWasSaved /\ IndexListsDocuments

================================================================================
