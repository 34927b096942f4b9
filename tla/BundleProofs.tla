----------------------------- MODULE BundleProofs -----------------------------
(* What is kept of a bundle, for any servers, documents, files, concepts and   *)
(* targets: what its files say of each other, that a synchronisation loses no  *)
(* edit, that releases add up and that an apply leaves the outputs in sync.    *)
EXTENDS MCBundle, Integers, WellFoundedInduction, TLAPS

-----------------------------------------------------------------------------
(* The document service *)

Versions == [Docs -> Titles \cup {Absent}]

RowSet == [id : Nat, split : BOOLEAN]

Places == {"idle", "find", "store", "index", "write index", "log", "open log", "write log"}

Ops ==
  [at : Places, id : Nat, kind : {"none", "create", "update", "delete"}, doc : Docs \cup {"none"},
   title : Titles \cup {Absent}, seen : Seq(RowSet) \cup {<<v>> : v \in Versions}]

\* A call that is under way is one of the three, and what it has seen is rows once it
\* has come to the log.
Fits(o) ==
  /\ o.at = "idle" => o = Idle
  /\ o.at # "idle" => o.doc \in Docs /\ o.kind \in {"create", "update", "delete"}
  /\ o.at # "idle" /\ o.kind # "delete" => o.title \in Titles
  /\ o.at \in {"open log", "write log"} => o.seen \in Seq(RowSet)
  /\ o.at = "write index" => \E v \in Versions : o.seen = <<v>>

\* TypeOK, and the types of what it leaves out.
Typed ==
  /\ disk \in Versions
  /\ cache \in [Servers -> Versions]
  /\ index \in Versions
  /\ log \in Seq(RowSet) /\ done \in Seq(RowSet)
  /\ op \in [Servers -> Ops] /\ \A s \in Servers : Fits(op[s])
  /\ count \in 0 .. MaxOps
  /\ history \in [Docs -> SUBSET (Titles \cup {Absent})]
  /\ alone \in BOOLEAN

NoneSplit == \A i \in DOMAIN done : ~done[i].split

\* Only the operation that has opened the log, and emptied it, keeps the rows.
LogHolds(s) ==
  NoneSplit =>
    /\ ~At(s, "write log") => log = Reverse(done)
    /\ At(s, "open log") \/ At(s, "write log") => op[s].seen = Reverse(done)

Listed(d) ==
  /\ index[d] # Absent => disk[d] # Absent
  /\ disk[d] # Absent /\ index[d] = Absent => \E s \in Cached : cache[s][d] # Absent

\* Only an operation that has created or deleted makes the index differ from the disk;
\* and what it will write is what is on the disk.
IndexHolds(s) ==
  /\ ~At(s, "index") /\ ~At(s, "write index") => \A d \in Docs : Listed(d)
  /\ At(s, "write index") => op[s].seen = <<disk>>
  /\ At(s, "store") /\ op[s].kind = "update" => Find(s) # Absent

\* The others have nothing under way.
OnlyActive(s) == \A r \in Servers \ {s} : At(r, "idle")

\* Of one server at most an operation is under way, and the files are as its place tells.
Sound ==
  /\ alone => \A s \in Servers : ~At(s, "idle") => OnlyActive(s)
  /\ alone => \A s \in Servers : OnlyActive(s) => LogHolds(s) /\ IndexHolds(s)
  /\ CacheWasSaved

-----------------------------------------------------------------------------
(* Rows *)

LEMMA LeastOf ==
  ASSUME NEW S \in SUBSET Nat, S # {}
  PROVE  \E i \in S : \A j \in S : i <= j
<1>1. PICK i \in S : \A j \in S : ~(<<j, i>> \in OpToRel(<, Nat))
  BY NatLessThanWellFounded, WFMin
<1>2. \A j \in S : ~(j < i)
  BY <1>1, Zenon DEF OpToRel
<1> QED BY <1>2

LEMMA RowsRead ==
  ASSUME NEW rows \in Seq(RowSet)
  PROVE  /\ ExtractTableRows(rows) \in Seq(RowSet)
         /\ (\A i \in DOMAIN rows : ~rows[i].split) => ExtractTableRows(rows) = rows
<1> DEFINE split == {i \in DOMAIN rows : rows[i].split}
           cut == CHOOSE i \in split : \A j \in split : i <= j
<1>1. CASE split = {}
  BY <1>1 DEF ExtractTableRows
<1>2. CASE split # {}
  <2>1. cut \in split
    <3>1. split \in SUBSET Nat
      OBVIOUS
    <3>2. \E i \in split : \A j \in split : i <= j
      <4> HIDE DEF split
      <4> QED BY <1>2, <3>1, LeastOf
    <3> QED BY <3>2
  <2>2. cut \in 1 .. Len(rows)
    BY <2>1
  <2> HIDE DEF cut
  <2>3. SubSeq(rows, 1, cut) \in Seq(RowSet) /\ Len(SubSeq(rows, 1, cut)) = cut
    BY <2>2
  <2>4. PICK kept \in Seq(RowSet) : kept = SubSeq(rows, 1, cut) /\ Len(kept) = cut
    BY <2>3
  <2>5. cut \in 1 .. Len(kept) /\ kept[cut] \in RowSet
    BY <2>2, <2>4
  <2>6. PICK row \in RowSet : row = [kept[cut] EXCEPT !.split = FALSE]
    BY <2>5 DEF RowSet
  <2>7. [kept EXCEPT ![cut] = row] \in Seq(RowSet)
    <3>1. kept \in [1 .. Len(kept) -> RowSet] /\ Len(kept) \in Nat
      OBVIOUS
    <3>2. [kept EXCEPT ![cut] = row] \in [1 .. Len(kept) -> RowSet]
      BY <3>1
    <3> QED BY <3>1, <3>2
  <2>8. ExtractTableRows(rows) = [kept EXCEPT ![cut] = row]
    BY <1>2, <2>4, <2>6 DEF ExtractTableRows, cut
  <2> QED BY <1>2, <2>7, <2>8
<1> QED BY <1>1, <1>2

LEMMA ReverseAppend ==
  ASSUME NEW q \in Seq(RowSet), NEW x \in RowSet
  PROVE  Reverse(Append(q, x)) = <<x>> \o Reverse(q)
<1>1. Reverse(q) \in Seq(RowSet) /\ Len(Reverse(q)) = Len(q)
  BY DEF Reverse
<1>2. Append(q, x) \in Seq(RowSet) /\ Len(Append(q, x)) = Len(q) + 1
  OBVIOUS
<1>3. Reverse(Append(q, x)) \in Seq(RowSet) /\ Len(Reverse(Append(q, x))) = Len(q) + 1
  BY <1>2 DEF Reverse
<1>a. PICK y : y = <<x>> \o Reverse(q)
  OBVIOUS
<1>4. y = <<x>> \o Reverse(q) /\ y \in Seq(RowSet) /\ Len(y) = Len(q) + 1
  BY <1>1, <1>a
<1>5. ASSUME NEW i \in 1 .. Len(q) + 1
      PROVE  Reverse(Append(q, x))[i] = y[i]
  <2>0. PICK k \in Nat : k = Len(q) + 2 - i
    <3>1. Len(q) \in Nat
      OBVIOUS
    <3>2. Len(q) + 2 - i \in Nat
      BY <3>1
    <3> QED BY <3>2
  <2>1. Reverse(Append(q, x))[i] = Append(q, x)[k]
    BY <1>2, <1>5, <2>0 DEF Reverse
  <2>2. CASE i = 1
    <3>1. Append(q, x)[Len(q) + 1] = x
      OBVIOUS
    <3>2. y[1] = x
      BY <1>1, <1>4
    <3>3. k = Len(q) + 1
      BY <2>0, <2>2
    <3>4. Reverse(Append(q, x))[i] = x
      BY <2>1, <3>1, <3>3
    <3>5. y[i] = x
      BY <2>2, <3>2
    <3> QED BY <3>4, <3>5
  <2>3. CASE i # 1
    <3>1. y[i] = Reverse(q)[i - 1]
      BY <1>1, <1>4, <1>5, <2>3
    <3>2. Reverse(q)[i - 1] = q[k]
      BY <1>5, <2>0, <2>3 DEF Reverse
    <3> QED BY <1>5, <2>0, <2>1, <2>3, <3>1, <3>2
  <2> QED BY <2>2, <2>3
<1> QED BY <1>3, <1>4, <1>5

-----------------------------------------------------------------------------
(* Types *)

LEMMA IdleTyped == Idle \in Ops /\ Fits(Idle) /\ Idle.at = "idle"
<1>1. <<>> \in Seq(RowSet)
  OBVIOUS
<1> QED BY <1>1 DEF Idle, Ops, Places, Fits

LEMMA InitTyped == Init => Typed
<1> SUFFICES ASSUME Init PROVE Typed
  OBVIOUS
<1>1. <<>> \in Seq(RowSet)
  OBVIOUS
<1>2. disk \in Versions
  BY DEF Init, Versions
<1> QED BY <1>1, <1>2, IdleTyped, ServiceAssumption DEF Init, Typed, Versions

\* Server s is the only one whose call changes, and its call remains one.
OnlyOf(s) ==
  op' \in [Servers -> Ops] /\ Fits(op'[s]) /\ \A r \in Servers \ {s} : op'[r] = op[r]

\* The call is the one that it was.
SameCall(s) ==
  op'[s].id = op[s].id /\ op'[s].kind = op[s].kind /\ op'[s].doc = op[s].doc /\ op'[s].title = op[s].title

LEMMA OpTyped ==
  ASSUME Typed, NEW s \in Servers, OnlyOf(s),
         disk' \in Versions, cache' \in [Servers -> Versions], index' \in Versions,
         log' \in Seq(RowSet), done' \in Seq(RowSet), count' \in 0 .. MaxOps,
         history' \in [Docs -> SUBSET (Titles \cup {Absent})], alone' \in BOOLEAN
  PROVE  Typed'
BY DEF Typed, OnlyOf

LEMMA Ended ==
  ASSUME Typed, NEW s \in Servers, op' = [op EXCEPT ![s] = Idle]
  PROVE  OnlyOf(s) /\ op'[s].at = "idle"
BY IdleTyped DEF Typed, OnlyOf

LEMMA Gone ==
  ASSUME Typed, NEW s \in Servers, ~At(s, "idle"), NEW place \in Places, Goto(s, place),
         place \notin {"idle", "write index"}, place \in {"open log", "write log"} => At(s, "open log")
  PROVE  OnlyOf(s) /\ SameCall(s) /\ op'[s].at = place /\ op'[s].seen = op[s].seen
<1>1. op[s] \in Ops /\ Fits(op[s]) /\ op \in [Servers -> Ops]
  BY DEF Typed
<1>2. PICK k : k = [op[s] EXCEPT !.at = place]
  OBVIOUS
<1>3. op' = [op EXCEPT ![s] = k]
  BY <1>1, <1>2 DEF Goto
<1>4. /\ k \in Ops /\ k.at = place /\ k.seen = op[s].seen /\ k.kind = op[s].kind /\ k.doc = op[s].doc
      /\ k.title = op[s].title /\ k.id = op[s].id
  BY <1>1, <1>2 DEF Ops
<1>5. Fits(k)
  BY <1>1, <1>4 DEF Fits, At
<1> QED BY <1>1, <1>3, <1>4, <1>5 DEF OnlyOf, SameCall

\* A call that goes on with what it has seen.
LEMMA Saw ==
  ASSUME Typed, NEW s \in Servers, ~At(s, "idle"), NEW place, NEW saw,
         \/ place \in {"log", "open log"} /\ saw \in Seq(RowSet)
         \/ place = "write index" /\ \E v \in Versions : saw = <<v>>,
         op' = [op EXCEPT ![s].at = place, ![s].seen = saw]
  PROVE  OnlyOf(s) /\ SameCall(s) /\ op'[s].at = place /\ op'[s].seen = saw
<1>1. op[s] \in Ops /\ Fits(op[s]) /\ op \in [Servers -> Ops]
  BY DEF Typed
<1>2. PICK k : k = [op[s] EXCEPT !.at = place, !.seen = saw]
  OBVIOUS
<1>3. op' = [op EXCEPT ![s] = k]
  BY <1>1, <1>2 DEF Ops
<1>4. /\ k \in Ops /\ k.at = place /\ k.seen = saw /\ k.kind = op[s].kind /\ k.doc = op[s].doc
      /\ k.title = op[s].title /\ k.id = op[s].id
  BY <1>1, <1>2 DEF Ops, Places
<1>5. Fits(k)
  BY <1>1, <1>4 DEF Fits, At
<1> QED BY <1>1, <1>3, <1>4, <1>5 DEF OnlyOf, SameCall

\* How each step moves the call of its server.
LEMMA BeginMoves ==
  ASSUME Typed, NEW s \in Servers, Begin(s)
  PROVE  OnlyOf(s) /\ op'[s].at \in {"find", "store"} /\ (op'[s].at = "store" => op'[s].kind # "update")
<1>1. PICK kind \in {"create", "update", "delete"}, d \in Docs, t \in Titles \cup {Absent} :
        /\ kind # "delete" => t \in Titles
        /\ op' = [op EXCEPT ![s] = [Idle EXCEPT !.at = IF kind = "update" THEN "find" ELSE "store",
                                                !.id = count + 1, !.kind = kind, !.doc = d, !.title = t]]
  BY DEF Begin
<1>2. PICK place \in {"find", "store"} : place = IF kind = "update" THEN "find" ELSE "store"
  OBVIOUS
<1>3. PICK k : k = [Idle EXCEPT !.at = place, !.id = count + 1, !.kind = kind, !.doc = d, !.title = t]
  OBVIOUS
<1>4. <<>> \in Seq(RowSet) /\ count + 1 \in Nat
  BY ServiceAssumption DEF Typed
<1>5. k \in Ops /\ k.at = place /\ k.kind = kind /\ k.doc = d /\ k.title = t
  BY <1>3, <1>4 DEF Idle, Ops, Places
<1>6. Fits(k)
  BY <1>1, <1>5 DEF Fits
<1>7. op' = [op EXCEPT ![s] = k]
  BY <1>1, <1>2, <1>3
<1> QED BY <1>2, <1>5, <1>6, <1>7 DEF OnlyOf, Typed

LEMMA StoreMoves ==
  ASSUME Typed, NEW s \in Servers, Store(s)
  PROVE  /\ OnlyOf(s)
         /\ \/ op'[s].at = "idle" /\ UNCHANGED <<disk, cache, history>>
            \/ /\ op[s].kind = "delete" /\ Write(op[s].doc, Absent)
               /\ op'[s].at = "index" /\ SameCall(s)
               /\ cache' = IF s \in Cached THEN [cache EXCEPT ![s][op[s].doc] = Absent] ELSE cache
            \/ /\ op[s].kind # "delete" /\ Write(op[s].doc, op[s].title)
               /\ op'[s].at = IF op[s].kind = "create" THEN "index" ELSE "log"
               /\ SameCall(s)
               /\ cache' = IF s \in Cached THEN [cache EXCEPT ![s][op[s].doc] = op[s].title] ELSE cache
<1>1. ~At(s, "idle")
  BY DEF Store, At
<1>2. CASE op' = [op EXCEPT ![s] = Idle] /\ UNCHANGED <<disk, cache, history>>
  BY <1>2, Ended
<1>3. CASE op[s].kind = "delete" /\ Write(op[s].doc, Absent) /\ Goto(s, "index")
           /\ cache' = IF s \in Cached THEN [cache EXCEPT ![s][op[s].doc] = Absent] ELSE cache
  BY <1>1, <1>3, Gone DEF Places
<1>4. CASE op[s].kind # "delete" /\ Write(op[s].doc, op[s].title)
           /\ Goto(s, IF op[s].kind = "create" THEN "index" ELSE "log")
           /\ cache' = IF s \in Cached THEN [cache EXCEPT ![s][op[s].doc] = op[s].title] ELSE cache
  <2>1. PICK place \in {"index", "log"} : place = IF op[s].kind = "create" THEN "index" ELSE "log"
    OBVIOUS
  <2>2. OnlyOf(s) /\ SameCall(s) /\ op'[s].at = place
    BY <1>1, <1>4, <2>1, Gone DEF Places
  <2> QED BY <1>4, <2>1, <2>2
<1> QED BY <1>2, <1>3, <1>4 DEF Store, Save, Delete

LEMMA FindMoves ==
  ASSUME Typed, NEW s \in Servers, UpdateFinds(s)
  PROVE  /\ OnlyOf(s) /\ UNCHANGED <<disk, cache, index, log, count, history, done, alone>>
         /\ op'[s].at = "idle" \/ (op'[s].at = "store" /\ SameCall(s) /\ Find(s) # Absent)
<1>1. At(s, "find") /\ ~At(s, "idle")
  BY DEF UpdateFinds, At
<1> QED BY <1>1, Ended, Gone DEF UpdateFinds, Fails, Places

LEMMA IndexReadsMoves ==
  ASSUME Typed, NEW s \in Servers, IndexReads(s)
  PROVE  OnlyOf(s) /\ op'[s].at = "write index" /\ op'[s].seen = <<disk>>
<1>1. PICK place, saw : place = "write index" /\ saw = <<disk>>
  OBVIOUS
<1>2. ~At(s, "idle") /\ op' = [op EXCEPT ![s].at = place, ![s].seen = saw]
  BY <1>1 DEF IndexReads, At
<1>3. \E v \in Versions : saw = <<v>>
  BY <1>1 DEF Typed
<1>4. OnlyOf(s) /\ op'[s].at = place /\ op'[s].seen = saw
  BY <1>1, <1>2, <1>3, Saw
<1> QED BY <1>1, <1>4

LEMMA IndexWritesMoves ==
  ASSUME Typed, NEW s \in Servers, IndexWrites(s)
  PROVE  OnlyOf(s) /\ op'[s].at = "log" /\ index' \in Versions
<1>1. /\ ~At(s, "idle") /\ op' = [op EXCEPT ![s].at = "log", ![s].seen = <<>>]
      /\ index' = op[s].seen[1] /\ op[s].at = "write index"
  BY DEF IndexWrites, At
<1>2. <<>> \in Seq(RowSet)
  OBVIOUS
<1>3. index' \in Versions
  <2>1. PICK v \in Versions : op[s].seen = <<v>>
    BY <1>1 DEF Typed, Fits
  <2>2. op[s].seen[1] = v
    BY <2>1
  <2> QED BY <1>1, <2>2
<1> QED BY <1>1, <1>2, <1>3, Saw

LEMMA LogReadsMoves ==
  ASSUME Typed, NEW s \in Servers, LogReads(s)
  PROVE  OnlyOf(s) /\ op'[s].at = "open log" /\ op'[s].seen = ExtractTableRows(log)
<1>1. PICK rows \in Seq(RowSet) : rows = ExtractTableRows(log)
  BY RowsRead DEF Typed
<1>2. ~At(s, "idle") /\ op' = [op EXCEPT ![s].at = "open log", ![s].seen = rows]
  BY <1>1 DEF LogReads, At
<1>3. OnlyOf(s) /\ op'[s].at = "open log" /\ op'[s].seen = rows
  BY <1>2, Saw
<1> QED BY <1>1, <1>3

LEMMA LogOpensMoves ==
  ASSUME Typed, NEW s \in Servers, LogOpens(s)
  PROVE  OnlyOf(s) /\ op'[s].at = "write log" /\ op'[s].seen = op[s].seen
<1>1. ~At(s, "idle") /\ At(s, "open log") /\ Goto(s, "write log")
  BY DEF LogOpens, At
<1> QED BY <1>1, Gone DEF Places

LEMMA LogWritesMoves ==
  ASSUME Typed, NEW s \in Servers, LogWrites(s)
  PROVE  /\ OnlyOf(s) /\ op'[s].at = "idle"
         /\ Row(s) \in RowSet /\ log' \in Seq(RowSet) /\ done' \in Seq(RowSet)
<1>1. op' = [op EXCEPT ![s] = Idle] /\ op[s] \in Ops /\ op[s].seen \in Seq(RowSet)
  BY DEF LogWrites, Typed, Fits, At
<1>2. (op[s].kind = "create" /\ op[s].title \in MultiLine) \in BOOLEAN
  OBVIOUS
<1>3. Row(s) \in RowSet
  BY <1>1, <1>2 DEF Row, RowSet, Ops
<1>4. <<Row(s)>> \o op[s].seen \in Seq(RowSet)
  BY <1>1, <1>3
<1>5. log' \in Seq(RowSet) /\ done' \in Seq(RowSet)
  <2>1. Append(done, Row(s)) \in Seq(RowSet)
    BY <1>3 DEF Typed
  <2> QED BY <1>4, <2>1 DEF LogWrites, Rows
<1> QED BY <1>1, <1>3, <1>5, Ended

LEMMA StepTyped == Typed /\ [Next]_vars => Typed'
<1> SUFFICES ASSUME Typed, [Next]_vars PROVE Typed'
  OBVIOUS
<1>0. /\ disk \in Versions /\ cache \in [Servers -> Versions] /\ index \in Versions
      /\ log \in Seq(RowSet) /\ done \in Seq(RowSet) /\ count \in 0 .. MaxOps
      /\ history \in [Docs -> SUBSET (Titles \cup {Absent})] /\ alone \in BOOLEAN
  BY DEF Typed
<1>1. CASE UNCHANGED vars
  BY <1>1 DEF vars, Typed
<1>2. ASSUME NEW s \in Servers, Begin(s) PROVE Typed'
  <2>1. UNCHANGED <<disk, cache, index, log, history, done>> /\ count' \in 0 .. MaxOps
    BY <1>0, <1>2, ServiceAssumption DEF Begin
  <2>2. alone' \in BOOLEAN
    BY <1>2 DEF Begin
  <2> QED BY <1>0, <1>2, <2>1, <2>2, BeginMoves, OpTyped
<1>3. ASSUME NEW s \in Servers, UpdateFinds(s) PROVE Typed'
  BY <1>0, <1>3, FindMoves, OpTyped
<1>4. ASSUME NEW s \in Servers, Store(s) PROVE Typed'
  <2>1. OnlyOf(s) /\ UNCHANGED <<index, log, count, done, alone>>
    BY <1>4, StoreMoves DEF Store
  <2>2. op[s].doc \in Docs /\ op[s].title \in Titles \cup {Absent}
    BY <1>4 DEF Store, At, Typed, Fits, Ops
  <2>3. ASSUME NEW x \in Titles \cup {Absent}, Write(op[s].doc, x)
        PROVE  disk' \in Versions /\ history' \in [Docs -> SUBSET (Titles \cup {Absent})]
    BY <1>0, <2>2, <2>3 DEF Write, Versions
  <2>4. disk' \in Versions /\ history' \in [Docs -> SUBSET (Titles \cup {Absent})]
    BY <1>0, <1>4, <2>2, <2>3, StoreMoves
  <2>5. \A x \in Titles \cup {Absent} :
          (IF s \in Cached THEN [cache EXCEPT ![s][op[s].doc] = x] ELSE cache) \in [Servers -> Versions]
    BY <1>0, <2>2 DEF Versions
  <2>6. cache' \in [Servers -> Versions]
    <3>1. CASE cache' = cache
      BY <1>0, <3>1
    <3>2. CASE op[s].kind = "delete" /\ cache' = IF s \in Cached THEN [cache EXCEPT ![s][op[s].doc] = Absent] ELSE cache
      BY <2>5, <3>2
    <3>3. CASE op[s].kind # "delete" /\ cache' = IF s \in Cached THEN [cache EXCEPT ![s][op[s].doc] = op[s].title] ELSE cache
      BY <2>2, <2>5, <3>3
    <3> QED BY <1>4, <3>1, <3>2, <3>3, StoreMoves
  <2> QED BY <1>0, <2>1, <2>4, <2>6, OpTyped
<1>5. ASSUME NEW s \in Servers, IndexReads(s) PROVE Typed'
  <2>1. UNCHANGED <<disk, cache, index, log, count, history, done, alone>>
    BY <1>5 DEF IndexReads
  <2> QED BY <1>0, <1>5, <2>1, IndexReadsMoves, OpTyped
<1>6. ASSUME NEW s \in Servers, IndexWrites(s) PROVE Typed'
  <2>1. UNCHANGED <<disk, cache, log, count, history, done, alone>>
    BY <1>6 DEF IndexWrites
  <2> QED BY <1>0, <1>6, <2>1, IndexWritesMoves, OpTyped
<1>7. ASSUME NEW s \in Servers, LogReads(s) PROVE Typed'
  <2>1. UNCHANGED <<disk, cache, index, log, count, history, done, alone>>
    BY <1>7 DEF LogReads
  <2> QED BY <1>0, <1>7, <2>1, LogReadsMoves, OpTyped
<1>8. ASSUME NEW s \in Servers, LogOpens(s) PROVE Typed'
  <2>1. UNCHANGED <<disk, cache, index, count, history, done, alone>> /\ log' = <<>>
    BY <1>8 DEF LogOpens
  <2>2. log' \in Seq(RowSet)
    BY <2>1
  <2> QED BY <1>0, <1>8, <2>1, <2>2, LogOpensMoves, OpTyped
<1>9. ASSUME NEW s \in Servers, LogWrites(s) PROVE Typed'
  <2>1. UNCHANGED <<disk, cache, index, count, history, alone>>
    BY <1>9 DEF LogWrites
  <2> QED BY <1>0, <1>9, <2>1, LogWritesMoves, OpTyped
<1>10. ASSUME NEW s \in Servers, Dies(s) PROVE Typed'
  <2>1. op' = [op EXCEPT ![s] = Idle] /\ alone' = FALSE
        /\ UNCHANGED <<disk, cache, index, log, count, history, done>>
    BY <1>10 DEF Dies
  <2> QED BY <1>0, <2>1, Ended, OpTyped
<1> QED BY <1>1, <1>2, <1>3, <1>4, <1>5, <1>6, <1>7, <1>8, <1>9, <1>10 DEF Next

-----------------------------------------------------------------------------
(* What the files say of each other *)

\* A step of a server whose call is the only one.
LEMMA OfServer ==
  ASSUME Typed, Typed', NEW s \in Servers, OnlyOf(s), CacheWasSaved',
         alone' => OnlyActive(s) /\ LogHolds(s)' /\ IndexHolds(s)'
  PROVE  Sound'
<1> SUFFICES ASSUME alone'
             PROVE  /\ \A r \in Servers : ~At(r, "idle")' => OnlyActive(r)'
                    /\ \A r \in Servers : OnlyActive(r)' => LogHolds(r)' /\ IndexHolds(r)'
  BY DEF Sound
<1>1. \A r \in Servers \ {s} : op'[r].at = "idle"
  BY DEF OnlyActive, OnlyOf, At
<1>2. \A r \in Servers : ~At(r, "idle")' => OnlyActive(r)'
  BY <1>1 DEF OnlyActive, At
<1>3. ASSUME NEW r \in Servers, r # s, OnlyActive(r)' PROVE LogHolds(r)' /\ IndexHolds(r)'
  <2>1. op'[s].at = "idle" /\ op'[r].at = "idle"
    BY <1>1, <1>3 DEF OnlyActive, At
  <2> QED BY <2>1 DEF LogHolds, IndexHolds, At, Listed
<1> QED BY <1>2, <1>3

LEMMA Here ==
  ASSUME Typed, Sound, alone, NEW s \in Servers, ~At(s, "idle")
  PROVE  OnlyActive(s) /\ LogHolds(s) /\ IndexHolds(s)
BY DEF Sound

LEMMA InitSound == Init => Sound
<1> SUFFICES ASSUME Init PROVE Sound
  OBVIOUS
<1>1. Reverse(<<>>) = <<>>
  BY DEF Reverse
<1>2. \A s \in Servers : op[s].at = "idle"
  BY IdleTyped DEF Init
<1>3. CacheWasSaved
  BY ServiceAssumption DEF Init, CacheWasSaved
<1>4. log = Reverse(done) /\ \A d \in Docs : Listed(d)
  BY <1>1 DEF Init, Listed
<1> QED BY <1>2, <1>3, <1>4 DEF Sound, At, OnlyActive, LogHolds, IndexHolds

LEMMA BeginSound ==
  ASSUME Typed, Typed', Sound, NEW s \in Servers, Begin(s)
  PROVE  Sound'
<1>1. /\ OnlyOf(s) /\ op'[s].at \in {"find", "store"} /\ (op'[s].at = "store" => op'[s].kind # "update")
      /\ UNCHANGED <<disk, cache, index, log, history, done>>
  BY BeginMoves DEF Begin
<1>2. CacheWasSaved'
  BY <1>1 DEF Sound, CacheWasSaved
<1>3. ASSUME alone' PROVE OnlyActive(s) /\ LogHolds(s)' /\ IndexHolds(s)'
  <2>1. alone /\ \A r \in Servers : op[r].at = "idle"
    BY <1>3, IdleTyped DEF Begin, Free
  <2>2. OnlyActive(s) /\ LogHolds(s) /\ IndexHolds(s)
    BY <2>1 DEF Sound, OnlyActive, At
  <2>3. LogHolds(s)'
    BY <1>1, <2>1, <2>2 DEF LogHolds, NoneSplit, At
  <2>4. IndexHolds(s)'
    BY <1>1, <2>1, <2>2 DEF IndexHolds, Listed, At
  <2> QED BY <2>2, <2>3, <2>4
<1> QED BY <1>1, <1>2, <1>3, OfServer

LEMMA FindSound ==
  ASSUME Typed, Typed', Sound, NEW s \in Servers, UpdateFinds(s)
  PROVE  Sound'
<1>1. /\ OnlyOf(s) /\ UNCHANGED <<disk, cache, index, log, count, history, done, alone>>
      /\ op'[s].at = "idle" \/ (op'[s].at = "store" /\ SameCall(s) /\ Find(s) # Absent)
  BY FindMoves
<1>2. CacheWasSaved'
  BY <1>1 DEF Sound, CacheWasSaved
<1>3. ASSUME alone' PROVE OnlyActive(s) /\ LogHolds(s)' /\ IndexHolds(s)'
  <2>1. op[s].at = "find"
    BY DEF UpdateFinds, At
  <2>2. OnlyActive(s) /\ LogHolds(s) /\ IndexHolds(s)
    BY <1>1, <1>3, <2>1, Here DEF At
  <2>3. LogHolds(s)'
    BY <1>1, <2>1, <2>2 DEF LogHolds, NoneSplit, At
  <2>4. IndexHolds(s)'
    BY <1>1, <2>1, <2>2 DEF IndexHolds, Listed, At, Find, SameCall
  <2> QED BY <2>2, <2>3, <2>4
<1> QED BY <1>1, <1>2, <1>3, OfServer

\* What is written to a file is part of its history, and of the cache that is written
\* with it; no other document is touched.
LEMMA Written ==
  ASSUME Typed, NEW s \in Servers, NEW d \in Docs, NEW x \in Titles \cup {Absent}, Write(d, x),
         cache' = IF s \in Cached THEN [cache EXCEPT ![s][d] = x] ELSE cache, CacheWasSaved
  PROVE  /\ CacheWasSaved'
         /\ disk'[d] = x /\ \A e \in Docs \ {d} : disk'[e] = disk[e]
         /\ \A r \in Servers, e \in Docs : cache'[r][e] = IF r = s /\ s \in Cached /\ e = d THEN x ELSE cache[r][e]
<1>1. disk \in Versions /\ cache \in [Servers -> Versions] /\ history \in [Docs -> SUBSET (Titles \cup {Absent})]
  BY DEF Typed
<1>2. disk'[d] = x /\ \A e \in Docs \ {d} : disk'[e] = disk[e]
  BY <1>1 DEF Write, Versions
<1>3. \A r \in Servers, e \in Docs : cache'[r][e] = IF r = s /\ s \in Cached /\ e = d THEN x ELSE cache[r][e]
  BY <1>1 DEF Versions
<1>4. x \in history'[d] /\ \A e \in Docs : history[e] \subseteq history'[e]
  BY <1>1 DEF Write
<1>5. CacheWasSaved'
  BY <1>3, <1>4, ServiceAssumption DEF CacheWasSaved
<1> QED BY <1>2, <1>3, <1>5

LEMMA StoreSound ==
  ASSUME Typed, Typed', Sound, NEW s \in Servers, Store(s)
  PROVE  Sound'
<1>1. OnlyOf(s) /\ UNCHANGED <<index, log, count, done, alone>> /\ op[s].at = "store"
  BY StoreMoves DEF Store, At
<1>2. /\ op[s].doc \in Docs /\ op[s].kind \in {"create", "update", "delete"}
      /\ op[s].kind # "delete" => op[s].title \in Titles
  BY <1>1 DEF Typed, Fits
<1>3. alone' => OnlyActive(s) /\ LogHolds(s) /\ IndexHolds(s)
  BY <1>1, Here DEF At
<1>4. alone' /\ op'[s].at \in {"idle", "index", "log"} => LogHolds(s)'
  BY <1>1, <1>3 DEF LogHolds, NoneSplit, At
<1>5. CASE op'[s].at = "idle" /\ UNCHANGED <<disk, cache, history>>
  <2>1. CacheWasSaved'
    BY <1>5 DEF Sound, CacheWasSaved
  <2>2. alone' => IndexHolds(s)'
    BY <1>1, <1>3, <1>5 DEF IndexHolds, Listed, At
  <2> QED BY <1>1, <1>3, <1>4, <1>5, <2>1, <2>2, OfServer
<1>6. CASE /\ op[s].kind = "delete" /\ Write(op[s].doc, Absent)
           /\ op'[s].at = "index"
           /\ cache' = IF s \in Cached THEN [cache EXCEPT ![s][op[s].doc] = Absent] ELSE cache
  <2>1. CacheWasSaved'
    BY <1>2, <1>6, Written DEF Sound
  <2>2. IndexHolds(s)'
    BY <1>6 DEF IndexHolds, At
  <2> QED BY <1>1, <1>3, <1>4, <1>6, <2>1, <2>2, OfServer
<1>7. CASE /\ op[s].kind # "delete" /\ Write(op[s].doc, op[s].title)
           /\ op'[s].at = IF op[s].kind = "create" THEN "index" ELSE "log"
           /\ cache' = IF s \in Cached THEN [cache EXCEPT ![s][op[s].doc] = op[s].title] ELSE cache
  <2>1. PICK d \in Docs, x \in Titles : d = op[s].doc /\ x = op[s].title
    BY <1>2, <1>7
  <2>2. /\ CacheWasSaved'
        /\ disk'[d] = x /\ \A e \in Docs \ {d} : disk'[e] = disk[e]
        /\ \A r \in Servers, e \in Docs : cache'[r][e] = IF r = s /\ s \in Cached /\ e = d THEN x ELSE cache[r][e]
    <3>1. Write(d, x) /\ cache' = IF s \in Cached THEN [cache EXCEPT ![s][d] = x] ELSE cache
      BY <1>7, <2>1
    <3> QED BY <3>1, Written DEF Sound
  <2>3. x # Absent
    BY ServiceAssumption
  <2>4. CASE op[s].kind = "create"
    <3>1. IndexHolds(s)' /\ op'[s].at = "index"
      BY <1>7, <2>4 DEF IndexHolds, At
    <3> QED BY <1>1, <1>3, <1>4, <2>2, <3>1, OfServer
  <2>5. CASE op[s].kind = "update"
    <3>1. op'[s].at = "log"
      BY <1>7, <2>5
    <3>2. ASSUME alone', NEW e \in Docs PROVE Listed(e)'
      <4>1. Listed(e) /\ Find(s) # Absent
        BY <1>1, <1>3, <2>5, <3>2 DEF IndexHolds, At
      <4>2. CASE e # d
        BY <1>1, <2>2, <4>1, <4>2, ServiceAssumption DEF Listed
      <4>3. CASE e = d /\ s \in Cached
        BY <2>2, <2>3, <4>3 DEF Listed
      <4>4. CASE e = d /\ s \notin Cached
        <5>1. disk[e] # Absent
          BY <2>1, <4>1, <4>4 DEF Find
        <5> QED BY <1>1, <2>2, <2>3, <4>1, <4>4, <5>1, ServiceAssumption DEF Listed
      <4> QED BY <4>2, <4>3, <4>4
    <3>3. alone' => IndexHolds(s)'
      BY <3>1, <3>2 DEF IndexHolds, At
    <3> QED BY <1>1, <1>3, <1>4, <2>2, <3>1, <3>3, OfServer
  <2> QED BY <1>2, <1>7, <2>4, <2>5
<1> QED BY <1>5, <1>6, <1>7, StoreMoves

LEMMA IndexSound ==
  ASSUME Typed, Typed', Sound, NEW s \in Servers, IndexReads(s) \/ IndexWrites(s)
  PROVE  Sound'
<1>1. OnlyOf(s) /\ UNCHANGED <<disk, cache, log, count, history, done, alone>>
  BY IndexReadsMoves, IndexWritesMoves DEF IndexReads, IndexWrites
<1>2. CacheWasSaved'
  BY <1>1 DEF Sound, CacheWasSaved
<1>3. op[s].at \in {"index", "write index"}
  BY DEF IndexReads, IndexWrites, At
<1>4. alone' => OnlyActive(s) /\ LogHolds(s) /\ IndexHolds(s)
  BY <1>1, <1>3, Here DEF At
<1>5. op'[s].at \in {"write index", "log"}
  BY IndexReadsMoves, IndexWritesMoves
<1>6. alone' => LogHolds(s)'
  BY <1>1, <1>3, <1>4, <1>5 DEF LogHolds, NoneSplit, At
<1>7. CASE IndexReads(s)
  <2>1. IndexHolds(s)'
    BY <1>1, <1>7, IndexReadsMoves DEF IndexHolds, At
  <2> QED BY <1>1, <1>2, <1>4, <1>6, <2>1, OfServer
<1>8. CASE IndexWrites(s)
  <2>1. op'[s].at = "log" /\ index' = op[s].seen[1] /\ op[s].at = "write index"
    BY <1>8, IndexWritesMoves DEF IndexWrites, At
  <2>2. alone' => index' = disk
    <3> SUFFICES ASSUME alone' PROVE index' = disk
      OBVIOUS
    <3>1. op[s].seen = <<disk>>
      BY <1>4, <2>1 DEF IndexHolds, At
    <3>2. <<disk>>[1] = disk
      OBVIOUS
    <3> QED BY <2>1, <3>1, <3>2
  <2>3. alone' => IndexHolds(s)'
    BY <1>1, <2>1, <2>2 DEF IndexHolds, Listed, At
  <2> QED BY <1>1, <1>2, <1>4, <1>6, <2>3, OfServer
<1> QED BY <1>7, <1>8

\* While operations do not overlap, the one that empties the log has all of it in hand.
LEMMA LogSound ==
  ASSUME Typed, Typed', Sound, NEW s \in Servers, LogReads(s) \/ LogOpens(s) \/ LogWrites(s)
  PROVE  Sound'
<1>1. OnlyOf(s) /\ UNCHANGED <<disk, cache, index, count, history, alone>>
  BY LogReadsMoves, LogOpensMoves, LogWritesMoves DEF LogReads, LogOpens, LogWrites
<1>2. CacheWasSaved'
  BY <1>1 DEF Sound, CacheWasSaved
<1>3. op[s].at \in {"log", "open log", "write log"}
  BY DEF LogReads, LogOpens, LogWrites, At
<1>4. alone' => OnlyActive(s) /\ LogHolds(s) /\ IndexHolds(s)
  BY <1>1, <1>3, Here DEF At
<1>5. op'[s].at \in {"open log", "write log", "idle"}
  BY LogReadsMoves, LogOpensMoves, LogWritesMoves
<1>6. alone' => IndexHolds(s)'
  BY <1>1, <1>3, <1>4, <1>5 DEF IndexHolds, Listed, At
<1>7. ASSUME alone', NoneSplit', LogReads(s) PROVE LogHolds(s)'
  <2>1. UNCHANGED <<log, done>> /\ op[s].at = "log" /\ NoneSplit
    BY <1>7 DEF LogReads, At, NoneSplit
  <2>2. log = Reverse(done)
    BY <1>4, <1>7, <2>1 DEF LogHolds, At
  <2>3. \A i \in DOMAIN log : ~log[i].split
    BY <2>1, <2>2 DEF NoneSplit, Reverse, Typed
  <2>4. ExtractTableRows(log) = log
    BY <2>3, RowsRead DEF Typed
  <2> QED BY <1>7, <2>1, <2>2, <2>4, LogReadsMoves DEF LogHolds, At
<1>8. ASSUME alone', NoneSplit', LogOpens(s) PROVE LogHolds(s)'
  <2>1. done' = done /\ op[s].at = "open log" /\ NoneSplit
    BY <1>8 DEF LogOpens, At, NoneSplit
  <2>2. op[s].seen = Reverse(done)
    BY <1>4, <1>8, <2>1 DEF LogHolds, At
  <2> QED BY <1>8, <2>1, <2>2, LogOpensMoves DEF LogHolds, At
<1>9. ASSUME alone', NoneSplit', LogWrites(s) PROVE LogHolds(s)'
  <2>1. done' = Append(done, Row(s)) /\ log' = <<Row(s)>> \o op[s].seen /\ op[s].at = "write log"
    BY <1>9 DEF LogWrites, Rows, At
  <2>2. Row(s) \in RowSet /\ done \in Seq(RowSet) /\ op'[s].at = "idle"
    BY <1>9, LogWritesMoves DEF Typed
  <2>3. NoneSplit
    <3>1. \A i \in DOMAIN done : i \in DOMAIN Append(done, Row(s)) /\ Append(done, Row(s))[i] = done[i]
      BY <2>2
    <3> QED BY <1>9, <2>1, <3>1 DEF NoneSplit
  <2>4. op[s].seen = Reverse(done)
    BY <1>4, <1>9, <2>1, <2>3 DEF LogHolds, At
  <2>5. log' = Reverse(done')
    BY <2>1, <2>2, <2>4, ReverseAppend
  <2> QED BY <2>2, <2>5 DEF LogHolds, At
<1>10. alone' => LogHolds(s)'
  BY <1>7, <1>8, <1>9 DEF LogHolds
<1> QED BY <1>1, <1>2, <1>4, <1>6, <1>10, OfServer

LEMMA DiesSound ==
  ASSUME Typed, Typed', Sound, NEW s \in Servers, Dies(s)
  PROVE  Sound'
<1>1. alone' = FALSE /\ OnlyOf(s) /\ UNCHANGED <<cache, history>>
  BY Ended DEF Dies
<1> QED BY <1>1 DEF Sound, CacheWasSaved

LEMMA StepSound == Typed /\ Typed' /\ Sound /\ [Next]_vars => Sound'
<1> SUFFICES ASSUME Typed, Typed', Sound, [Next]_vars PROVE Sound'
  OBVIOUS
<1>1. CASE UNCHANGED vars
  BY <1>1 DEF vars, Sound, OnlyActive, LogHolds, IndexHolds, CacheWasSaved, NoneSplit, Listed, At, Find
<1>2. CASE Next
  BY <1>2, BeginSound, FindSound, StoreSound, IndexSound, LogSound, DiesSound DEF Next
<1> QED BY <1>1, <1>2

THEOREM SpecSound == Spec => [](Typed /\ Sound)
<1>1. Init => Typed /\ Sound
  BY InitTyped, InitSound
<1>2. Typed /\ Sound /\ [Next]_vars => (Typed /\ Sound)'
  BY StepTyped, StepSound
<1> QED BY <1>1, <1>2, PTL DEF Spec

\* Whatever servers, caches and documents there are: as long as the operations on a
\* directory follow each other and none dies, its log has every operation that returned
\* and its index agrees with the documents; and what a cache answers was in the file,
\* however they overlap (okf-document-service.ts, index-service.ts, log-service.ts).
THEOREM SpecServiceFilesAgree == Spec => []ServiceFilesAgree
<1>1. Typed => TypeOK
  BY DEF Typed, TypeOK, Versions, Fits, At, Free
<1>2. ASSUME Typed, Sound, Quiet PROVE log = Reverse(done) \/ ~NoneSplit
  <2>1. PICK s \in Servers : TRUE
    BY ServiceAssumption
  <2>2. alone /\ \A r \in Servers : op[r].at = "idle"
    BY <1>2, IdleTyped DEF Quiet, Free
  <2>3. LogHolds(s)
    BY <1>2, <2>2 DEF Sound, OnlyActive, At
  <2> QED BY <2>2, <2>3 DEF LogHolds, At
<1>3. ASSUME Typed, Sound, Quiet, NEW d \in Docs PROVE Listed(d)
  <2>1. PICK s \in Servers : TRUE
    BY ServiceAssumption
  <2>2. alone /\ \A r \in Servers : op[r].at = "idle"
    BY <1>3, IdleTyped DEF Quiet, Free
  <2>3. IndexHolds(s)
    BY <1>3, <2>2 DEF Sound, OnlyActive, At
  <2> QED BY <2>2, <2>3 DEF IndexHolds, At
<1>4. Typed /\ Sound => LogIsComplete /\ IndexListsDocuments
  BY <1>2, <1>3 DEF LogIsComplete, IndexListsDocuments, NoneSplit, Listed
<1>5. Typed /\ Sound => ServiceFilesAgree
  BY <1>1, <1>4 DEF ServiceFilesAgree, Sound
<1> QED BY <1>5, SpecSound, PTL

-----------------------------------------------------------------------------
(* The synchronisation with a wiki *)

WikiBodies == Bodies \cup {Sync!NoBody}
OkfFiles == [body : Bodies, mark : {"owner", "wiki", "default"}] \cup {Sync!NoFile}
WikiPages == [body : Bodies, mark : {"wiki", "none"}] \cup {Sync!NoFile}
Runs ==
  [on : BOOLEAN, todo : SUBSET WikiFiles, inOkf : SUBSET WikiFiles, inWiki : SUBSET WikiFiles,
   direction : {"none", "pull", "push", "bidirectional"},
   strategy : {"none", "fail", "prefer-okf", "prefer-wiki"}, dry : BOOLEAN,
   entries : [WikiFiles -> WikiBodies], conflict : BOOLEAN,
   reading : SUBSET WikiFiles, okf : OkfFiles, wiki : WikiPages]

SyncTyped ==
  /\ okf \in [WikiFiles -> OkfFiles] /\ wiki \in [WikiFiles -> WikiPages]
  /\ manifest \in [WikiFiles -> WikiBodies] /\ agreed \in [WikiFiles -> WikiBodies]
  /\ known \in [WikiFiles -> SUBSET Bodies] /\ touched \in SUBSET WikiFiles
  /\ sync \in Runs /\ died \in BOOLEAN
  /\ ~sync.on => sync.todo = {} /\ sync.reading = {}

\* A run reads, of one file at a time, what the lists name.
ReadsListed ==
  /\ sync.todo \subseteq sync.inOkf \cup sync.inWiki
  /\ \A f \in sync.reading :
       /\ f \in sync.todo /\ sync.reading = {f}
       /\ f \in sync.inOkf <=> sync.okf # Sync!NoFile
       /\ f \in sync.inWiki <=> sync.wiki # Sync!NoFile

\* As long as no run has died, what the entries say, of the manifest or of the run in
\* progress, is what the two sides last agreed on.
BaseIsAgreed ==
  ~died =>
    /\ ~sync.on => manifest = agreed
    /\ sync.on => sync.entries = agreed
    /\ sync.on /\ sync.dry => manifest = agreed

\* Whatever has died, an entry is a body that both sides have had.
BaseIsKnown ==
  \A f \in WikiFiles :
    /\ manifest[f] \in known[f] \cup {Sync!NoBody}
    /\ sync.on => sync.entries[f] \in known[f] \cup {Sync!NoBody}

\* Of a file that nobody has edited since, the lists and what was read are right.
ListsHold ==
  sync.on =>
    \A f \in sync.todo \ touched :
      /\ f \in sync.inOkf <=> Sync!InOkf(f)
      /\ f \in sync.inWiki <=> Sync!InWiki(f)
      /\ f \in sync.reading => sync.okf = okf[f] /\ sync.wiki = wiki[f]

\* A run in both directions that has met no conflict has made the files alike that it is
\* through with and that nobody has edited.
DoneAlike ==
  /\ sync.on => report = Sync!NoReport
  /\ sync.on /\ ~sync.conflict /\ ~sync.dry /\ sync.direction = "bidirectional" =>
       \A f \in WikiFiles : f \notin sync.todo /\ f \notin touched => okf[f].body = wiki[f].body

SyncInv ==
  /\ SyncTyped /\ ReadsListed /\ BaseIsAgreed /\ BaseIsKnown /\ ListsHold /\ DoneAlike
  /\ Sync!ReportMeansAlike

LEMMA IdleIsRun == Sync!Idle \in Runs
BY DEF Sync!Idle, Runs, OkfFiles, WikiPages, WikiBodies

LEMMA SyncStarts == Sync!Init => SyncInv
<1> SUFFICES ASSUME Sync!Init PROVE SyncInv
  OBVIOUS
<1>1. SyncTyped
  BY IdleIsRun DEF Sync!Init, SyncTyped, OkfFiles, WikiPages, WikiBodies, Sync!Idle
<1>2. ReadsListed /\ BaseIsAgreed /\ BaseIsKnown /\ ListsHold
  BY DEF Sync!Init, ReadsListed, BaseIsAgreed, BaseIsKnown, ListsHold, Sync!Idle
<1>3. DoneAlike /\ Sync!ReportMeansAlike
  BY DEF Sync!Init, DoneAlike, Sync!ReportMeansAlike, Sync!Idle, Sync!NoReport
<1> QED BY <1>1, <1>2, <1>3 DEF SyncInv

\* People change one file, which counts as edited from then on.
LEMMA EditTouches ==
  ASSUME SyncInv, NEW f \in WikiFiles, Sync!EditOkf(f) \/ Sync!EditWiki(f) \/ Sync!DeleteFile(f)
  PROVE  /\ okf' \in [WikiFiles -> OkfFiles] /\ wiki' \in [WikiFiles -> WikiPages]
         /\ \A g \in WikiFiles : g # f => okf'[g] = okf[g] /\ wiki'[g] = wiki[g]
         /\ touched' = touched \cup {f} /\ UNCHANGED <<manifest, sync, report, agreed, known, died>>
<1>1. touched' = touched \cup {f} /\ UNCHANGED <<manifest, sync, report, agreed, known, died>>
  BY DEF Sync!EditOkf, Sync!EditWiki, Sync!DeleteFile
<1>2. okf \in [WikiFiles -> OkfFiles] /\ wiki \in [WikiFiles -> WikiPages]
  BY DEF SyncInv, SyncTyped
<1>3. CASE Sync!EditOkf(f)
  <2>1. PICK b \in Bodies : okf' = [okf EXCEPT ![f] = [body |-> b, mark |-> "owner"]]
    BY <1>3 DEF Sync!EditOkf
  <2>2. [body |-> b, mark |-> "owner"] \in OkfFiles
    BY DEF OkfFiles
  <2> QED BY <1>1, <1>2, <1>3, <2>1, <2>2 DEF Sync!EditOkf
<1>4. CASE Sync!EditWiki(f)
  <2>1. PICK b \in Bodies, m \in {"wiki", "none"} : wiki' = [wiki EXCEPT ![f] = [body |-> b, mark |-> m]]
    BY <1>4 DEF Sync!EditWiki
  <2>2. [body |-> b, mark |-> m] \in WikiPages
    BY DEF WikiPages
  <2> QED BY <1>1, <1>2, <1>4, <2>1, <2>2 DEF Sync!EditWiki
<1>5. CASE Sync!DeleteFile(f)
  <2>1. Sync!NoFile \in OkfFiles /\ Sync!NoFile \in WikiPages
    BY DEF OkfFiles, WikiPages
  <2> QED BY <1>1, <1>2, <1>5, <2>1 DEF Sync!DeleteFile
<1> QED BY <1>3, <1>4, <1>5

LEMMA EditStep ==
  ASSUME SyncInv, NEW f \in WikiFiles, Sync!EditOkf(f) \/ Sync!EditWiki(f) \/ Sync!DeleteFile(f)
  PROVE  SyncInv'
<1>1. /\ okf' \in [WikiFiles -> OkfFiles] /\ wiki' \in [WikiFiles -> WikiPages]
      /\ \A g \in WikiFiles : g # f => okf'[g] = okf[g] /\ wiki'[g] = wiki[g]
      /\ touched' = touched \cup {f} /\ UNCHANGED <<manifest, sync, report, agreed, known, died>>
  BY EditTouches
<1>2. SyncTyped' /\ sync \in Runs
  BY <1>1 DEF SyncInv, SyncTyped
<1>3. ReadsListed' /\ BaseIsAgreed' /\ BaseIsKnown'
  BY <1>1 DEF SyncInv, ReadsListed, BaseIsAgreed, BaseIsKnown
<1>4. ListsHold'
  BY <1>1, <1>2 DEF SyncInv, ListsHold, Runs, Sync!InOkf, Sync!InWiki
<1>5. DoneAlike'
  BY <1>1 DEF SyncInv, DoneAlike
<1>6. Sync!ReportMeansAlike'
  BY <1>1 DEF SyncInv, Sync!ReportMeansAlike
<1> QED BY <1>2, <1>3, <1>4, <1>5, <1>6 DEF SyncInv

LEMMA StartStep == ASSUME SyncInv, Sync!Start PROVE SyncInv'
<1> DEFINE documents == {f \in WikiFiles : Sync!InOkf(f)}
           pages == {f \in WikiFiles : Sync!InWiki(f)}
           either == {f \in WikiFiles : Sync!InOkf(f) \/ Sync!InWiki(f)}
           Run(d, c, dry) ==
             [on |-> TRUE, todo |-> either, inOkf |-> documents, inWiki |-> pages,
              direction |-> d, strategy |-> c, dry |-> dry, entries |-> manifest,
              conflict |-> FALSE, reading |-> {}, okf |-> Sync!NoFile, wiki |-> Sync!NoFile]
<1>1. \E d \in {"pull", "push", "bidirectional"}, c \in {"fail", "prefer-okf", "prefer-wiki"},
         dry \in BOOLEAN : sync' = Run(d, c, dry)
  BY Zenon DEF Sync!Start
<1>2. ~sync.on /\ touched' = {} /\ report' = Sync!NoReport /\ UNCHANGED <<okf, wiki, manifest, agreed, known, died>>
  BY DEF Sync!Start
<1>3. /\ manifest \in [WikiFiles -> WikiBodies]
      /\ documents \in SUBSET WikiFiles /\ pages \in SUBSET WikiFiles /\ either \in SUBSET WikiFiles
      /\ either \subseteq documents \cup pages
      /\ \A f \in WikiFiles : /\ f \in documents <=> Sync!InOkf(f)
                              /\ f \in pages <=> Sync!InWiki(f)
                              /\ f \notin either => ~Sync!InOkf(f) /\ ~Sync!InWiki(f)
  BY DEF SyncInv, SyncTyped
<1> HIDE DEF documents, pages, either
<1>4. /\ sync'.on /\ sync'.reading = {} /\ sync'.entries = manifest
      /\ sync'.inOkf = documents /\ sync'.inWiki = pages /\ sync'.todo = either
  BY <1>1
<1>5. sync' \in Runs
  <2>1. Sync!NoFile \in OkfFiles /\ Sync!NoFile \in WikiPages
    BY DEF OkfFiles, WikiPages
  <2> QED BY <1>1, <1>3, <2>1 DEF Runs
<1>6. SyncTyped'
  BY <1>2, <1>4, <1>5 DEF SyncInv, SyncTyped
<1>7. ReadsListed'
  BY <1>3, <1>4 DEF ReadsListed
<1>8. BaseIsAgreed' /\ BaseIsKnown'
  BY <1>2, <1>4 DEF SyncInv, BaseIsAgreed, BaseIsKnown
<1>9. ListsHold'
  BY <1>2, <1>3, <1>4 DEF ListsHold, Sync!InOkf, Sync!InWiki
<1>10. DoneAlike'
  BY <1>2, <1>3, <1>4 DEF DoneAlike, Sync!InOkf, Sync!InWiki, Sync!NoFile
<1>11. Sync!ReportMeansAlike'
  BY <1>4 DEF Sync!ReportMeansAlike
<1> QED BY <1>6, <1>7, <1>8, <1>9, <1>10, <1>11 DEF SyncInv

LEMMA PassStep == ASSUME SyncInv, NEW f \in WikiFiles, Sync!PassBy(f) PROVE SyncInv'
<1>1. /\ f \in sync.todo /\ sync.reading = {} /\ Sync!Passes(f)
      /\ sync' = [sync EXCEPT !.todo = sync.todo \ {f}]
      /\ UNCHANGED <<okf, wiki, manifest, report, touched, agreed, known, died>>
  BY DEF Sync!PassBy, Sync!Done
<1>2. sync \in Runs /\ sync.direction # "bidirectional" /\ sync.on
  BY <1>1 DEF SyncInv, SyncTyped, Sync!Passes
<1>3. SyncTyped'
  BY <1>1, <1>2 DEF SyncInv, SyncTyped, Runs
<1>4. ReadsListed' /\ BaseIsAgreed' /\ BaseIsKnown'
  BY <1>1, <1>2 DEF SyncInv, ReadsListed, BaseIsAgreed, BaseIsKnown, Runs
<1>5. ListsHold'
  BY <1>1, <1>2 DEF SyncInv, ListsHold, Runs, Sync!InOkf, Sync!InWiki
<1>6. DoneAlike' /\ Sync!ReportMeansAlike'
  BY <1>1, <1>2 DEF SyncInv, DoneAlike, Sync!ReportMeansAlike, Runs
<1> QED BY <1>3, <1>4, <1>5, <1>6 DEF SyncInv

LEMMA ReadStep == ASSUME SyncInv, NEW f \in WikiFiles, Sync!Read(f) PROVE SyncInv'
<1> DEFINE document == IF f \in sync.inOkf THEN okf[f] ELSE Sync!NoFile
           page == IF f \in sync.inWiki THEN wiki[f] ELSE Sync!NoFile
<1>1. /\ f \in sync.todo /\ sync.reading = {}
      /\ f \in sync.inOkf => Sync!InOkf(f)
      /\ f \in sync.inWiki => Sync!InWiki(f)
      /\ sync' = [sync EXCEPT !.reading = {f}, !.okf = document, !.wiki = page]
      /\ UNCHANGED <<okf, wiki, manifest, report, touched, agreed, known, died>>
  BY DEF Sync!Read
<1>2. sync \in Runs /\ sync.on /\ document \in OkfFiles /\ page \in WikiPages
  BY <1>1 DEF SyncInv, SyncTyped, OkfFiles, WikiPages
<1>3. /\ f \in sync.inOkf <=> document # Sync!NoFile
      /\ f \in sync.inWiki <=> page # Sync!NoFile
  BY <1>1 DEF Sync!InOkf, Sync!InWiki
<1>4. f \notin touched => document = okf[f] /\ page = wiki[f]
  BY <1>1, <1>2 DEF SyncInv, ListsHold, Sync!InOkf, Sync!InWiki
<1> HIDE DEF document, page
<1>5. SyncTyped'
  BY <1>1, <1>2 DEF SyncInv, SyncTyped, Runs
<1>6. ReadsListed'
  BY <1>1, <1>2, <1>3 DEF SyncInv, ReadsListed, Runs
<1>7. BaseIsAgreed' /\ BaseIsKnown'
  BY <1>1, <1>2 DEF SyncInv, BaseIsAgreed, BaseIsKnown, Runs
<1>8. ListsHold'
  BY <1>1, <1>2, <1>4 DEF SyncInv, ListsHold, Runs, Sync!InOkf, Sync!InWiki
<1>9. DoneAlike' /\ Sync!ReportMeansAlike'
  BY <1>1, <1>2 DEF SyncInv, DoneAlike, Sync!ReportMeansAlike, Runs
<1> QED BY <1>5, <1>6, <1>7, <1>8, <1>9 DEF SyncInv

LEMMA FinishStep == ASSUME SyncInv, Sync!Finish PROVE SyncInv'
<1>1. /\ sync.on /\ sync.todo = {}
      /\ manifest' = IF sync.dry THEN manifest ELSE sync.entries
      /\ report' = [ok |-> ~sync.conflict, direction |-> sync.direction, dry |-> sync.dry]
      /\ sync' = Sync!Idle
      /\ UNCHANGED <<okf, wiki, touched, agreed, known, died>>
  BY DEF Sync!Finish
<1>2. /\ ~sync'.on /\ sync'.todo = {} /\ sync'.reading = {}
  BY <1>1 DEF Sync!Idle
<1>3. SyncTyped'
  BY <1>1, <1>2, IdleIsRun DEF SyncInv, SyncTyped, Runs
<1>4. ReadsListed' /\ ListsHold'
  BY <1>2 DEF ReadsListed, ListsHold
<1>5. BaseIsAgreed' /\ BaseIsKnown'
  BY <1>1, <1>2 DEF SyncInv, BaseIsAgreed, BaseIsKnown
<1>6. DoneAlike' /\ Sync!ReportMeansAlike'
  BY <1>1, <1>2 DEF SyncInv, SyncTyped, Runs, DoneAlike, Sync!ReportMeansAlike
<1> QED BY <1>3, <1>4, <1>5, <1>6 DEF SyncInv

LEMMA DieStep == ASSUME SyncInv, Sync!Die PROVE SyncInv'
<1>1. /\ sync.on /\ sync' = Sync!Idle /\ died' = TRUE
      /\ manifest' \in {manifest, [f \in WikiFiles |-> Sync!NoBody]}
      /\ UNCHANGED <<okf, wiki, report, touched, agreed, known>>
  BY DEF Sync!Die
<1>2. /\ ~sync'.on /\ sync'.todo = {} /\ sync'.reading = {}
  BY <1>1 DEF Sync!Idle
<1>3. SyncTyped'
  BY <1>1, <1>2, IdleIsRun DEF SyncInv, SyncTyped, WikiBodies
<1>4. ReadsListed' /\ ListsHold'
  BY <1>2 DEF ReadsListed, ListsHold
<1>5. BaseIsAgreed' /\ BaseIsKnown'
  BY <1>1, <1>2 DEF SyncInv, BaseIsAgreed, BaseIsKnown
<1>6. DoneAlike' /\ Sync!ReportMeansAlike'
  BY <1>1, <1>2 DEF SyncInv, DoneAlike, Sync!ReportMeansAlike, Sync!NoReport
<1> QED BY <1>3, <1>4, <1>5, <1>6 DEF SyncInv

\* One turn is through with one file, and touches no other.
Turn(f) ==
  /\ sync' \in Runs /\ sync'.todo = sync.todo \ {f} /\ sync'.reading = {}
  /\ sync'.inOkf = sync.inOkf /\ sync'.inWiki = sync.inWiki
  /\ sync'.on = sync.on /\ sync'.dry = sync.dry /\ sync'.direction = sync.direction
  /\ okf' \in [WikiFiles -> OkfFiles] /\ wiki' \in [WikiFiles -> WikiPages]
  /\ agreed' \in [WikiFiles -> WikiBodies] /\ known' \in [WikiFiles -> SUBSET Bodies]
  /\ \A g \in WikiFiles : g # f =>
       /\ okf'[g] = okf[g] /\ wiki'[g] = wiki[g]
       /\ agreed'[g] = agreed[g] /\ known'[g] = known[g] /\ sync'.entries[g] = sync.entries[g]
  /\ known[f] \subseteq known'[f]
  /\ UNCHANGED <<manifest, report, touched, died>>

\* Both sides are as they were read.
AsRead(f) == okf[f] = sync.okf /\ wiki[f] = sync.wiki

\* It makes both sides alike, if they are as they were read, and notes it; or, in a dry run,
\* it leaves them.
Settles(f) ==
  /\ sync'.conflict = sync.conflict
  /\ IF sync.dry
     THEN UNCHANGED <<okf, wiki, agreed, known>> /\ sync'.entries = sync.entries
     ELSE /\ AsRead(f) => okf'[f].body = wiki'[f].body
          /\ sync'.entries[f] = agreed'[f] /\ agreed'[f] \in known'[f]

\* The step that ends a turn with one body for both, b.
LEMMA AgreeTurns ==
  ASSUME SyncInv, NEW f \in WikiFiles, f \in sync.reading, NEW b \in Bodies, Sync!Agree(f, b),
         okf' \in [WikiFiles -> OkfFiles], wiki' \in [WikiFiles -> WikiPages],
         \A g \in WikiFiles : g # f => okf'[g] = okf[g] /\ wiki'[g] = wiki[g],
         sync.dry => okf' = okf /\ wiki' = wiki,
         ~sync.dry /\ AsRead(f) => okf'[f].body = wiki'[f].body
  PROVE  Turn(f) /\ Settles(f)
<1> DEFINE e == IF sync.dry THEN sync.entries[f] ELSE b
<1>1. /\ sync' = [[sync EXCEPT !.todo = sync.todo \ {f}, !.reading = {}, !.okf = Sync!NoFile, !.wiki = Sync!NoFile]
                    EXCEPT !.entries[f] = e]
      /\ agreed' = IF sync.dry THEN agreed ELSE [agreed EXCEPT ![f] = b]
      /\ known' = IF sync.dry THEN known ELSE [known EXCEPT ![f] = known[f] \cup {b}]
      /\ UNCHANGED <<manifest, report, touched, died>>
  BY DEF Sync!Agree, Sync!Turned, Sync!Done
<1>2. sync \in Runs /\ e \in WikiBodies /\ Sync!NoFile \in OkfFiles /\ Sync!NoFile \in WikiPages
  BY DEF SyncInv, SyncTyped, Runs, WikiBodies, OkfFiles, WikiPages
<1>3. /\ agreed \in [WikiFiles -> WikiBodies] /\ known \in [WikiFiles -> SUBSET Bodies] /\ b \in WikiBodies
  BY DEF SyncInv, SyncTyped, WikiBodies
<1>4. ~sync.dry => e = b
  OBVIOUS
<1>5. sync.dry => e = sync.entries[f]
  OBVIOUS
<1> HIDE DEF e
<1>6. /\ sync' \in Runs /\ sync'.todo = sync.todo \ {f} /\ sync'.reading = {}
      /\ sync'.inOkf = sync.inOkf /\ sync'.inWiki = sync.inWiki /\ sync'.conflict = sync.conflict
      /\ sync'.on = sync.on /\ sync'.dry = sync.dry /\ sync'.direction = sync.direction
      /\ sync'.entries = [sync.entries EXCEPT ![f] = e]
  BY <1>1, <1>2 DEF Runs
<1>7. sync.entries \in [WikiFiles -> WikiBodies]
  BY <1>2 DEF Runs
<1>8. /\ agreed' \in [WikiFiles -> WikiBodies] /\ known' \in [WikiFiles -> SUBSET Bodies]
      /\ \A g \in WikiFiles : g # f =>
           agreed'[g] = agreed[g] /\ known'[g] = known[g] /\ sync'.entries[g] = sync.entries[g]
      /\ known[f] \subseteq known'[f]
  BY <1>1, <1>3, <1>6, <1>7
<1>9. Turn(f)
  BY <1>1, <1>6, <1>8 DEF Turn
<1>10. Settles(f)
  <2>1. CASE sync.dry
    <3>1. sync'.entries = sync.entries
      BY <1>5, <1>6, <1>7, <2>1
    <3> QED BY <1>1, <1>6, <2>1, <3>1 DEF Settles
  <2>2. CASE ~sync.dry
    <3>1. sync'.entries[f] = b /\ agreed'[f] = b /\ b \in known'[f]
      BY <1>1, <1>3, <1>4, <1>6, <1>7, <2>2
    <3> QED BY <1>6, <2>2, <3>1 DEF Settles
  <2> QED BY <2>1, <2>2
<1> QED BY <1>9, <1>10

LEMMA ToOkfTurns ==
  ASSUME SyncInv, NEW f \in WikiFiles, f \in sync.reading, f \in sync.inWiki, Sync!ToOkf(f)
  PROVE  /\ Turn(f) /\ Settles(f) /\ wiki' = wiki
         /\ okf[f].mark = "owner" /\ AsRead(f) => okf'[f].mark = "owner"
<1>1. sync.wiki.body \in Bodies /\ sync.wiki.mark \in {"wiki", "none"}
  BY DEF SyncInv, SyncTyped, ReadsListed, WikiPages, Runs
<1>2. sync.okf.mark \in {"owner", "wiki", "default", "none"}
  BY DEF SyncInv, SyncTyped, OkfFiles, Sync!NoFile, Runs
<1> DEFINE mark == Sync!MergeWikiIntoOkf(sync.okf.mark, sync.wiki.mark)
           file == [body |-> sync.wiki.body, mark |-> mark]
<1>3. mark \in {"owner", "wiki", "default"} /\ (sync.okf.mark = "owner" => mark = "owner")
  BY <1>1, <1>2 DEF Sync!MergeWikiIntoOkf
<1>4. /\ okf' = IF sync.dry THEN okf ELSE [okf EXCEPT ![f] = file]
      /\ wiki' = wiki /\ Sync!Agree(f, sync.wiki.body)
  BY DEF Sync!ToOkf
<1>5. file \in OkfFiles /\ file.body = sync.wiki.body /\ (sync.okf.mark = "owner" => file.mark = "owner")
  BY <1>1, <1>3 DEF OkfFiles
<1>6. okf \in [WikiFiles -> OkfFiles] /\ wiki \in [WikiFiles -> WikiPages]
  BY DEF SyncInv, SyncTyped
<1> HIDE DEF mark, file
<1>7. /\ okf' \in [WikiFiles -> OkfFiles] /\ wiki' \in [WikiFiles -> WikiPages]
      /\ \A g \in WikiFiles : g # f => okf'[g] = okf[g] /\ wiki'[g] = wiki[g]
      /\ sync.dry => okf' = okf /\ wiki' = wiki
      /\ ~sync.dry => okf'[f] = file
  BY <1>4, <1>5, <1>6
<1>8. ~sync.dry /\ AsRead(f) => okf'[f].body = wiki'[f].body
  BY <1>4, <1>5, <1>7 DEF AsRead
<1>9. Turn(f) /\ Settles(f)
  BY <1>1, <1>4, <1>7, <1>8, AgreeTurns
<1>10. okf[f].mark = "owner" /\ AsRead(f) => okf'[f].mark = "owner"
  BY <1>5, <1>7 DEF AsRead
<1> QED BY <1>4, <1>9, <1>10

LEMMA ToWikiTurns ==
  ASSUME SyncInv, NEW f \in WikiFiles, f \in sync.reading, f \in sync.inOkf, Sync!ToWiki(f)
  PROVE  Turn(f) /\ Settles(f) /\ okf' = okf
<1> DEFINE page == [body |-> sync.okf.body, mark |-> "none"]
<1>1. sync.okf.body \in Bodies
  BY DEF SyncInv, SyncTyped, ReadsListed, OkfFiles, Runs
<1>2. /\ wiki' = IF sync.dry THEN wiki ELSE [wiki EXCEPT ![f] = page]
      /\ okf' = okf /\ Sync!Agree(f, sync.okf.body)
  BY DEF Sync!ToWiki
<1>3. page \in WikiPages /\ page.body = sync.okf.body
  BY <1>1 DEF WikiPages
<1>4. okf \in [WikiFiles -> OkfFiles] /\ wiki \in [WikiFiles -> WikiPages]
  BY DEF SyncInv, SyncTyped
<1> HIDE DEF page
<1>5. /\ okf' \in [WikiFiles -> OkfFiles] /\ wiki' \in [WikiFiles -> WikiPages]
      /\ \A g \in WikiFiles : g # f => okf'[g] = okf[g] /\ wiki'[g] = wiki[g]
      /\ sync.dry => okf' = okf /\ wiki' = wiki
      /\ ~sync.dry => wiki'[f] = page
  BY <1>2, <1>3, <1>4
<1>6. ~sync.dry /\ AsRead(f) => okf'[f].body = wiki'[f].body
  BY <1>2, <1>3, <1>5 DEF AsRead
<1> QED BY <1>1, <1>2, <1>5, <1>6, AgreeTurns

LEMMA InSyncTurns ==
  ASSUME SyncInv, NEW f \in WikiFiles, f \in sync.reading, f \in sync.inOkf, Sync!InSync(f)
  PROVE  Turn(f) /\ Settles(f) /\ UNCHANGED <<okf, wiki>>
<1>1. sync.okf.body \in Bodies
  BY DEF SyncInv, SyncTyped, ReadsListed, OkfFiles, Runs
<1>2. sync.okf.body = sync.wiki.body /\ Sync!Agree(f, sync.okf.body) /\ UNCHANGED <<okf, wiki>>
  BY DEF Sync!InSync
<1>3. okf' \in [WikiFiles -> OkfFiles] /\ wiki' \in [WikiFiles -> WikiPages]
  BY <1>2 DEF SyncInv, SyncTyped
<1>4. AsRead(f) => okf'[f].body = wiki'[f].body
  BY <1>2 DEF AsRead
<1> QED BY <1>1, <1>2, <1>3, <1>4, AgreeTurns

\* A conflict that the strategy leaves is noted, and nothing else happens.
LEMMA LeaveTurns ==
  ASSUME SyncInv, NEW f \in WikiFiles, f \in sync.reading,
         sync' = [Sync!Turned(f) EXCEPT !.conflict = TRUE],
         UNCHANGED <<okf, wiki, manifest, report, touched, agreed, known, died>>
  PROVE  Turn(f) /\ UNCHANGED <<okf, wiki>> /\ sync'.conflict /\ sync'.entries = sync.entries
<1>1. sync \in Runs /\ Sync!NoFile \in OkfFiles /\ Sync!NoFile \in WikiPages
  BY DEF SyncInv, SyncTyped, OkfFiles, WikiPages
<1> QED BY <1>1 DEF Sync!Turned, Sync!Done, Turn, SyncInv, SyncTyped, Runs

\* What a turn leaves: the conflict is noted.
Leaves == UNCHANGED <<okf, wiki, agreed, known>> /\ sync'.entries = sync.entries /\ sync'.conflict

\* A side of which both agreed on the body is not the one that is kept.
LEMMA TurnOf ==
  ASSUME SyncInv, NEW f \in WikiFiles, Sync!Write(f)
  PROVE  /\ Turn(f) /\ (Settles(f) \/ Leaves)
         /\ okf[f].mark = "owner" /\ AsRead(f) => okf'[f].mark = "owner"
         /\ sync.direction = "bidirectional" /\ f \in sync.inOkf /\ f \in sync.inWiki =>
              /\ ~Sync!WikiChanged(f) => okf' = okf
              /\ ~Sync!OkfChanged(f) => wiki' = wiki
              /\ sync.strategy = "fail" =>
                   (okf' # okf => ~Sync!OkfChanged(f)) /\ (wiki' # wiki => ~Sync!WikiChanged(f))
<1>0. f \in sync.reading
  BY DEF Sync!Write
<1>1. CASE Sync!ImportNew(f)
  BY <1>0, <1>1, ToOkfTurns DEF Sync!ImportNew, Sync!Imports
<1>2. CASE Sync!ExportNew(f)
  BY <1>0, <1>2, ToWikiTurns DEF Sync!ExportNew, Sync!Exports
<1>3. CASE Sync!Compare(f)
  <2>0. f \in sync.inOkf /\ f \in sync.inWiki
    BY <1>0, <1>3 DEF Sync!Compare, Sync!Imports, Sync!Exports, SyncInv, ReadsListed
  <2>1. CASE sync.okf.body = sync.wiki.body
    BY <1>0, <1>3, <2>0, <2>1, InSyncTurns DEF Sync!Compare
  <2>2. CASE sync.okf.body # sync.wiki.body /\ Sync!PullChange(f)
    <3>1. Sync!ToOkf(f)
      BY <1>3, <2>2 DEF Sync!Compare
    <3>2. sync.direction = "bidirectional" => ~Sync!OkfChanged(f) /\ Sync!WikiChanged(f)
      BY <2>2 DEF Sync!PullChange
    <3> QED BY <1>0, <2>0, <3>1, <3>2, ToOkfTurns
  <2>3. CASE sync.okf.body # sync.wiki.body /\ ~Sync!PullChange(f) /\ Sync!PushChange(f)
    <3>1. Sync!ToWiki(f)
      BY <1>3, <2>3 DEF Sync!Compare
    <3>2. sync.direction = "bidirectional" => Sync!OkfChanged(f) /\ ~Sync!WikiChanged(f)
      BY <2>3 DEF Sync!PushChange
    <3> QED BY <1>0, <2>0, <3>1, <3>2, ToWikiTurns
  <2>4. CASE sync.okf.body # sync.wiki.body /\ ~Sync!PullChange(f) /\ ~Sync!PushChange(f)
    <3>1. Sync!Conflict(f)
      BY <1>3, <2>4 DEF Sync!Compare
    <3>2. Sync!OkfChanged(f) /\ Sync!WikiChanged(f)
      <4>1. Sync!OkfChanged(f) \/ Sync!WikiChanged(f)
        BY <2>4 DEF Sync!OkfChanged, Sync!WikiChanged
      <4> QED BY <2>4, <4>1 DEF Sync!PullChange, Sync!PushChange
    <3>3. CASE sync.strategy = "fail"
      BY <1>0, <3>1, <3>2, <3>3, LeaveTurns DEF Sync!Conflict, Leaves
    <3>4. CASE sync.strategy = "prefer-wiki"
      BY <1>0, <2>0, <3>1, <3>2, <3>4, ToOkfTurns DEF Sync!Conflict
    <3>5. CASE sync.strategy \notin {"fail", "prefer-wiki"}
      BY <1>0, <2>0, <3>1, <3>2, <3>5, ToWikiTurns DEF Sync!Conflict
    <3> QED BY <3>3, <3>4, <3>5
  <2> QED BY <2>1, <2>2, <2>3, <2>4
<1> QED BY <1>1, <1>2, <1>3 DEF Sync!Write

LEMMA TurnStep == ASSUME SyncInv, NEW f \in WikiFiles, Sync!Write(f) PROVE SyncInv'
<1>1. f \in sync.reading /\ Turn(f) /\ (Settles(f) \/ Leaves)
  BY TurnOf DEF Sync!Write
<1>2. f \in sync.todo /\ sync.reading = {f} /\ sync.on /\ sync'.on
  BY <1>1 DEF SyncInv, SyncTyped, ReadsListed, Turn
<1>3. SyncTyped'
  BY <1>1, <1>2 DEF SyncInv, SyncTyped, Turn
<1>4. ReadsListed'
  BY <1>1 DEF SyncInv, ReadsListed, Turn
<1>5. BaseIsAgreed'
  <2>1. sync.entries = agreed => sync'.entries = agreed'
    <3>1. sync.entries[f] = agreed[f] => sync'.entries[f] = agreed'[f]
      BY <1>1 DEF Settles, Leaves
    <3>2. /\ sync'.entries \in [WikiFiles -> WikiBodies] /\ agreed' \in [WikiFiles -> WikiBodies]
          /\ sync.entries \in [WikiFiles -> WikiBodies] /\ agreed \in [WikiFiles -> WikiBodies]
      BY <1>3 DEF SyncInv, SyncTyped, Runs
    <3> QED BY <1>1, <3>1, <3>2 DEF Turn
  <2>2. sync.dry => agreed' = agreed
    BY <1>1 DEF Settles, Leaves
  <2> QED BY <1>1, <1>2, <2>1, <2>2 DEF SyncInv, BaseIsAgreed, Turn
<1>6. BaseIsKnown'
  <2>1. SUFFICES ASSUME NEW g \in WikiFiles
                 PROVE  /\ manifest'[g] \in known'[g] \cup {Sync!NoBody}
                        /\ sync'.entries[g] \in known'[g] \cup {Sync!NoBody}
    BY DEF BaseIsKnown
  <2>2. manifest[g] \in known[g] \cup {Sync!NoBody} /\ sync.entries[g] \in known[g] \cup {Sync!NoBody}
    BY <1>2 DEF SyncInv, BaseIsKnown
  <2>3. CASE g # f
    BY <1>1, <2>2, <2>3 DEF Turn
  <2>4. CASE g = f
    <3>1. known[f] \subseteq known'[f] /\ manifest' = manifest
      BY <1>1 DEF Turn
    <3>2. sync'.entries[f] = sync.entries[f] \/ sync'.entries[f] \in known'[f]
      BY <1>1 DEF Settles, Leaves
    <3> QED BY <2>2, <2>4, <3>1, <3>2
  <2> QED BY <2>3, <2>4
<1>7. ListsHold'
  BY <1>1, <1>3 DEF SyncInv, ListsHold, Turn, SyncTyped, Runs, Sync!InOkf, Sync!InWiki
<1>8. DoneAlike'
  <2>1. report' = Sync!NoReport
    BY <1>1, <1>2 DEF SyncInv, DoneAlike, Turn
  <2>2. ASSUME ~sync'.conflict, ~sync'.dry, sync'.direction = "bidirectional",
               NEW g \in WikiFiles, g \notin sync'.todo, g \notin touched'
        PROVE  okf'[g].body = wiki'[g].body
    <3>1. Settles(f) /\ ~sync.conflict /\ ~sync.dry /\ sync.direction = "bidirectional" /\ g \notin touched
      BY <1>1, <2>2 DEF Leaves, Settles, Turn
    <3>2. CASE g = f
      <4>1. AsRead(f)
        BY <1>1, <1>2, <3>1, <3>2 DEF SyncInv, ListsHold, AsRead
      <4> QED BY <3>1, <3>2, <4>1 DEF Settles
    <3>3. CASE g # f
      BY <1>1, <1>2, <2>2, <3>1, <3>3 DEF SyncInv, DoneAlike, Turn
    <3> QED BY <3>2, <3>3
  <2> QED BY <2>1, <2>2 DEF DoneAlike
<1>9. Sync!ReportMeansAlike'
  BY <1>2 DEF Sync!ReportMeansAlike
<1> QED BY <1>3, <1>4, <1>5, <1>6, <1>7, <1>8, <1>9 DEF SyncInv

LEMMA SyncStep == SyncInv /\ [Sync!Next]_syncVars => SyncInv'
<1> SUFFICES ASSUME SyncInv, [Sync!Next]_syncVars PROVE SyncInv'
  OBVIOUS
<1>1. CASE UNCHANGED syncVars
  BY <1>1 DEF syncVars, SyncInv, SyncTyped, ReadsListed, BaseIsAgreed, BaseIsKnown, ListsHold, DoneAlike,
              Sync!ReportMeansAlike, Sync!InOkf, Sync!InWiki
<1>2. CASE Sync!Next
  BY <1>2, EditStep, PassStep, ReadStep, StartStep, FinishStep, DieStep, TurnStep DEF Sync!Next
<1> QED BY <1>1, <1>2

\* A behaviour of the whole is one of each of its parts.
LEMMA SyncMoves == MCNext => [Sync!Next]_syncVars
BY DEF MCNext

\* What was being read is no more, and the run goes on: the file was written.
LEMMA WritesByWrite ==
  ASSUME SyncInv, [Sync!Next]_syncVars, NEW f \in WikiFiles, Sync!Writes(f)
  PROVE  Sync!Write(f) /\ AsRead(f) /\ sync.on
<1>1. f \in sync.reading /\ sync'.reading = {} /\ sync'.on /\ sync.on /\ AsRead(f)
  BY DEF Sync!Writes, SyncInv, SyncTyped, AsRead
<1>2. Sync!Next
  BY <1>1 DEF syncVars
<1>3. PICK g \in WikiFiles : Sync!Write(g)
  <2>1. ASSUME NEW g \in WikiFiles PROVE ~(Sync!EditOkf(g) \/ Sync!EditWiki(g) \/ Sync!DeleteFile(g))
    <3>1. sync' = sync => sync.reading = {}
      BY <1>1
    <3> QED BY <1>1, <3>1, EditTouches
  <2>2. ASSUME NEW g \in WikiFiles PROVE ~Sync!PassBy(g) /\ ~Sync!Read(g)
    BY <1>1 DEF Sync!PassBy, Sync!Read
  <2>3. ~Sync!Start /\ ~Sync!Finish /\ ~Sync!Die
    BY <1>1 DEF Sync!Start, Sync!Finish, Sync!Die, Sync!Idle
  <2> QED BY <1>2, <2>1, <2>2, <2>3 DEF Sync!Next
<1>4. g = f
  BY <1>1, <1>3 DEF Sync!Write, SyncInv, ReadsListed
<1> QED BY <1>1, <1>3, <1>4

LEMMA OneSided ==
  ASSUME SyncInv, [Sync!Next]_syncVars, NEW f \in WikiFiles,
         Sync!Writes(f), sync.direction = "bidirectional", Sync!InOkf(f), Sync!InWiki(f)
  PROVE  /\ ~died =>
              /\ wiki[f].body = agreed[f] => okf'[f].body = okf[f].body
              /\ okf[f].body = agreed[f] => wiki'[f].body = wiki[f].body
         /\ sync.strategy = "fail" =>
              /\ okf'[f].body # okf[f].body => okf[f].body \in known[f]
              /\ wiki'[f].body # wiki[f].body => wiki[f].body \in known[f]
<1>1. Sync!Write(f) /\ sync.on /\ f \in sync.reading /\ okf[f] = sync.okf /\ wiki[f] = sync.wiki
  BY WritesByWrite DEF AsRead, Sync!Writes
<1>2. f \in sync.inOkf /\ f \in sync.inWiki
  BY <1>1 DEF SyncInv, ReadsListed, Sync!InOkf, Sync!InWiki
<1>3. ~died => sync.entries[f] = agreed[f]
  BY <1>1 DEF SyncInv, BaseIsAgreed
<1>4. sync.entries[f] \in known[f] \cup {Sync!NoBody}
  BY <1>1 DEF SyncInv, BaseIsKnown
<1>5. okf[f].body # Sync!NoBody /\ wiki[f].body # Sync!NoBody
  BY MCAssumption DEF SyncInv, SyncTyped, OkfFiles, WikiPages, Sync!SyncAssumption, Sync!InOkf, Sync!InWiki
<1>6. /\ ~died /\ wiki[f].body = agreed[f] => ~Sync!WikiChanged(f)
      /\ ~died /\ okf[f].body = agreed[f] => ~Sync!OkfChanged(f)
      /\ ~Sync!WikiChanged(f) => wiki[f].body \in known[f]
      /\ ~Sync!OkfChanged(f) => okf[f].body \in known[f]
  BY <1>1, <1>3, <1>4, <1>5 DEF Sync!WikiChanged, Sync!OkfChanged
<1> QED BY <1>1, <1>2, <1>6, TurnOf

LEMMA Governed ==
  ASSUME SyncInv, [Sync!Next]_syncVars, NEW f \in WikiFiles, Sync!Writes(f), okf[f].mark = "owner"
  PROVE  okf'[f].mark = "owner"
BY WritesByWrite, TurnOf

\* Whatever files, bodies and number of runs there are: of files that stand on both sides
\* as they were read, a body that only one side changed since both last agreed is not
\* written over as long as no run has died, and with the strategy "fail" none that only one
\* side has had, whatever has died; no run takes a governed key from a document that stands
\* as it was read; and a run that reports no conflict left alike what nobody has edited
\* since it listed the files (bidirectional-sync.ts).
THEOREM SyncNeverLoses == MCSpec => SyncLosesNothing
<1>1. MCInit => SyncInv
  BY SyncStarts DEF MCInit
<1>2. SyncInv /\ [MCNext]_mcVars => SyncInv'
  BY SyncStep, SyncMoves DEF mcVars
<1>3. SyncInv /\ [MCNext]_mcVars =>
        [\A f \in WikiFiles :
           Sync!Writes(f) /\ sync.direction = "bidirectional" /\ Sync!InOkf(f) /\ Sync!InWiki(f) =>
             /\ ~died =>
                  /\ wiki[f].body = agreed[f] => okf'[f].body = okf[f].body
                  /\ okf[f].body = agreed[f] => wiki'[f].body = wiki[f].body
             /\ sync.strategy = "fail" =>
                  /\ okf'[f].body # okf[f].body => okf[f].body \in known[f]
                  /\ wiki'[f].body # wiki[f].body => wiki[f].body \in known[f]]_(Sync!vars)
  BY OneSided, SyncMoves DEF mcVars, syncVars, Sync!vars
<1>4. SyncInv /\ [MCNext]_mcVars =>
        [\A f \in WikiFiles : Sync!Writes(f) /\ okf[f].mark = "owner" =>
           okf'[f].mark = "owner"]_(Sync!vars)
  BY Governed, SyncMoves DEF mcVars, syncVars, Sync!vars
<1>5. SyncInv => (part = "sync" => Sync!ReportMeansAlike)
  BY DEF SyncInv
<1> QED
  BY <1>1, <1>2, <1>3, <1>4, <1>5, PTL DEF MCSpec, SyncLosesNothing, Sync!OneSidedEditSurvives, Sync!GovernanceIsKept

-----------------------------------------------------------------------------
(* The releases *)

ConceptMaps == [ConceptIds -> Diff!ConceptStates]
CapMaps == [CapIds -> Diff!CapStates]

\* A bundle as the engine is given one.
Bundle(ir) ==
  /\ ir.concepts \in ConceptMaps /\ ir.links \subseteq Diff!Pairs
  /\ ir.policies \in Diff!Policies /\ ir.caps \in CapMaps

LEMMA PlainIsBundle == Bundle(Diff!Plain)
<1>1. /\ Diff!Plain.concepts = [c \in ConceptIds |-> Diff!NoConcept]
      /\ Diff!Plain.links = {}
      /\ Diff!Plain.policies = [autonomy |-> 1, disable |-> TRUE, approvals |-> {}, pii |-> Diff!None]
      /\ Diff!Plain.caps = [c \in CapIds |-> Diff!NoCap]
  BY DEF Diff!Plain
<1>2. Diff!Plain.policies \in Diff!Policies
  BY <1>1, MCAssumption DEF Diff!Policies, Diff!DiffAssumption
<1>3. Diff!Plain.concepts \in ConceptMaps
  BY <1>1 DEF ConceptMaps, Diff!ConceptStates
<1>4. Diff!Plain.caps \in CapMaps
  BY <1>1 DEF CapMaps, Diff!CapStates
<1> QED BY <1>1, <1>2, <1>3, <1>4 DEF Bundle

LEMMA Assembled ==
  ASSUME NEW cs \in ConceptMaps, NEW ls \in SUBSET Diff!Pairs, NEW p \in Diff!Policies, NEW k \in CapMaps
  PROVE  Bundle([concepts |-> cs, links |-> ls, policies |-> p, caps |-> k])
BY DEF Bundle

LEMMA VariantsAreBundles ==
  /\ \A ir \in Diff!Variants(Diff!Plain) : Bundle(ir)
  /\ \A ir \in Diff!Proposals : Bundle(ir)
<1> DEFINE base == Diff!Plain
<1>0. base = [concepts |-> base.concepts, links |-> base.links, policies |-> base.policies, caps |-> base.caps]
  BY DEF Diff!Plain
<1>1. base.concepts \in ConceptMaps /\ base.links \in SUBSET Diff!Pairs /\ base.policies \in Diff!Policies /\ base.caps \in CapMaps
  BY PlainIsBundle DEF Bundle
<1> HIDE DEF base
<1>2. ASSUME NEW cs \in ConceptMaps, NEW ls \in SUBSET Diff!Pairs
      PROVE  Bundle(Diff!Redrawn(base, cs, ls))
  <2> DEFINE R == [concepts : ConceptMaps, links : SUBSET Diff!Pairs, policies : Diff!Policies, caps : CapMaps]
             new == [base EXCEPT !.concepts = cs, !.links = ls]
  <2>1. base \in R
    BY <1>0, <1>1
  <2>2. new \in R
    BY <2>1
  <2> HIDE DEF new
  <2>3. Bundle(new)
    BY <2>2 DEF Bundle
  <2> QED BY <2>3 DEF new, Diff!Redrawn
<1>3. ASSUME NEW p \in Diff!Policies PROVE Bundle([base EXCEPT !.policies = p])
  <2>1. [base EXCEPT !.policies = p]
          = [concepts |-> base.concepts, links |-> base.links, policies |-> p, caps |-> base.caps]
    BY <1>0
  <2> QED BY <1>1, <2>1, Assembled
<1>4. ASSUME NEW cs \in CapMaps PROVE Bundle([base EXCEPT !.caps = cs])
  <2>1. [base EXCEPT !.caps = cs]
          = [concepts |-> base.concepts, links |-> base.links, policies |-> base.policies, caps |-> cs]
    BY <1>0
  <2> QED BY <1>1, <2>1, Assembled
<1> DEFINE A == {Diff!Redrawn(base, cs, ls) : cs \in ConceptMaps, ls \in SUBSET Diff!Pairs}
           B == {[base EXCEPT !.policies = p] : p \in Diff!Policies}
           C == {[base EXCEPT !.caps = cs] : cs \in CapMaps}
<1>5. ASSUME NEW ir \in A PROVE Bundle(ir)
  <2>1. PICK cs \in ConceptMaps, ls \in SUBSET Diff!Pairs : ir = Diff!Redrawn(base, cs, ls)
    OBVIOUS
  <2> QED BY <1>2, <2>1
<1>6. ASSUME NEW ir \in B PROVE Bundle(ir)
  BY <1>3
<1>7. ASSUME NEW ir \in C PROVE Bundle(ir)
  BY <1>4
<1>8. Diff!Variants(base) = A \cup B \cup C
  BY DEF Diff!Variants, ConceptMaps, CapMaps
<1>9. Diff!Proposals = IF first.policies # base.policies THEN B ELSE IF first.caps # base.caps THEN C ELSE A
  BY DEF Diff!Proposals, ConceptMaps, CapMaps, base
<1> HIDE DEF A, B, C
<1>10. \A ir \in A \cup B \cup C : Bundle(ir)
  BY <1>5, <1>6, <1>7
<1> QED BY <1>8, <1>9, <1>10 DEF base

\* What the first bundle asks for, the released one asks for as well.
NoConceptLost(a, b) ==
  /\ Diff!Ids(a) \subseteq Diff!Ids(b)
  /\ \A c \in Diff!Ids(a) : b.concepts[c].status \in {"active", a.concepts[c].status}
NoPolicyLoosened(p, q) ==
  /\ p.approvals \subseteq q.approvals /\ q.autonomy <= p.autonomy
  /\ (p.disable => q.disable) /\ (p.pii = "redact" => q.pii = "redact")
NoCapLoosened(c, d) ==
  /\ d.risk <= c.risk /\ d.effects <= c.effects
  /\ (c.approval => d.approval) /\ (d.reads => c.reads) /\ (d.writes => c.writes)
NoCapsLoosened(a, b) ==
  Diff!Caps(a) \subseteq Diff!Caps(b) /\ \A k \in Diff!Caps(a) : NoCapLoosened(a.caps[k], b.caps[k])
Keeps(a, b) ==
  NoConceptLost(a, b) /\ NoPolicyLoosened(a.policies, b.policies) /\ NoCapsLoosened(a, b)

LEMMA CapTyped ==
  ASSUME NEW c \in Diff!CapStates
  PROVE  c.risk \in Nat /\ c.effects \in Nat /\ c.approval \in BOOLEAN /\ c.reads \in BOOLEAN /\ c.writes \in BOOLEAN
<1>1. Levels \subseteq Nat
  BY MCAssumption DEF Diff!DiffAssumption
<1>2. CASE c = Diff!NoCap
  BY <1>2 DEF Diff!NoCap
<1>3. CASE c # Diff!NoCap
  BY <1>1, <1>3 DEF Diff!CapStates
<1> QED BY <1>2, <1>3

LEMMA PolicyTyped ==
  ASSUME NEW p \in Diff!Policies
  PROVE  p.autonomy \in Nat /\ p.disable \in BOOLEAN /\ p.approvals \subseteq Tools
BY MCAssumption DEF Diff!Policies, Diff!DiffAssumption

LEMMA ConceptsKept ==
  ASSUME NEW a, NEW b, Bundle(a), Bundle(b), ~Diff!ConceptsBreak(a, b)
  PROVE  NoConceptLost(a, b)
<1>1. Diff!Ids(a) \subseteq Diff!Ids(b)
  BY DEF Diff!ConceptsBreak, Diff!Removed
<1>2. ASSUME NEW c \in Diff!Ids(a) PROVE b.concepts[c].status \in {"active", a.concepts[c].status}
  <2>1. c \in Diff!Ids(b) /\ c \in ConceptIds
    BY <1>1 DEF Diff!Ids
  <2>2. b.concepts[c].status \in {"active", "deprecated", "archived"}
    BY <2>1 DEF Bundle, ConceptMaps, Diff!ConceptStates, Diff!Ids
  <2>3. CASE a.concepts[c] = b.concepts[c]
    BY <2>3
  <2>4. CASE a.concepts[c] # b.concepts[c]
    <3>1. c \in Diff!Modified(a, b)
      BY <2>1, <2>4 DEF Diff!Modified
    <3> QED BY <2>2, <3>1 DEF Diff!ConceptsBreak
  <2> QED BY <2>3, <2>4
<1> QED BY <1>1, <1>2 DEF NoConceptLost

LEMMA PolicyKept ==
  ASSUME NEW p \in Diff!Policies, NEW q \in Diff!Policies, ~Diff!PoliciesBreak(p, q)
  PROVE  NoPolicyLoosened(p, q)
BY PolicyTyped DEF Diff!PoliciesBreak, NoPolicyLoosened

LEMMA CapKept ==
  ASSUME NEW c \in Diff!CapStates, NEW d \in Diff!CapStates, ~Diff!CapBreaks(c, d)
  PROVE  NoCapLoosened(c, d)
<1>1. d.risk <= c.risk /\ d.effects <= c.effects
  BY CapTyped DEF Diff!CapBreaks
<1>2. "approval" \notin Diff!CapChanges(c, d) /\ "reads" \notin Diff!CapChanges(c, d) /\ "writes" \notin Diff!CapChanges(c, d)
  BY DEF Diff!CapBreaks
<1>3. ~(c.approval /\ ~d.approval) /\ ~(~c.reads /\ d.reads) /\ ~(~c.writes /\ d.writes)
  BY <1>2 DEF Diff!CapChanges
<1> QED BY <1>1, <1>3 DEF NoCapLoosened

LEMMA CapsKept ==
  ASSUME NEW a, NEW b, Bundle(a), Bundle(b), ~Diff!CapsBreak(a, b)
  PROVE  NoCapsLoosened(a, b)
<1>1. Diff!Caps(a) \subseteq Diff!Caps(b)
  BY DEF Diff!CapsBreak
<1>2. ASSUME NEW k \in Diff!Caps(a) PROVE NoCapLoosened(a.caps[k], b.caps[k])
  <2>1. k \in CapIds /\ k \in Diff!Caps(b)
    BY <1>1 DEF Diff!Caps
  <2>2. a.caps[k] \in Diff!CapStates /\ b.caps[k] \in Diff!CapStates
    BY <2>1 DEF Bundle, CapMaps
  <2>3. ~Diff!CapBreaks(a.caps[k], b.caps[k])
    BY <2>1 DEF Diff!CapsBreak
  <2> QED BY <2>2, <2>3, CapKept
<1> QED BY <1>1, <1>2 DEF NoCapsLoosened

LEMMA KeepsItself == ASSUME NEW a, Bundle(a) PROVE Keeps(a, a)
<1>1. NoConceptLost(a, a)
  BY DEF NoConceptLost
<1>2. NoPolicyLoosened(a.policies, a.policies)
  BY PolicyTyped DEF NoPolicyLoosened, Bundle
<1>3. ASSUME NEW k \in Diff!Caps(a) PROVE NoCapLoosened(a.caps[k], a.caps[k])
  <2>1. a.caps[k] \in Diff!CapStates
    BY DEF Bundle, CapMaps, Diff!Caps
  <2> QED BY <2>1, CapTyped DEF NoCapLoosened
<1> QED BY <1>1, <1>2, <1>3 DEF Keeps, NoCapsLoosened

\* Small steps add up.
LEMMA KeepsOn ==
  ASSUME NEW a, NEW b, NEW c, Bundle(a), Bundle(b), Bundle(c), Keeps(a, b), Keeps(b, c)
  PROVE  Keeps(a, c)
<1>1. NoConceptLost(a, c)
  <2>1. Diff!Ids(a) \subseteq Diff!Ids(b) /\ Diff!Ids(b) \subseteq Diff!Ids(c)
    BY DEF Keeps, NoConceptLost
  <2>2. ASSUME NEW i \in Diff!Ids(a) PROVE c.concepts[i].status \in {"active", a.concepts[i].status}
    BY <2>1 DEF Keeps, NoConceptLost
  <2> QED BY <2>1, <2>2 DEF NoConceptLost
<1>2. NoPolicyLoosened(a.policies, c.policies)
  BY PolicyTyped DEF NoPolicyLoosened, Bundle, Keeps
<1>3. NoCapsLoosened(a, c)
  <2>1. Diff!Caps(a) \subseteq Diff!Caps(b) /\ Diff!Caps(b) \subseteq Diff!Caps(c)
    BY DEF Keeps, NoCapsLoosened
  <2>2. ASSUME NEW k \in Diff!Caps(a) PROVE NoCapLoosened(a.caps[k], c.caps[k])
    <3>1. a.caps[k] \in Diff!CapStates /\ b.caps[k] \in Diff!CapStates /\ c.caps[k] \in Diff!CapStates
      BY DEF Bundle, CapMaps, Diff!Caps
    <3>2. NoCapLoosened(a.caps[k], b.caps[k]) /\ NoCapLoosened(b.caps[k], c.caps[k])
      BY <2>1 DEF Keeps, NoCapsLoosened
    <3> QED BY <3>1, <3>2, CapTyped DEF NoCapLoosened
  <2> QED BY <2>1, <2>2 DEF NoCapsLoosened
<1> QED BY <1>1, <1>2, <1>3 DEF Keeps

ReleaseInv == Bundle(first) /\ Bundle(released) /\ Keeps(first, released)

LEMMA ReleaseStarts == Diff!Init => ReleaseInv
BY VariantsAreBundles, KeepsItself DEF Diff!Init, ReleaseInv

LEMMA ReleaseMoves ==
  ASSUME ReleaseInv, [Diff!Release]_diffVars
  PROVE  ReleaseInv' /\ (released' # released /\ StrictLinks => Diff!BrokenLinks(released') = {})
<1>1. CASE UNCHANGED diffVars
  BY <1>1 DEF diffVars, ReleaseInv
<1>2. CASE Diff!Release
  <2>1. PICK new \in Diff!Proposals :
          /\ released' = IF Diff!Diff(released, new).isBreaking THEN released ELSE new
          /\ first' = first
    BY <1>2 DEF Diff!Release
  <2>2. Bundle(new)
    BY VariantsAreBundles
  <2>3. CASE Diff!Diff(released, new).isBreaking
    BY <2>1, <2>3 DEF ReleaseInv
  <2>4. CASE ~Diff!Diff(released, new).isBreaking
    <3>1. /\ ~Diff!ConceptsBreak(released, new) /\ ~Diff!LinksBreak(new)
          /\ ~Diff!PoliciesBreak(released.policies, new.policies) /\ ~Diff!CapsBreak(released, new)
      BY <2>4 DEF Diff!Diff
    <3>2. Keeps(released, new)
      BY <2>2, <3>1, ConceptsKept, PolicyKept, CapsKept DEF Keeps, Bundle, ReleaseInv
    <3>3. Keeps(first, new)
      BY <2>2, <3>2, KeepsOn DEF ReleaseInv
    <3>4. StrictLinks => Diff!BrokenLinks(new) = {}
      BY <3>1 DEF Diff!LinksBreak
    <3> QED BY <2>1, <2>2, <2>4, <3>3, <3>4 DEF ReleaseInv
  <2> QED BY <2>3, <2>4
<1> QED BY <1>1, <1>2

LEMMA ReleasesSound == ReleaseInv => Diff!TypeOK /\ Diff!ReleasesAddUp /\ Diff!NeitherIsLooser
<1> SUFFICES ASSUME ReleaseInv PROVE Diff!TypeOK /\ Diff!ReleasesAddUp /\ Diff!NeitherIsLooser
  OBVIOUS
<1>1. Diff!TypeOK
  BY DEF ReleaseInv, Bundle, Diff!TypeOK
<1>2. Diff!ReleasesAddUp
  <2>1. /\ NoConceptLost(first, released) /\ NoPolicyLoosened(first.policies, released.policies)
        /\ NoCapsLoosened(first, released)
    BY DEF ReleaseInv, Keeps
  <2>2. \A k \in Diff!Caps(first) : NoCapLoosened(first.caps[k], released.caps[k])
    BY <2>1 DEF NoCapsLoosened
  <2> QED BY <2>1, <2>2 DEF Diff!ReleasesAddUp, NoConceptLost, NoPolicyLoosened, NoCapsLoosened, NoCapLoosened
<1>3. Diff!NeitherIsLooser
  <2> SUFFICES ASSUME NEW p \in Diff!Policies, ~Diff!PoliciesBreak(p, released.policies),
                      ~Diff!PoliciesBreak(released.policies, p)
               PROVE  /\ p.approvals = released.policies.approvals
                      /\ p.autonomy = released.policies.autonomy /\ p.disable = released.policies.disable
    BY DEF Diff!NeitherIsLooser
  <2> DEFINE q == released.policies
  <2>1. q \in Diff!Policies
    BY DEF ReleaseInv, Bundle
  <2> HIDE DEF q
  <2>2. NoPolicyLoosened(p, q) /\ NoPolicyLoosened(q, p)
    BY <2>1, PolicyKept DEF q
  <2>3. /\ p.autonomy \in Nat /\ p.disable \in BOOLEAN
        /\ q.autonomy \in Nat /\ q.disable \in BOOLEAN
    BY <2>1, PolicyTyped
  <2>4. p.autonomy <= q.autonomy /\ q.autonomy <= p.autonomy
    BY <2>2 DEF NoPolicyLoosened
  <2>5. p.autonomy = q.autonomy
    BY <2>3, <2>4
  <2>6. p.disable = q.disable /\ p.approvals = q.approvals
    BY <2>2, <2>3 DEF NoPolicyLoosened
  <2> QED BY <2>5, <2>6 DEF q
<1> QED BY <1>1, <1>2, <1>3

-----------------------------------------------------------------------------
\* The manifest has the hash of what was compiled, never of an edit.
OutputInv ==
  /\ Outputs!TypeOK /\ Outputs!AppliedIsInSync
  /\ version \in 0 .. MaxVersion /\ sources \in BOOLEAN /\ built \in {"missing", "corrupt", "read"}
  /\ \A t \in Targets : recorded[t] # Outputs!Edited

LEMMA Markers ==
  /\ Outputs!Missing \in Int /\ Outputs!Edited \in Int /\ Outputs!Unrecorded \in Int
  /\ Outputs!Missing # Outputs!Edited /\ Outputs!Edited # Outputs!Unrecorded
  /\ Outputs!Missing \notin 0 .. MaxVersion /\ Outputs!Edited \notin 0 .. MaxVersion
  /\ Outputs!Unrecorded \notin 0 .. MaxVersion
BY MCAssumption DEF Outputs!ReconcileAssumption, Outputs!Missing, Outputs!Edited, Outputs!Unrecorded

LEMMA OutputsStart == Outputs!Init => OutputInv
BY Markers, MCAssumption DEF Outputs!Init, OutputInv, Outputs!TypeOK, Outputs!AppliedIsInSync, Outputs!NoResult,
   Outputs!ReconcileAssumption

LEMMA PeopleStep ==
  ASSUME OutputInv,
         \/ Outputs!EditSources \/ Outputs!LoseSources \/ Outputs!LoseManifest \/ Outputs!CompileAll
         \/ \E t \in Targets : Outputs!EditOutput(t)
         \/ \E hashes \in BOOLEAN : Outputs!DryRun(hashes)
  PROVE  OutputInv' /\ ((result'.status = "none" /\ ~result'.hashes) \/ result'.dry)
<1>1. (result'.status = "none" /\ ~result'.hashes) \/ result'.dry
  BY DEF Outputs!EditSources, Outputs!LoseSources, Outputs!LoseManifest, Outputs!CompileAll, Outputs!EditOutput,
         Outputs!DryRun, Outputs!NoResult
<1>2. Outputs!AppliedIsInSync'
  BY <1>1 DEF Outputs!AppliedIsInSync
<1>3. /\ Outputs!TypeOK' /\ version' \in 0 .. MaxVersion /\ sources' \in BOOLEAN /\ built' \in {"missing", "corrupt", "read"}
      /\ \A t \in Targets : recorded'[t] # Outputs!Edited
  <2>1. CASE Outputs!EditSources
    BY <2>1, MCAssumption DEF Outputs!EditSources, OutputInv, Outputs!TypeOK, Outputs!ReconcileAssumption
  <2>2. CASE Outputs!LoseSources
    BY <2>2 DEF Outputs!LoseSources, OutputInv, Outputs!TypeOK
  <2>3. CASE Outputs!LoseManifest
    BY <2>3, Markers DEF Outputs!LoseManifest, OutputInv, Outputs!TypeOK
  <2>4. CASE Outputs!CompileAll
    BY <2>4, Markers DEF Outputs!CompileAll, OutputInv, Outputs!TypeOK
  <2>5. CASE \E t \in Targets : Outputs!EditOutput(t)
    BY <2>5 DEF Outputs!EditOutput, OutputInv, Outputs!TypeOK
  <2>6. CASE \E hashes \in BOOLEAN : Outputs!DryRun(hashes)
    BY <2>6 DEF Outputs!DryRun, OutputInv, Outputs!TypeOK
  <2> QED BY <2>1, <2>2, <2>3, <2>4, <2>5, <2>6
<1> QED BY <1>1, <1>2, <1>3 DEF OutputInv

LEMMA ApplyStep ==
  ASSUME OutputInv, NEW hashes \in BOOLEAN, Outputs!Apply(hashes)
  PROVE  /\ OutputInv' /\ result'.hashes = hashes
         /\ hashes => \A t \in KnownTargets : recorded[t] # Outputs!Unrecorded => outs'[t] # Outputs!Edited
<1> DEFINE todo == Outputs!TargetsToCompile(hashes)
           made == todo \cap KnownTargets
<1>1. /\ sources' = TRUE /\ version' = version
      /\ outs' = [t \in Targets |-> IF t \in made THEN version ELSE outs[t]]
      /\ built' = IF todo = {} THEN built ELSE "read"
      /\ recorded' = IF todo = {} THEN recorded
                     ELSE [t \in Targets |-> IF t \in made THEN version ELSE Outputs!Unrecorded]
      /\ result' = [status |-> "in-sync", hashes |-> hashes, dry |-> FALSE, differences |-> FALSE]
  BY DEF Outputs!Apply
<1>2. /\ Outputs!Absent \subseteq todo
      /\ hashes /\ built # "missing" => todo = Outputs!Absent \cup Outputs!Drifted
      /\ hashes /\ built = "missing" => todo = Targets
  BY DEF Outputs!TargetsToCompile, Outputs!Absent
<1>3. Targets # {} /\ KnownTargets \subseteq Targets
  BY MCAssumption DEF Outputs!ReconcileAssumption
<1> HIDE DEF todo
<1>4. /\ Outputs!TypeOK' /\ version' \in 0 .. MaxVersion /\ sources' \in BOOLEAN /\ built' \in {"missing", "corrupt", "read"}
      /\ \A t \in Targets : recorded'[t] # Outputs!Edited
  BY <1>1, Markers DEF OutputInv, Outputs!TypeOK
<1>5. Outputs!AppliedIsInSync'
  <2> SUFFICES ASSUME Outputs!Absent' \subseteq KnownTargets, built' # "corrupt"
               PROVE  ~Outputs!Differences(hashes)'
    BY <1>1 DEF Outputs!AppliedIsInSync
  <2>1. Outputs!Absent' = {}
    <3> SUFFICES ASSUME NEW t \in Outputs!Absent' PROVE FALSE
      OBVIOUS
    <3>1. t \in Targets /\ outs'[t] = Outputs!Missing
      BY DEF Outputs!Absent
    <3>2. t \notin made
      BY <1>1, <3>1, Markers DEF OutputInv
    <3>3. t \in Outputs!Absent
      BY <1>1, <3>1, <3>2 DEF Outputs!Absent
    <3> QED BY <1>2, <3>2, <3>3
  <2>2. hashes => built' = "read" /\ Outputs!Drifted' = {}
    <3> SUFFICES ASSUME hashes PROVE built' = "read" /\ Outputs!Drifted' = {}
      OBVIOUS
    <3>1. CASE todo = {}
      <4>1. built # "missing" /\ Outputs!Drifted = {}
        BY <1>2, <1>3, <3>1
      <4>2. built \in {"missing", "corrupt", "read"}
        BY DEF OutputInv
      <4>3. \A t \in Targets : outs'[t] = outs[t]
        BY <1>1, <3>1
      <4> QED BY <1>1, <3>1, <4>1, <4>2, <4>3 DEF Outputs!Drifted
    <3>2. CASE todo # {}
      <4>1. ASSUME NEW t \in Targets, recorded'[t] # Outputs!Unrecorded PROVE outs'[t] = recorded'[t]
        BY <1>1, <3>2, <4>1
      <4> QED BY <1>1, <3>2, <4>1 DEF Outputs!Drifted
    <3> QED BY <3>1, <3>2
  <2> QED BY <1>1, <2>1, <2>2 DEF Outputs!Differences
<1>6. ASSUME hashes, NEW t \in KnownTargets, recorded[t] # Outputs!Unrecorded PROVE outs'[t] # Outputs!Edited
  <2>1. built # "missing" /\ t \in Targets
    BY <1>3, <1>6 DEF OutputInv, Outputs!TypeOK
  <2>2. CASE t \in todo
    BY <1>1, <1>6, <2>1, <2>2, Markers DEF OutputInv
  <2>3. CASE t \notin todo
    <3>1. outs[t] = Outputs!Missing \/ outs[t] = recorded[t]
      BY <1>2, <1>6, <2>1, <2>3 DEF Outputs!Drifted
    <3>2. outs'[t] = outs[t]
      BY <1>1, <2>1, <2>3
    <3> QED BY <2>1, <3>1, <3>2, Markers DEF OutputInv
  <2> QED BY <2>2, <2>3
<1> QED BY <1>1, <1>4, <1>5, <1>6 DEF OutputInv

LEMMA OutputMoves ==
  ASSUME OutputInv, [Outputs!Next]_outputVars
  PROVE  /\ OutputInv'
         /\ \A t \in KnownTargets : recorded[t] # Outputs!Unrecorded /\ result' # result /\ result'.hashes /\ ~result'.dry
              => outs'[t] # Outputs!Edited
<1>1. CASE UNCHANGED outputVars
  <2>1. /\ version' = version /\ sources' = sources /\ outs' = outs /\ built' = built
        /\ recorded' = recorded /\ result' = result
    BY <1>1 DEF outputVars
  <2>2. Outputs!TypeOK' /\ Outputs!AppliedIsInSync'
    BY <2>1 DEF OutputInv, Outputs!TypeOK, Outputs!AppliedIsInSync, Outputs!Absent, Outputs!Differences,
                Outputs!Drifted
  <2> QED BY <2>1, <2>2 DEF OutputInv
<1>2. CASE \E hashes \in BOOLEAN : Outputs!Apply(hashes)
  BY <1>2, ApplyStep
<1>3. CASE Outputs!Next /\ ~\E hashes \in BOOLEAN : Outputs!Apply(hashes)
  BY <1>3, PeopleStep DEF Outputs!Next
<1> QED BY <1>1, <1>2, <1>3

LEMMA ChangeMoves == MCNext => [Diff!Release]_diffVars /\ [Outputs!Next]_outputVars
BY DEF MCNext

\* Whatever concepts, capabilities, tools and levels there are: releases that were each
\* called compatible add up to a compatible one (semantic-diff.ts); and whatever targets
\* and versions: what an apply calls in sync is so, and no edit stays in a target that the
\* manifest has (reconcile.ts).
THEOREM ChangesSeen == MCSpec => ChangesAreSeen
<1>1. MCInit => ReleaseInv /\ OutputInv
  BY ReleaseStarts, OutputsStart DEF MCInit
<1>2. [MCNext]_mcVars => [Diff!Release]_diffVars /\ [Outputs!Next]_outputVars
  BY ChangeMoves DEF mcVars
<1>3. ReleaseInv /\ OutputInv /\ [MCNext]_mcVars => (ReleaseInv /\ OutputInv)'
  BY <1>2, ReleaseMoves, OutputMoves
<1>4. ReleaseInv /\ [MCNext]_mcVars =>
        [released' # released /\ StrictLinks => Diff!BrokenLinks(released') = {}]_(Diff!vars)
  BY <1>2, ReleaseMoves
<1>5. OutputInv /\ [MCNext]_mcVars =>
        [\A t \in KnownTargets : recorded[t] # Outputs!Unrecorded /\ result' # result /\ result'.hashes /\ ~result'.dry
           => outs'[t] # Outputs!Edited]_(Outputs!vars)
  BY <1>2, OutputMoves
<1>6. ReleaseInv /\ OutputInv =>
        /\ part = "releases" => Diff!TypeOK /\ Diff!ReleasesAddUp /\ Diff!NeitherIsLooser
        /\ part = "outputs" => Outputs!TypeOK /\ Outputs!AppliedIsInSync
  BY ReleasesSound DEF OutputInv
<1> QED
  BY <1>1, <1>3, <1>4, <1>5, <1>6, PTL DEF MCSpec, ChangesAreSeen, Diff!NoBrokenRelease, Outputs!ApplyUndoesEdits
===============================================================================
