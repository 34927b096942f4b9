------------------------------ MODULE AuditLedger ------------------------------
(***************************************************************************)
(* The audit ledger (core/src/infrastructure/audit-log.ts): processes      *)
(* append events to one file, each chained to the hash of the event before *)
(* it; the file is verified.  A hash is what was hashed, so two hashes are *)
(* equal only if the events and all that came before them are.  At the     *)
(* end, the command that shows the records to people.                      *)
(***************************************************************************)
EXTENDS Naturals, Sequences, FiniteSets, FiniteSetsExt, SequencesExt

CONSTANTS Writers, Contents, MaxEvents   \* MaxEvents: a bound

Genesis == <<"genesis">>
Torn == "torn"   \* the content of a line that was cut

LedgerAssumption == Torn \notin Contents /\ MaxEvents \in Nat

VARIABLES
  file,     \* the lines: [content, sequence, prev, hash]
  pending,  \* what a writer has made of the file and not appended yet
  written,  \* the lines as they were appended
  alone,    \* no writer read the file while another was about to append
  edited    \* "no", or somebody edited the file, or rewrote it with new hashes
vars == <<file, pending, written, alone, edited>>

Hash(content, sequence, prev) == <<content, sequence, prev>>
EntryHash(e) == Hash(e.content, e.sequence, e.prev)
NoLine == [content |-> "none", sequence |-> 0, prev |-> Genesis, hash |-> Genesis]
TornLine == [NoLine EXCEPT !.content = Torn]

TypeOK == Len(file) <= MaxEvents + 1 /\ \A w \in Writers : pending[w].sequence <= MaxEvents

\* Every line has to parse, or else whoever reads the file fails.
Readable == \A i \in DOMAIN file : file[i].content # Torn

Init ==
  /\ file = <<>> /\ written = <<>>
  /\ pending = [w \in Writers |-> NoLine]
  /\ alone = TRUE /\ edited = "no"

Event(lines, content) ==
  LET prev == IF lines = <<>> THEN Genesis ELSE Last(lines).hash
  IN [content |-> content, sequence |-> Len(lines), prev |-> prev,
      hash |-> Hash(content, Len(lines), prev)]

\* logEvent reads the file and makes the event; nothing of the same process comes
\* between this and the next step.
ReadLedger(w) ==
  /\ edited = "no" /\ pending[w] = NoLine /\ Readable /\ Len(file) < MaxEvents
  /\ \E c \in Contents : pending' = [pending EXCEPT ![w] = Event(file, c)]
  /\ alone' = (alone /\ \A v \in Writers : pending[v] = NoLine)
  /\ UNCHANGED <<file, written, edited>>

AppendEvent(w) ==
  /\ pending[w] # NoLine
  /\ file' = Append(file, pending[w])
  /\ written' = Append(written, pending[w])
  /\ pending' = [pending EXCEPT ![w] = NoLine]
  /\ UNCHANGED <<alone, edited>>

\* The process ends, before it appends or with a part of the line in the file.
Dies(w) ==
  /\ pending[w] # NoLine
  /\ pending' = [pending EXCEPT ![w] = NoLine]
  /\ file' \in {file, Append(file, TornLine)}
  /\ UNCHANGED <<written, alone, edited>>

\* Somebody removes a line, changes what one says or swaps two, when all is logged.
Edit ==
  /\ Readable /\ edited = "no" /\ \A w \in Writers : pending[w] = NoLine
  /\ \E i \in DOMAIN file :
       file' \in {RemoveAt(file, i)}
                   \cup {[file EXCEPT ![i].content = c] : c \in Contents}
                   \cup {[file EXCEPT ![i] = file[j], ![j] = file[i]] : j \in DOMAIN file}
  /\ edited' = "edited"
  /\ UNCHANGED <<pending, written, alone>>

\* Somebody writes the ledger anew, with other contents and the hashes that they have.
Rewrite ==
  /\ Readable /\ edited = "no" /\ \A w \in Writers : pending[w] = NoLine
  /\ \E cs \in [DOMAIN file -> Contents] :
       file' = FoldLeft(LAMBDA lines, c : Append(lines, Event(lines, c)), <<>>, cs)
  /\ edited' = "rewritten"
  /\ UNCHANGED <<pending, written, alone>>

Next == Edit \/ Rewrite \/ \E w \in Writers : ReadLedger(w) \/ AppendEvent(w) \/ Dies(w)

Spec == Init /\ [][Next]_vars

-----------------------------------------------------------------------------
(* verifyAuditLedger *)

Findings(lines) ==
  {<<i, "SEQUENCE_MISMATCH">> : i \in {j \in DOMAIN lines : lines[j].sequence # j - 1}}
    \cup {<<i, "PREV_HASH_MISMATCH">> : i \in {j \in DOMAIN lines :
            lines[j].prev # IF j = 1 THEN Genesis ELSE lines[j - 1].hash}}
    \cup {<<i, "ENTRY_HASH_MISMATCH">> : i \in {j \in DOMAIN lines : lines[j].hash # EntryHash(lines[j])}}

\* The mistake of leaving out the odd one.
MerkleLevelOfPairs(level) ==
  IF Len(level) = 1 THEN level ELSE [i \in 1 .. Len(level) \div 2 |-> <<level[2 * i - 1], level[2 * i]>>]

\* computeAuditMerkleRoot: pairs are combined, an odd one with itself.
MerkleLevel(level) ==
  [i \in 1 .. (Len(level) + 1) \div 2 |->
     <<level[2 * i - 1], IF 2 * i <= Len(level) THEN level[2 * i] ELSE level[2 * i - 1]>>]
MerkleRoot(lines) ==
  IF lines = <<>> THEN Genesis
  ELSE LET levels[n \in 0 .. Len(lines)] ==
             IF n = 0 THEN [i \in DOMAIN lines |-> lines[i].hash]
             ELSE IF Len(levels[n - 1]) = 1 THEN levels[n - 1] ELSE MerkleLevel(levels[n - 1])
       IN levels[Len(lines)][1]

-----------------------------------------------------------------------------
(* Properties *)

\* While processes do not read the ledger at once, and whatever became of them, a
\* ledger that nobody edited verifies; a line that was cut is never taken for an event.
UneditedVerifies ==
  alone /\ edited = "no" /\ Readable => Findings(file) = {} /\ file = written

\* Every edit is found, except that lines are missing at the end.
EditIsFound ==
  alone /\ edited = "edited" /\ Readable /\ Findings(file) = {} => IsPrefix(file, written)

\* What the verification cannot see, a ledger that was written anew, the root shows: of
\* as many events, none but the ledger itself has the root that it had.
RootNamesLedger ==
  alone /\ Readable /\ Findings(file) = {} /\ Len(file) = Len(written) /\ file # <<>> =>
    (MerkleRoot(file) = MerkleRoot(written)) = (file = written)

\* A ledger that nobody edited verifies.  Not so when two processes append to it.
EveryLedgerVerifies == edited = "no" /\ Readable => Findings(file) = {}

\* An event can always be logged.  Not so after a process died in the midst of one.
AlwaysReadable == Readable

-----------------------------------------------------------------------------
(* The command `akcp control-plane` (cli/src/commands/server/              *)
(* control-plane.ts): it shows the governance of a bundle or of its last   *)
(* build, the requests for approval, the latest events of the audit log    *)
(* and whether the log was edited, and replays a flight log against a new  *)
(* policy, while servers write and others build, edit and damage files.    *)

CONSTANTS
  Lines,        \* what --lines and --limit are given
  Actions,      \* of events
  MaxVersion    \* a bound

VARIABLES
  bundle,      \* the version of the sources
  build,       \* the version of dist/agent-knowledge-ir.json; None or Malformed
  log,         \* the audit log at each of the places it is looked for at, if any
  approvals,   \* the same of the file of approvals
  answer       \* of the last command
consoleVars == <<bundle, build, log, approvals, answer>>

Places == 1 .. 2   \* in the order in which they are looked at
None == 0
Malformed == MaxVersion + 1
Absent == <<>>
Corrupt == <<<<"corrupt">>>>
Statuses == {"PENDING", "REVOKED"}

NoAnswer == [command |-> "none", exit |-> 0, shown |-> <<>>, lines |-> 0, filter |-> "all"]
Failed(command) == [NoAnswer EXCEPT !.command = command, !.exit = 1]
Shows(command, shown) == [NoAnswer EXCEPT !.command = command, !.shown = shown]

ConsoleInit ==
  /\ bundle = 1 /\ build = None
  /\ log = [p \in Places |-> Absent]
  /\ approvals \in [Places -> {Absent, Corrupt, <<<<"PENDING", "REVOKED", "PENDING">>>>}]
  /\ answer = NoAnswer

\* slice(-n), which leaves all of it if n is 0
LastOf(n, s) == IF n = 0 \/ n > Len(s) THEN s ELSE SubSeq(s, Len(s) - n + 1, Len(s))
FirstOf(n, s) == SubSeq(s, 1, IF n > Len(s) THEN Len(s) ELSE n)

Found(files) == {p \in Places : files[p] # Absent}
First(files) == files[Min(Found(files))][1]

\* A log with a line that was cut cannot be read.
Cut(place) == place # Absent /\ \E i \in DOMAIN place[1] : place[1][i].action = Torn
FirstIsCut(files) == Found(files) # {} /\ Cut(files[Min(Found(files))])

\* The sources that inspect and policies show: the build of the bundle if there is one,
\* and otherwise what the bundle compiles to; --ir names a build.
Inspect(command, ir) ==
  /\ answer' =
       LET version == IF build # None \/ ir THEN build ELSE bundle
       IN IF version \in {None, Malformed} THEN Failed(command) ELSE Shows(command, <<version>>)
  /\ UNCHANGED <<bundle, build, log, approvals>>

\* The first file that parses, if any; files that do not are passed over.
Approvals(status, limit) ==
  /\ answer' =
       LET good == {p \in Places : approvals[p] \notin {Absent, Corrupt}}
           all == IF good = {} THEN <<>> ELSE approvals[Min(good)][1]
           Asked(s) == status = "ALL" \/ s = status
       IN Shows("approvals", FirstOf(limit, SelectSeq(all, Asked)))
  /\ UNCHANGED <<bundle, build, log, approvals>>

\* The first log there is: of twice as many events as are asked for, those that match,
\* and of these the latest.
Audit(lines, filter) ==
  /\ answer' =
       LET events == IF Found(log) = {} THEN <<>> ELSE LastOf(2 * lines, First(log))
           Matches(e) == filter = "all" \/ e.action = filter
       IN IF FirstIsCut(log) THEN Failed("audit")
          ELSE [Shows("audit", LastOf(lines, SelectSeq(events, Matches)))
                  EXCEPT !.lines = lines, !.filter = filter]
  /\ UNCHANGED <<bundle, build, log, approvals>>

\* The findings of above, or the line that does not parse; without any log, the empty log
\* is verified.
AuditVerify ==
  /\ answer' =
       IF FirstIsCut(log) \/ (Found(log) # {} /\ \E i \in DOMAIN First(log) : First(log)[i].edited)
         THEN Failed("audit-verify") ELSE Shows("audit-verify", <<>>)
  /\ UNCHANGED <<bundle, build, log, approvals>>

\* The report of PolicyCards, whatever it is: only --strict tells it by the exit code.
Replay(relaxed, blocked, strict) ==
  /\ answer' = IF strict /\ (relaxed \/ blocked) THEN Failed("replay") ELSE Shows("replay", <<relaxed, blocked>>)
  /\ UNCHANGED <<bundle, build, log, approvals>>

\* Servers append to the log they were started with, if they can read it, and may die with
\* a part of the line in it.
LogEvent(p, action) ==
  LET before == IF log[p] = Absent THEN <<>> ELSE log[p][1]
  IN /\ ~Cut(log[p])
     /\ Cardinality(UNION {{<<q, i>> : i \in 1 .. (IF log[q] = Absent THEN 0 ELSE Len(log[q][1]))} : q \in Places})
          < MaxEvents
     /\ \E a \in {action, Torn} :
          log' = [log EXCEPT ![p] = <<Append(before, [action |-> a, nr |-> Len(before) + 1, edited |-> FALSE])>>]
     /\ answer' = NoAnswer
     /\ UNCHANGED <<bundle, build, approvals>>

\* Somebody changes an event of a log, or removes the log.
Damage(p) ==
  /\ log[p] # Absent
  /\ \/ \E i \in DOMAIN log[p][1] : log' = [log EXCEPT ![p] = <<[log[p][1] EXCEPT ![i].edited = TRUE]>>]
     \/ log' = [log EXCEPT ![p] = Absent]
  /\ answer' = NoAnswer
  /\ UNCHANGED <<bundle, build, approvals>>

\* The bundle is edited, or built, or the build is cut short.
Author ==
  /\ \/ bundle < MaxVersion /\ bundle' = bundle + 1 /\ UNCHANGED build
     \/ build' \in {bundle, Malformed} /\ UNCHANGED bundle
  /\ answer' = NoAnswer
  /\ UNCHANGED <<log, approvals>>

ConsoleNext ==
  \/ Author \/ AuditVerify
  \/ \E c \in {"inspect", "policies"}, ir \in BOOLEAN : (c = "policies" => ~ir) /\ Inspect(c, ir)
  \/ \E s \in Statuses \cup {"ALL"}, n \in Lines : Approvals(s, n)
  \/ \E n \in Lines, f \in Actions \cup {"all"} : Audit(n, f)
  \/ \E r, b, strict \in BOOLEAN : Replay(r, b, strict)
  \/ \E p \in Places : Damage(p) \/ \E a \in Actions : LogEvent(p, a)

-----------------------------------------------------------------------------
(* Properties *)

\* What audit shows for a number of lines is, in the order of the log, the latest of the
\* events asked for: all of them that the number allows, unless the filter passes over
\* more than it shows.
ShownIsLatest ==
  [][answer'.command = "audit" /\ Found(log) # {} /\ answer'.exit = 0 =>
       LET Matches(e) == answer'.filter = "all" \/ e.action = answer'.filter
           all == SelectSeq(First(log), Matches)
           shown == answer'.shown
       IN /\ shown = SubSeq(all, Len(all) - Len(shown) + 1, Len(all))
          /\ answer'.filter = "all" /\ answer'.lines > 0 => Len(shown) = Min({answer'.lines, Len(all)})
          /\ Len(First(log)) <= 2 * answer'.lines => Len(shown) = Min({answer'.lines, Len(all)})]_vars

\* A log that was edited or cut makes audit-verify fail, wherever it is, unless another one
\* is found before it; what was only appended to does not.
EditIsRefused ==
  [][answer'.command = "audit-verify" =>
       (answer'.exit = 1 <=>
          \E p \in Places :
            /\ log[p] # Absent
            /\ \E i \in DOMAIN log[p][1] : log[p][1][i].edited \/ log[p][1][i].action = Torn
            /\ \A q \in Places : q < p => log[q] = Absent)]_vars
=================================================================================
