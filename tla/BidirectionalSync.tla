--------------------------- MODULE BidirectionalSync ---------------------------
(***************************************************************************)
(* syncOpenWikiBidirectional of core/src/connectors/bidirectional-sync.ts: *)
(* an OKF bundle and a wiki of Markdown pages, a manifest that remembers   *)
(* on what body both last agreed, people who edit and delete on both sides *)
(* at any moment of a run, and runs that die.  A run lists both sides      *)
(* once, and takes the branch of each file by these lists; it reads a file *)
(* when its turn comes, and then writes.  Bodies are compared by their     *)
(* hash, up to line ends and surrounding blanks.                           *)
(*                                                                         *)
(* mark is where the governed keys of a document (sensitivity, owners,     *)
(* status, ...) come from: its owner, the wiki page, or the defaults.      *)
(* Writing a file is one step: a run that dies half-way through a file is  *)
(* left out.                                                               *)
(***************************************************************************)
EXTENDS Naturals, FiniteSets

CONSTANTS Files, Bodies, Directions, Strategies

NoBody == "none"

\* The marker of an absent body is no body.
SyncAssumption == NoBody \notin Bodies

NoFile == [body |-> NoBody, mark |-> "none"]

VARIABLES
  okf,          \* okf[f]: the document of the bundle
  wiki,         \* wiki[f]: the page of the wiki
  manifest,     \* manifest[f]: baseBodyHash of the state file
  sync,         \* the run in progress
  report,       \* what the last run that ended said
  touched,      \* the files that people edited since the last run listed them
  agreed,       \* the body that a run last gave to both sides, or found on both
  known,        \* the bodies that both sides have had by a run
  died          \* some run died

vars == <<okf, wiki, manifest, sync, report, touched, agreed, known, died>>

\* reading is the file whose turn it is, okf and wiki what was read of it.
Idle == [on |-> FALSE, todo |-> {}, inOkf |-> {}, inWiki |-> {}, direction |-> "none",
         strategy |-> "none", dry |-> FALSE, entries |-> [f \in Files |-> NoBody],
         conflict |-> FALSE, reading |-> {}, okf |-> NoFile, wiki |-> NoFile]

NoReport == [ok |-> FALSE, direction |-> "none", dry |-> FALSE]

TypeOK ==
  /\ okf \in [Files -> [body : Bodies, mark : {"owner", "wiki", "default"}] \cup {NoFile}]
  /\ wiki \in [Files -> [body : Bodies, mark : {"wiki", "none"}] \cup {NoFile}]
  /\ manifest \in [Files -> Bodies \cup {NoBody}]
  /\ sync.on => sync.direction \in Directions /\ sync.strategy \in Strategies

Init ==
  /\ okf = [f \in Files |-> NoFile]
  /\ wiki = [f \in Files |-> NoFile]
  /\ manifest = [f \in Files |-> NoBody]
  /\ sync = Idle
  /\ report = NoReport
  /\ touched = {}
  /\ agreed = [f \in Files |-> NoBody]
  /\ known = [f \in Files |-> {}]
  /\ died = FALSE

InOkf(f) == okf[f] # NoFile
InWiki(f) == wiki[f] # NoFile

-----------------------------------------------------------------------------
(* People *)

\* A page of the wiki may name a sensitivity of its own.
EditWiki(f) ==
  /\ \E b \in Bodies, m \in {"wiki", "none"} :
       /\ wiki' = [wiki EXCEPT ![f] = [body |-> b, mark |-> m]]
       /\ wiki' # wiki
  /\ touched' = touched \cup {f}
  /\ UNCHANGED <<okf, manifest, sync, report, agreed, known, died>>

EditOkf(f) ==
  /\ \E b \in Bodies : okf' = [okf EXCEPT ![f] = [body |-> b, mark |-> "owner"]]
  /\ okf' # okf
  /\ touched' = touched \cup {f}
  /\ UNCHANGED <<wiki, manifest, sync, report, agreed, known, died>>

DeleteFile(f) ==
  /\ \/ InOkf(f) /\ okf' = [okf EXCEPT ![f] = NoFile] /\ UNCHANGED wiki
     \/ InWiki(f) /\ wiki' = [wiki EXCEPT ![f] = NoFile] /\ UNCHANGED okf
  /\ touched' = touched \cup {f}
  /\ UNCHANGED <<manifest, sync, report, agreed, known, died>>

-----------------------------------------------------------------------------
(* A run *)

\* The manifest and the names of the files of both sides are read once.
Start ==
  /\ ~sync.on
  /\ \E d \in Directions, c \in Strategies, dry \in BOOLEAN :
       sync' = [on |-> TRUE, todo |-> {f \in Files : InOkf(f) \/ InWiki(f)},
                inOkf |-> {f \in Files : InOkf(f)}, inWiki |-> {f \in Files : InWiki(f)},
                direction |-> d, strategy |-> c, dry |-> dry, entries |-> manifest,
                conflict |-> FALSE, reading |-> {}, okf |-> NoFile, wiki |-> NoFile]
  /\ touched' = {}
  /\ report' = NoReport
  /\ UNCHANGED <<okf, wiki, manifest, agreed, known, died>>

\* By the lists, a file is one to import or one to export, or else one to compare.
Imports(f) == f \in sync.inWiki \ sync.inOkf
Exports(f) == f \in sync.inOkf \ sync.inWiki
Passes(f) == (Imports(f) /\ sync.direction = "push") \/ (Exports(f) /\ sync.direction = "pull")

Done(f) == sync.todo \ {f}

\* A run in one direction passes by what only the other side has.
PassBy(f) ==
  /\ f \in sync.todo /\ sync.reading = {} /\ Passes(f)
  /\ sync' = [sync EXCEPT !.todo = Done(f)]
  /\ UNCHANGED <<okf, wiki, manifest, report, touched, agreed, known, died>>

\* What the lists name is read; if it is gone the run throws (see Die).
Read(f) ==
  /\ f \in sync.todo /\ sync.reading = {} /\ ~Passes(f)
  /\ f \in sync.inOkf => InOkf(f)
  /\ f \in sync.inWiki => InWiki(f)
  /\ sync' = [sync EXCEPT !.reading = {f},
                          !.okf = IF f \in sync.inOkf THEN okf[f] ELSE NoFile,
                          !.wiki = IF f \in sync.inWiki THEN wiki[f] ELSE NoFile]
  /\ UNCHANGED <<okf, wiki, manifest, report, touched, agreed, known, died>>

\* mergeWikiIntoOkfFrontmatter: a governed key of the document wins over that of
\* the page; what neither has is given a default.
MergeWikiIntoOkf(okfMark, wikiMark) ==
  IF okfMark # "none" THEN okfMark ELSE IF wikiMark # "none" THEN wikiMark ELSE "default"

Turned(f) == [sync EXCEPT !.todo = Done(f), !.reading = {}, !.okf = NoFile, !.wiki = NoFile]

\* The side that is written has now the body of the other (but in a dry run), and the
\* entry says so.
Agree(f, b) ==
  /\ sync' = [Turned(f) EXCEPT !.entries[f] = IF sync.dry THEN @ ELSE b]
  /\ agreed' = IF sync.dry THEN agreed ELSE [agreed EXCEPT ![f] = b]
  /\ known' = IF sync.dry THEN known ELSE [known EXCEPT ![f] = @ \cup {b}]
  /\ UNCHANGED <<manifest, report, touched, died>>

\* imported-to-okf and updated-okf: over whatever stands at the path by now.
ToOkf(f) ==
  /\ okf' = IF sync.dry THEN okf
            ELSE [okf EXCEPT ![f] = [body |-> sync.wiki.body,
                                     mark |-> MergeWikiIntoOkf(sync.okf.mark, sync.wiki.mark)]]
  /\ UNCHANGED wiki
  /\ Agree(f, sync.wiki.body)

\* exported-to-wiki and updated-wiki: of the frontmatter only id, title, type and
\* tags go to the wiki.
ToWiki(f) ==
  /\ wiki' = IF sync.dry THEN wiki
             ELSE [wiki EXCEPT ![f] = [body |-> sync.okf.body, mark |-> "none"]]
  /\ UNCHANGED okf
  /\ Agree(f, sync.okf.body)

\* What has changed since the entry was written; without one, everything has.
OkfChanged(f) == sync.entries[f] = NoBody \/ sync.okf.body # sync.entries[f]

\* A mistaken WikiChanged: without an entry the page counts as unchanged.
WikiChangedKnown(f) == sync.entries[f] # NoBody /\ sync.wiki.body # sync.entries[f]

WikiChanged(f) == sync.entries[f] = NoBody \/ sync.wiki.body # sync.entries[f]

ImportNew(f) == Imports(f) /\ ToOkf(f)

ExportNew(f) == Exports(f) /\ ToWiki(f)

InSync(f) ==
  /\ sync.okf.body = sync.wiki.body
  /\ Agree(f, sync.okf.body)
  /\ UNCHANGED <<okf, wiki>>

PullChange(f) == sync.direction = "pull" \/ (~OkfChanged(f) /\ WikiChanged(f))
PushChange(f) == sync.direction = "push" \/ (OkfChanged(f) /\ ~WikiChanged(f))

Conflict(f) ==
  CASE sync.strategy = "fail" ->
         /\ sync' = [Turned(f) EXCEPT !.conflict = TRUE]
         /\ UNCHANGED <<okf, wiki, manifest, report, touched, agreed, known, died>>
    [] sync.strategy = "prefer-wiki" -> ToOkf(f)
    [] OTHER -> ToWiki(f)

Compare(f) ==
  /\ ~Imports(f) /\ ~Exports(f)
  /\ IF sync.okf.body = sync.wiki.body THEN InSync(f)
     ELSE IF PullChange(f) THEN ToOkf(f)
     ELSE IF PushChange(f) THEN ToWiki(f)
     ELSE Conflict(f)

\* The rest of the turn: what was read decides, and is written.
Write(f) ==
  /\ f \in sync.reading
  /\ ImportNew(f) \/ ExportNew(f) \/ Compare(f)

\* The entries are written at the end, and the report is made.
Finish ==
  /\ sync.on /\ sync.todo = {}
  /\ manifest' = IF sync.dry THEN manifest ELSE sync.entries
  /\ report' = [ok |-> ~sync.conflict, direction |-> sync.direction, dry |-> sync.dry]
  /\ sync' = Idle
  /\ UNCHANGED <<okf, wiki, touched, agreed, known, died>>

\* The run dies between two files, or between reading one and writing it, or throws for a
\* file that was listed and is gone; or it dies while it writes the state file, which then
\* does not parse and counts as empty.
Die ==
  /\ sync.on
  /\ sync' = Idle
  /\ died' = TRUE
  /\ manifest' \in {manifest} \cup
       {x \in {[f \in Files |-> NoBody]} : sync.todo = {} /\ ~sync.dry}
  /\ UNCHANGED <<okf, wiki, report, touched, agreed, known>>

Next ==
  \/ \E f \in Files :
       EditOkf(f) \/ EditWiki(f) \/ DeleteFile(f) \/ PassBy(f) \/ Read(f) \/ Write(f)
  \/ Start \/ Finish \/ Die

Spec == Init /\ [][Next]_vars

-----------------------------------------------------------------------------
(* Properties *)

\* A run writes this file, and both sides are still as it read them.
Writes(f) ==
  /\ f \in sync.reading /\ sync'.reading = {} /\ sync'.on
  /\ okf[f] = sync.okf /\ wiki[f] = sync.wiki

\* A run in both directions never writes over an edit that only one side made since both
\* agreed, whatever the strategy, as long as no run has died; and with the strategy "fail"
\* it writes over no body that the other side has not had, whatever runs have died before.
\* It is said of files that both lists name and that nobody edits between their reading and
\* their writing: what is created or edited after that is written over.
OneSidedEditSurvives ==
  [][\A f \in Files :
       Writes(f) /\ sync.direction = "bidirectional" /\ InOkf(f) /\ InWiki(f) =>
         /\ ~died =>
              /\ wiki[f].body = agreed[f] => okf'[f].body = okf[f].body
              /\ okf[f].body = agreed[f] => wiki'[f].body = wiki[f].body
         /\ sync.strategy = "fail" =>
              /\ okf'[f].body # okf[f].body => okf[f].body \in known[f]
              /\ wiki'[f].body # wiki[f].body => wiki[f].body \in known[f]]_vars

\* No run takes the governed keys that its owner gave a document from it, be it
\* overwritten with a page that has keys of its own, if the document stood there as it is
\* when it was read.
GovernanceIsKept ==
  [][\A f \in Files : Writes(f) /\ okf[f].mark = "owner" => okf'[f].mark = "owner"]_vars

\* A run in both directions that reports no conflict has made the two sides alike, of
\* every file that nobody has edited since the run listed it.
ReportMeansAlike ==
  report.ok /\ report.direction = "bidirectional" /\ ~report.dry /\ ~sync.on =>
    \A f \in Files \ touched : okf[f].body = wiki[f].body

=================================================================================
