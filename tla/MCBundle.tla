------------------------------- MODULE MCBundle -------------------------------
(***************************************************************************)
(* What is kept of a bundle, for TLC: the document service under two       *)
(* servers, one of them with a cache; the synchronisation of one file with *)
(* a wiki; the factory over short names; the graph of the links, the       *)
(* contradictions, the releases, the reconciliation of the outputs, what   *)
(* is found of a bundle and packed, documents made of plain texts, and the *)
(* stages of a compilation.                                                *)
(* They share no state in one operation, so a behaviour exercises one.     *)
(***************************************************************************)
EXTENDS DocumentService, TLC

CONSTANTS
  WikiFiles, Bodies,                                      \* the synchronisation
  ConceptIds, Hashes, Tools, CapIds, Levels, StrictLinks, \* the releases
  Targets, KnownTargets, MaxVersion                       \* the outputs

VARIABLES part
VARIABLES okf, wiki, manifest, sync, report, touched, agreed, known, died
VARIABLES name, second, day, given
VARIABLES links, target, queue, visited
VARIABLES concepts, references
VARIABLES first, released, refused
VARIABLES version, sources, outs, built, recorded, result
VARIABLES candidates, usage, packs, packed, plan
VARIABLES corpus, question, ranked, decision
VARIABLES texts, before, ran, runs
VARIABLES bundle, strict, typo, stage, compiled, seen, stack, cycles, warnings, answer

MCConcepts == {<<"a">>, <<"d", "b">>, <<"d", "e", "c">>}
MCLinks == SUBSET [src : MCConcepts, rel : {"depends_on"}, to : MCConcepts \cup {<<"gone">>}]

Sync == INSTANCE BidirectionalSync WITH
          Files <- WikiFiles,
          Directions <- {"pull", "push", "bidirectional"},
          Strategies <- {"fail", "prefer-okf", "prefer-wiki"}
Graph == INSTANCE KnowledgeGraph WITH
          Concepts <- MCConcepts, LinkSets <- MCLinks,
          Subjects <- {"s1", "s2"}, Values <- {"v1", "v2"}, Statuses <- {"active", "archived"},
          MaxConcepts <- 3
Diff == INSTANCE SemanticDiff WITH
          Statuses <- {"active", "deprecated", "archived"}
Outputs == INSTANCE Reconcile WITH
          Known <- KnownTargets, manifest <- built

Line(kind, length) == [kind |-> kind, length |-> length]
Doc(lines, header, fused, priority, title) ==
  [lines |-> lines, header |-> header, fused |-> fused, priority |-> priority, type |-> FALSE,
   title |-> title, tags |-> 0]
MCDocuments ==
  {Doc(<<Line("heading", 7), Line("text", 23), Line("invariant", 15), Line("text", 0), Line("heading", 7),
         Line("link", 9)>>, 8, 9, "high", 0),
   Doc(<<Line("text", 30), Line("text", 11)>>, 8, 5, "critical", 2),
   Doc(<<Line("invariant", 31), Line("text", 23), Line("text", 0), Line("link", 5)>>, 20, 5, "none", 1),
   Doc(<<Line("heading", 11), Line("invariant", 19), Line("invariant", 7)>>, 4, 7, "none", 2)}

Concept(id, words, similar, priority, to, rule) ==
  [id |-> id, words |-> words, similar |-> similar, priority |-> priority, links |-> to, rule |-> rule]
MCLibrary ==
  {Concept(1, {"the"}, 0, "none", <<2>>, "none"),
   Concept(2, {"x"}, 300, "none", <<5>>, "MUST"),
   Concept(3, {"x", "y"}, 600, "high", <<2, 2, 9, 1>>, "NEVER"),
   Concept(4, {}, 8000, "none", <<3, 4>>, "none"),
   Concept(5, {"the", "y"}, 600, "critical", <<>>, "none")}
Window == INSTANCE Context WITH
             Documents <- MCDocuments, MaxCandidates <- 3, MaxPacks <- 2, Budgets <- {10, 24},
             AgentBudget <- 14, MinGuaranteed <- 5, MinCompressed <- 3, BodyLimit <- 30, report <- packed,
             Library <- MCLibrary, Words <- {"the", "x", "y"}, StopWords <- {"the"},
             Idf <- <<<<2877>>, <<6931, 1823>>, <<9808, 4700, 1335>>>>, Damping <- 85, Iterations <- 3,
             RrfK <- 60, TopK <- 2, MinConfidence <- 2500, MaxCorpus <- 3

NoKeys == [id |-> <<>>, title |-> <<>>, type |-> <<>>, sensitivity |-> <<>>,
           dependsOn |-> {}, mitigates |-> {}, references |-> {}]
Content(fm, parses, body) == [there |-> TRUE, parses |-> parses, fm |-> fm, body |-> body]
MCPaths == <<<<"cost-api", "md">>, <<"cost", "md">>, <<"notes", "md">>, <<"notes", "txt">>>>
MCDrafts == [p \in {MCPaths[i] : i \in 1 .. 4} |->
  CASE p[1] = "cost-api" ->
         {Content(NoKeys, TRUE, <<"notes", "of", "the", "outage">>),
          Content([NoKeys EXCEPT !.sensitivity = <<"confidential">>], FALSE, <<"key">>)}
    [] p[1] = "cost" ->
         {Content([NoKeys EXCEPT !.sensitivity = <<"public">>, !.title = <<<<"budget">>>>], TRUE,
                  <<"cost", "api", "notes", "key">>),
          Content([NoKeys EXCEPT !.sensitivity = <<"restricted">>, !.type = <<"Service">>], TRUE,
                  <<"[[", "notes", "|", "see", "notes", "]]", "ssn">>)}
    [] p[2] = "md" ->
         {Content([NoKeys EXCEPT !.type = <<"Runbook">>, !.dependsOn = {<<"cost">>}], TRUE,
                  <<"cost", "-", "api", "budget">>)}
    [] OTHER -> {Content(NoKeys, TRUE, <<"ssn", "cost", "api", "cost">>)}]
MCNames == {"cost-api", "cost", "notes"}
Text == INSTANCE Synthesis WITH
          Paths <- MCPaths, Drafts <- MCDrafts,
          Slugs <- [n \in MCNames |-> IF n = "cost-api" THEN <<"cost", "-", "api">> ELSE <<n>>],
          Titles <- [n \in MCNames |-> IF n = "cost-api" THEN <<"cost", "api">> ELSE <<n>>],
          Signals <- [t \in {"outage"} |-> "Incident"], Secrets <- {"key"}, Personal <- {"ssn"},
          Short <- {}, MaxOps <- 5, Days <- {"monday"}, NameLength <- 4,
          disk <- texts, source <- before, ops <- runs

Front(to) == [i \in DOMAIN to |-> <<IF i = 3 THEN "relates_to" ELSE "depends_on", to[i]>>]
Source(id, to, body, status, due) ==
  [id |-> id, files |-> {id \o ".md"}, front |-> Front(to), body |-> body, status |-> status, due |-> due]
MCTargets == {<<>>, <<"b">>, <<"c", "a">>, <<"b", "c">>, <<"a", "b">>}
Compilable(x, y, z, body) ==
  <<Source("a", x, <<>>, "none", FALSE), Source("b", y, body, "stale", FALSE), Source("c", z, <<>>, "none", FALSE)>>
Resting == Compilable(<<>>, <<>>, <<>>, <<>>)
MCBundles ==
  {<<Source("a", x, <<"gone", "web", "gone">>, "none", TRUE), Source("b", y, <<>>, "Applied", FALSE),
     Source("c", z, <<"a">>, "active", TRUE)>> : x, y, z \in MCTargets \cup {<<"b", "c.md", "gone">>}}
  \cup {Compilable(x, y, z, body) : x, y, z \in MCTargets, body \in {<<>>, <<"a">>}}
Pipeline == INSTANCE CompilePipeline WITH
              Bundles <- MCBundles, Web <- {"web"},
              Statuses <- {"active", "stale", "deprecated", "archived"},
              links <- compiled, visited <- seen

ASSUME MCAssumption == Sync!SyncAssumption /\ Diff!DiffAssumption /\ Outputs!ReconcileAssumption

syncVars == <<okf, wiki, manifest, sync, report, touched, agreed, known, died>>
nameVars == <<name, second, day, given>>
graphVars == <<links, target, queue, visited>>
contradictionVars == <<concepts, references>>
diffVars == <<first, released, refused>>
outputVars == <<version, sources, outs, built, recorded, result>>
packVars == <<candidates, usage, packs, packed, plan>>
findVars == <<corpus, question, ranked, decision>>
textVars == <<texts, before, ran, runs>>
compileVars == <<bundle, strict, typo, stage, compiled, seen, stack, cycles, warnings, answer>>
contextVars == <<packVars, findVars, textVars, compileVars>>
mcVars == <<vars, part, syncVars, nameVars, graphVars, contradictionVars, diffVars, outputVars, contextVars>>

\* A part that does not act stands in one of its initial states.
MCInit ==
  /\ part \in {"service", "sync", "factory", "graph", "contradictions", "releases", "outputs",
              "packing", "finding", "synthesis", "compiling"}
  /\ Init /\ (part # "service" => \A d \in Docs : disk[d] = Absent)
  /\ Sync!Init
  /\ Text!FactoryInit /\ (part # "factory" => given = {})
  /\ part # "graph" => links = {[src |-> <<"a">>, rel |-> "depends_on", to |-> <<"d", "b">>]}
  /\ Graph!GraphInit
  /\ Graph!ContradictionInit
  /\ part # "releases" => first = Diff!Plain
  /\ Diff!Init
  /\ Outputs!Init
  /\ Window!PackingInit /\ Window!RetrievalInit /\ Text!Init
  /\ part # "compiling" => bundle = Resting /\ strict = FALSE /\ typo = FALSE
  /\ Pipeline!PipelineInit

MCNext ==
  \/ /\ part = "service" /\ Next
     /\ UNCHANGED <<part, syncVars, nameVars, graphVars, contradictionVars, diffVars, outputVars, contextVars>>
  \/ /\ part = "sync" /\ Sync!Next
     /\ UNCHANGED <<vars, part, nameVars, graphVars, contradictionVars, diffVars, outputVars, contextVars>>
  \/ /\ part = "factory" /\ Text!Type
     /\ UNCHANGED <<vars, part, syncVars, graphVars, contradictionVars, diffVars, outputVars, contextVars>>
  \/ /\ part = "graph" /\ Graph!Visit
     /\ UNCHANGED <<vars, part, syncVars, nameVars, contradictionVars, diffVars, outputVars, contextVars>>
  \/ /\ part = "contradictions" /\ Graph!AddConcept
     /\ UNCHANGED <<vars, part, syncVars, nameVars, graphVars, diffVars, outputVars, contextVars>>
  \/ /\ part = "releases" /\ Diff!Release
     /\ UNCHANGED <<vars, part, syncVars, nameVars, graphVars, contradictionVars, outputVars, contextVars>>
  \/ /\ part = "outputs" /\ Outputs!Next
     /\ UNCHANGED <<vars, part, syncVars, nameVars, graphVars, contradictionVars, diffVars, contextVars>>
  \/ /\ \/ part = "packing" /\ Window!PackingNext /\ UNCHANGED <<findVars, textVars, compileVars>>
        \/ part = "finding" /\ Window!RetrievalNext /\ UNCHANGED <<packVars, textVars, compileVars>>
        \/ part = "synthesis" /\ Text!Next /\ UNCHANGED <<packVars, findVars, compileVars>>
        \/ part = "compiling" /\ Pipeline!PipelineNext /\ UNCHANGED <<packVars, findVars, textVars>>
     /\ UNCHANGED <<vars, part, syncVars, nameVars, graphVars, contradictionVars, diffVars, outputVars>>

\* The bodies of pages and documents are alike.
BodySymmetry == Permutations(Bodies)

\* The strategy of a run in one direction decides nothing.
OneOfEach == sync'.direction \in {"pull", "push"} => sync'.strategy = "fail"

MCSpec == MCInit /\ [][MCNext]_mcVars

\* A synchronisation loses no edit of one side and no governed key, and what it reports
\* as in sync is.
SyncLosesNothing ==
  /\ Sync!OneSidedEditSurvives /\ Sync!GovernanceIsKept
  /\ [](part = "sync" => Sync!ReportMeansAlike)

\* What is read of the bundle's text is what stands there: a slug of its letters, a link
\* the concept it names, the impact all that depends, an opposition a contradiction; and
\* what of it is shown for a question fits its budget, is ranked fairly and answers it;
\* and a compilation that ends well has named every broken link and every cycle.
KnowledgeIsReadRight ==
  /\ part = "factory" => Text!SlugIsClean /\ Text!SlugKeepsLetters
  /\ part = "graph" =>
       Graph!TypeOK /\ Graph!ImpactIsClosure /\ Graph!OrphanIsUnaffected /\ Graph!RelativeLinkFinds
  /\ part = "contradictions" => Graph!ReferencesOK /\ Graph!OppositionIsCritical
  /\ part = "packing" => Window!PackedWithinBudget /\ Window!PlannedWithinBudget
  /\ part = "finding" => Window!RankingIsFair /\ Window!RelevanceFollowsLinks /\ Window!AnswerIsGrounded
  /\ part = "compiling" => Pipeline!CyclesAreReal /\ Pipeline!EveryCycleIsCut /\ Pipeline!OkMeansWhole

\* Releases that are each called compatible add up to a compatible one, and none of them
\* breaks a link or loosens a control; and after an apply the outputs are those of the
\* sources, whatever was edited before.
ChangesAreSeen ==
  /\ Diff!NoBrokenRelease
  /\ [](part = "releases" => Diff!TypeOK /\ Diff!ReleasesAddUp /\ Diff!NeitherIsLooser)
  /\ Outputs!ApplyUndoesEdits
  /\ [](part = "outputs" => Outputs!TypeOK /\ Outputs!AppliedIsInSync)

\* What a synthesis writes keeps words, relations and sensitivity, and stays as it is.
SynthesisKeepsText ==
  /\ Text!SecondRunIsIdle
  /\ [](part = "synthesis" => Text!SensitivityHolds /\ Text!LinksAreWhole)
=============================================================================
