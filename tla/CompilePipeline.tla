--------------------------- MODULE CompilePipeline ------------------------------
(***************************************************************************)
(* compile() of core/src/compiler (compile.ts, run-pipeline.ts and the     *)
(* stages): what is ingested is enriched, its links are extracted and      *)
(* validated, and the answer is an IR with warnings or one classified      *)
(* error.  The search for circular dependencies (stages/validate.ts) takes *)
(* one step of its recursion at a time, and its stack is explicit.         *)
(***************************************************************************)
EXTENDS Naturals, Sequences, FiniteSets, SequencesExt

CONSTANTS
  Bundles,  \* sequences of concepts [id, files, front, body, status, due]:
            \*   files   its source path, with and without its extension
            \*   front   links of the front matter, <<relation, target>>, in order
            \*   body    targets of the links of its text, in order
            \*   status  what its front matter says; due: its review is overdue
  Web,      \* targets that are addresses of the web or anchors
  Statuses  \* the lifecycle statuses

VARIABLES
  bundle, strict, typo,  \* what compile is called with; typo: a source of no known type
  stage,                 \* what is executed next, or "end"
  links,                 \* sequence of [src, rel, to]
  visited,               \* 0, 1 while it is on the stack, 2 when it is done with
  stack,                 \* the nodes of the search, each with how many neighbours were tried
  cycles, warnings, answer

pipelineVars == <<bundle, strict, typo, stage, links, visited, stack, cycles, warnings, answer>>

DependencyRelations ==
  {"depends_on", "prerequisite", "requires", "child_of", "parent_of", "extends"}

Concepts == {bundle[i] : i \in DOMAIN bundle}
Dependencies == SelectSeq(links, LAMBDA l : l.rel \in DependencyRelations)

\* adj: the nodes with an outgoing dependency in the order of their first one, and the
\* targets of each.
Roots == FoldLeft(LAMBDA acc, l : IF Contains(acc, l.src) THEN acc ELSE Append(acc, l.src),
                  <<>>, Dependencies)
Neighbours(n) == LET of == SelectSeq(Dependencies, LAMBDA l : l.src = n)
                 IN [i \in DOMAIN of |-> of[i].to]
Nodes == {c.id : c \in Concepts} \cup {links[i].to : i \in DOMAIN links}

\* extractMarkdownLinks: what leads out of the bundle is no link of the graph.
BodyLinks(c) ==
  LET inside == SelectSeq(c.body, LAMBDA to : to \notin Web)
  IN [i \in DOMAIN inside |-> [src |-> c.id, rel |-> "markdown_link", to |-> inside[i]]]

\* LinkExtractStage: the links of the front matter as they are; one of the text unless
\* its concept has it already.
WithBodyLink(ls, l) == IF Contains(ls, l) THEN ls ELSE Append(ls, l)
LinksOf(c) ==
  FoldLeft(WithBodyLink,
           [i \in DOMAIN c.front |-> [src |-> c.id, rel |-> c.front[i][1], to |-> c.front[i][2]]],
           BodyLinks(c))

\* Freshness.getEffectiveStatus: a status of another vocabulary is none.
EffectiveStatus(c) ==
  IF c.status \in Statuses THEN c.status ELSE IF c.due THEN "stale" ELSE "active"

IsBroken(l) == l.to \notin Web /\ \A c \in Concepts : l.to # c.id /\ l.to \notin c.files

Warning(type, source) == [type |-> type, source |-> source]
Pending == [ok |-> FALSE, type |-> "none"]

\* The catch of compile: the error is named by the tag of its message, and the warnings
\* that were collected are not returned.
Fail(type) ==
  /\ stage' = "end"
  /\ answer' = [ok |-> FALSE, type |-> type]

\* The result of compile, with a warning for each concept that is stale.
Succeed ==
  /\ stage' = "end"
  /\ answer' = [ok |-> TRUE, type |-> "none"]
  /\ warnings' = warnings \cup
       {Warning("stale_document", c.id) : c \in {d \in Concepts : EffectiveStatus(d) = "stale"}}

PipelineInit ==
  /\ bundle \in Bundles /\ strict \in BOOLEAN /\ typo \in BOOLEAN
  /\ stage = "ingest"
  /\ links = <<>> /\ stack = <<>> /\ cycles = <<>> /\ warnings = {}
  /\ visited = <<>>
  /\ answer = Pending

\* What throws besides the links: a connector, the redactor on what may not pass (see
\* PersonalData), and the schemas of capabilities and IR.
StageThrows ==
  /\ \/ stage \in {"ingest", "targets", "assemble"} /\ Fail("validation")
     \/ stage = "links" /\ Fail("pii")
     \/ stage = "assemble" /\ Fail("schema")
  /\ UNCHANGED <<bundle, strict, typo, links, visited, stack, cycles, warnings>>

\* IngestStage: a source whose type is not known is skipped with a warning.
Ingest ==
  /\ stage = "ingest"
  /\ warnings' = IF typo THEN {Warning("unknown_source_type", "source")} ELSE {}
  /\ stage' = "links"
  /\ UNCHANGED <<bundle, strict, typo, links, visited, stack, cycles, answer>>

ExtractLinks ==
  /\ stage = "links"
  /\ links' = FlattenSeq([i \in DOMAIN bundle |-> LinksOf(bundle[i])])
  /\ stage' = "targets"
  /\ UNCHANGED <<bundle, strict, typo, visited, stack, cycles, warnings, answer>>

\* ValidateStage, 2: a strict build ends at the first broken link.
CheckTargets ==
  /\ stage = "targets"
  /\ LET broken == {links[i] : i \in {j \in DOMAIN links : IsBroken(links[j])}} IN
       /\ warnings' = warnings \cup {Warning("missing_link_target", l.src) : l \in broken}
       /\ IF strict /\ broken # {} THEN Fail("schema")
          ELSE stage' = "search" /\ UNCHANGED answer
  /\ visited' = [n \in Nodes |-> 0]
  /\ UNCHANGED <<bundle, strict, typo, links, stack, cycles>>

\* ValidateStage, 3: dfs(node, []) of the first node that was not visited.
Start ==
  /\ stage = "search" /\ stack = <<>>
  /\ \E i \in DOMAIN Roots :
       /\ visited[Roots[i]] = 0
       /\ \A j \in 1 .. i - 1 : visited[Roots[j]] # 0
       /\ stack' = <<[node |-> Roots[i], tried |-> 0]>>
       /\ visited' = [visited EXCEPT ![Roots[i]] = 1]
  /\ UNCHANGED <<bundle, strict, typo, stage, links, cycles, warnings, answer>>

Path == [i \in DOMAIN stack |-> stack[i].node]
Here == Last(stack)
HasNext == stack # <<>> /\ Here.tried < Len(Neighbours(Here.node))
NextOne == Neighbours(Here.node)[Here.tried + 1]
Tried == [stack EXCEPT ![Len(stack)].tried = @ + 1]

\* A neighbour on the stack closes a cycle.
CloseCycle ==
  /\ stage = "search" /\ HasNext /\ visited[NextOne] = 1
  /\ cycles' = Append(cycles, Append(SubSeq(Path, SelectInSeq(Path, LAMBDA n : n = NextOne), Len(Path)), NextOne))
  /\ stack' = Tried
  /\ UNCHANGED <<bundle, strict, typo, stage, links, visited, warnings, answer>>

Descend ==
  /\ stage = "search" /\ HasNext /\ visited[NextOne] = 0
  /\ stack' = Append(Tried, [node |-> NextOne, tried |-> 0])
  /\ visited' = [visited EXCEPT ![NextOne] = 1]
  /\ UNCHANGED <<bundle, strict, typo, stage, links, cycles, warnings, answer>>

PassBy ==
  /\ stage = "search" /\ HasNext /\ visited[NextOne] = 2
  /\ stack' = Tried
  /\ UNCHANGED <<bundle, strict, typo, stage, links, visited, cycles, warnings, answer>>

Leave ==
  /\ stage = "search" /\ stack # <<>> /\ ~HasNext
  /\ stack' = Front(stack)
  /\ visited' = [visited EXCEPT ![Here.node] = 2]
  /\ UNCHANGED <<bundle, strict, typo, stage, links, cycles, warnings, answer>>

ReportCycles ==
  /\ stage = "search" /\ stack = <<>> /\ \A i \in DOMAIN Roots : visited[Roots[i]] # 0
  /\ warnings' = warnings \cup {Warning("circular_dependency", cycles[i][1]) : i \in DOMAIN cycles}
  /\ IF strict /\ cycles # <<>> THEN Fail("schema") ELSE stage' = "assemble" /\ UNCHANGED answer
  /\ UNCHANGED <<bundle, strict, typo, links, visited, stack, cycles>>

Assemble ==
  /\ stage = "assemble"
  /\ Succeed
  /\ UNCHANGED <<bundle, strict, typo, links, visited, stack, cycles>>

PipelineNext ==
  \/ Ingest \/ ExtractLinks \/ CheckTargets \/ Start \/ CloseCycle \/ Descend \/ PassBy \/ Leave
  \/ ReportCycles \/ Assemble \/ StageThrows

-----------------------------------------------------------------------------
(* Properties *)

DependsOn == {<<Dependencies[i].src, Dependencies[i].to>> : i \in DOMAIN Dependencies}
IsAcyclic(R) ==   \* no set of nodes each of which leads to one of them
  \A N \in (SUBSET Nodes) \ {{}} : \E n \in N : \A m \in N : <<n, m>> \notin R

\* What is reported as a cycle is one: it ends where it begins and follows dependencies.
CyclesAreReal ==
  \A k \in DOMAIN cycles :
    /\ cycles[k][1] = Last(cycles[k])
    /\ \A i \in 1 .. Len(cycles[k]) - 1 : <<cycles[k][i], cycles[k][i + 1]>> \in DependsOn

\* No cycle goes without report: whoever removes the last link of each one that is
\* reported has removed them all.
EveryCycleIsCut ==
  stage = "assemble" =>
    IsAcyclic(DependsOn \ {<<Last(Front(cycles[k])), Last(cycles[k])>> : k \in DOMAIN cycles})

\* A build that ends well names what is broken or circular in its warnings, and a strict
\* one has nothing of the kind.
OkMeansWhole ==
  answer.ok =>
    LET types == {w.type : w \in warnings} IN
      /\ "missing_link_target" \in types <=> \E i \in DOMAIN links : IsBroken(links[i])
      /\ "circular_dependency" \in types <=> ~IsAcyclic(DependsOn)
      /\ strict => {"missing_link_target", "circular_dependency"} \cap types = {}

=================================================================================
