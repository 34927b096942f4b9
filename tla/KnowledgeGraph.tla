--------------------------- MODULE KnowledgeGraph -------------------------------
(***************************************************************************)
(* core/src/graph: links of Markdown to concept ids (extract-links.ts),    *)
(* the semantic graph with its broken links and orphans (build-graph.ts),  *)
(* and the impact map, a breadth-first search (impact-analysis.ts). A      *)
(* concept id is the sequence of its path.  And                            *)
(* detectKnowledgeContradictions (contradiction-detector.ts) over a bundle *)
(* that grows by a concept at a time: a line says what must be done, what  *)
(* must never be done, both, or gives a metric a value.                    *)
(***************************************************************************)
EXTENDS Naturals, Sequences, FiniteSets, SequencesExt, Relation

CONSTANTS
  Concepts,    \* ids of the documents, paths
  LinkSets     \* the sets of links a document may have, each [src |-> ., rel |-> ., to |-> .]

VARIABLES
  links,    \* the edges of the bundle
  target,   \* the concept whose impacts are being computed
  queue,    \* concepts found and not visited yet; their order does not matter
  visited

graphVars == <<links, target, queue, visited>>

Up == ".."
Dir(id) == SubSeq(id, 1, Len(id) - 1)

\* path.join: a name and the ".." after it cancel out.
Join(p) ==
  FoldLeft(LAMBDA acc, part : IF part = Up /\ acc # <<>> /\ Last(acc) # Up THEN Front(acc)
                              ELSE Append(acc, part), <<>>, p)

\* A mistaken resolution: relative to the document instead of its directory.
NormalizeFromDocument(source, fromRoot, path) ==
  IF fromRoot THEN path ELSE Join(source \o path)

\* normalizeLinkId of a link to a file: a link from the root is taken as it is, a
\* relative one is joined to the directory of its source.
NormalizeLinkId(source, fromRoot, path) ==
  IF fromRoot THEN path ELSE Join(Dir(source) \o path)

\* buildSemanticGraph: an edge whose target is no document is broken.
IsBroken(e) == e.to \notin Concepts
Outgoing(edges, c) == Cardinality({e \in edges : e.src = c})
Incoming(edges, c) == Cardinality({e \in edges : e.to = c /\ ~IsBroken(e)})

OrphanedConcepts(edges) == {c \in Concepts : Incoming(edges, c) = 0 /\ Outgoing(edges, c) = 0}

HighlyConnected(edges) == {c \in Concepts : Incoming(edges, c) + Outgoing(edges, c) >= 5}

Summary(edges) ==
  [totalNodes |-> Cardinality(Concepts), totalEdges |-> Cardinality(edges),
   broken |-> {e \in edges : IsBroken(e)}, orphaned |-> OrphanedConcepts(edges),
   hubs |-> HighlyConnected(edges)]

\* Who links to c; broken links do not count.
DirectImpacts(c) == {e.src : e \in {l \in links : l.to = c /\ ~IsBroken(l)}}

GraphInit ==
  /\ links \in LinkSets
  /\ target \in Concepts
  /\ DirectImpacts(target) # {}
  /\ queue = DirectImpacts(target)
  /\ visited = {}

\* One turn of the search of computeImpactMap.
Visit ==
  /\ queue # {}
  /\ LET c == CHOOSE x \in queue : TRUE IN
       /\ visited' = visited \cup {c}
       /\ queue' = (queue \cup DirectImpacts(c)) \ visited'
  /\ UNCHANGED <<links, target>>

TypeOK ==
  visited \cup queue \subseteq Concepts /\ visited \cap queue = {}

-----------------------------------------------------------------------------
(* Properties *)

\* When the search ends it has found exactly the concepts from which a path of
\* unbroken links leads to the target.
ImpactIsClosure ==
  queue = {} =>
    LET R == TransitiveClosure([p \in Concepts \X Concepts |-> p[1] \in DirectImpacts(p[2])], Concepts)
    IN visited = {c \in Concepts : R[c, target]}

\* An orphan of the graph is in no impact set: what depends on nothing and nothing
\* depends on is not affected by any change.
OrphanIsUnaffected ==
  \A c \in Summary(links).orphaned : c # target /\ c \notin visited

\* The relative path from one document to another is resolved to that document.
RelativeLinkFinds ==
  \A source, to \in Concepts :
    LET ups == [i \in 1 .. Len(source) - 1 |-> Up]
    IN NormalizeLinkId(source, FALSE, ups \o to) = to

-----------------------------------------------------------------------------
CONSTANTS Subjects, Values, Statuses, MaxConcepts   \* MaxConcepts: a bound

None == "none"

\* What a line says: subjects of MUST and of NEVER, or the value of the one metric.
Lines == {[must |-> m, never |-> n, value |-> None] : m, n \in Subjects \cup {None}}
           \cup {[must |-> None, never |-> None, value |-> v] : v \in Values}

VARIABLES concepts, references   \* the concepts in order; links between their positions
contradictionVars == <<concepts, references>>

ReferencesOK == \A l \in references : {l[1], l[2]} \subseteq DOMAIN concepts

\* extractNormativeClaims: a line that forbids is not read for what it demands.
Claim(i) ==
  LET l == concepts[i].line IN
    IF l.never # None THEN {[by |-> i, polarity |-> "negative", subject |-> l.never]}
    ELSE IF l.must # None THEN {[by |-> i, polarity |-> "positive", subject |-> l.must]}
    ELSE {}

Claims == UNION {Claim(i) : i \in DOMAIN concepts}

\* One contradiction for two concepts and a subject.
PolarityConflicts ==
  {<<{p[1].by, p[2].by}, p[1].subject>> : p \in {q \in Claims \X Claims :
     q[1].subject = q[2].subject /\ q[1].polarity # q[2].polarity}}

NumericConflicts ==
  {{p[1], p[2]} : p \in {q \in (DOMAIN concepts) \X (DOMAIN concepts) :
     LET a == concepts[q[1]].line.value
         b == concepts[q[2]].line.value
     IN a # None /\ b # None /\ a # b}}

\* An active concept that links to one that is deprecated or archived.
StaleConflicts ==
  {l \in references : concepts[l[1]].status = "active" /\ concepts[l[2]].status \in {"deprecated", "archived"}}

Report ==
  [errors |-> PolarityConflicts, warnings |-> <<NumericConflicts, StaleConflicts>>,
   critical |-> PolarityConflicts # {}]

ContradictionInit == concepts = <<>> /\ references = {}

AddConcept ==
  /\ Len(concepts) < MaxConcepts
  /\ \E l \in Lines, s \in Statuses : concepts' = Append(concepts, [line |-> l, status |-> s])
  /\ \E to \in SUBSET DOMAIN concepts : references' = references \cup {<<Len(concepts'), t>> : t \in to}

-----------------------------------------------------------------------------
(* Properties *)

\* Two concepts of which one demands, in a line that forbids nothing, what the other
\* forbids make the bundle critical, wherever in it they are.
OppositionIsCritical ==
  \A i, j \in DOMAIN concepts :
    LET demand == concepts[i].line IN
      demand.must # None /\ demand.never = None /\ concepts[j].line.never = demand.must
        => Report.critical /\ <<{i, j}, demand.must>> \in Report.errors

=================================================================================
