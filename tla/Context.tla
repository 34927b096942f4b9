-------------------------------- MODULE Context --------------------------------
(***************************************************************************)
(* What of the knowledge goes into a context window (core/src/context):    *)
(* the planner, which takes whole documents by relevance (context-plan,    *)
(* relevance-score, markdown-chunker), the adaptive packer, which          *)
(* compresses what does not fit and asks the tracker of costs what the     *)
(* agent has left (adaptive-compressor), and the retrieval of documents    *)
(* for a question with the guard that gives no answer (hybrid-retrieval,   *)
(* abstention-guard).                                                      *)
(***************************************************************************)
EXTENDS Integers, Sequences, FiniteSets, FiniteSetsExt, SequencesExt

(* A text that is packed is a sequence of lines, each of a kind and a length; a *)
(* line of length 0 is blank.                                                  *)

CONSTANTS
  Documents,      \* records of header, lines, priority, type, title, tags and fused
  MaxCandidates, MaxPacks,        \* bounds
  Budgets,        \* baseBudgetTokens and maxTokens
  AgentBudget,    \* what the tracker allows the agent
  MinGuaranteed, MinCompressed,   \* 120 and 30 tokens by default
  BodyLimit       \* 1500 characters of a body in a balanced plan

VARIABLES
  candidates,   \* documents, in the order in which they were found
  usage,        \* cumulativeTokens of the agent
  packs,        \* how often something was packed
  report,       \* of the last pack
  plan          \* the last manifest of the planner
packingVars == <<candidates, usage, packs, report, plan>>

\* estimateMarkdownTokens and TokenEstimator
Tokens(length) == (length + 3) \div 4
Sum(s) == FoldLeft(+, 0, s)
Length(lines) ==
  IF lines = <<>> THEN 0 ELSE Len(lines) - 1 + Sum([i \in DOMAIN lines |-> lines[i].length])
Size(d) == Tokens(Length(d.lines))

\* By a relevance from the highest, as they were found where it is equal.
Sorted(relevance) ==
  LET Before(i, j) == \/ relevance[candidates[i]] > relevance[candidates[j]]
                      \/ relevance[candidates[i]] = relevance[candidates[j]] /\ i < j
      order == SetToSortSeq(DOMAIN candidates, Before)
  IN [k \in DOMAIN order |-> candidates[order[k]]]

NoReport == [target |-> 0, base |-> 0, used |-> 0, items |-> <<>>, dropped |-> <<>>]
NoPlan == [budget |-> 0, most |-> 0, total |-> 0, included |-> <<>>, excluded |-> <<>>]

PackingInit == candidates = <<>> /\ usage = 0 /\ packs = 0 /\ report = NoReport /\ plan = NoPlan

Find(d) ==
  /\ Len(candidates) < MaxCandidates /\ d \notin Range(candidates)
  /\ candidates' = Append(candidates, d)
  /\ report' = NoReport /\ plan' = NoPlan
  /\ UNCHANGED <<usage, packs>>

-----------------------------------------------------------------------------
(* The adaptive packer *)

\* The lines in the order in which they are tried: headings, lines with a word of an
\* invariant, links, and the first four of the longer ones.
Tried(lines) ==
  LET Of(kind) == SelectSeq(lines, LAMBDA l : l.kind = kind)
      long == SelectSeq(Of("text"), LAMBDA l : l.length > 20)
  IN Of("heading") \o Of("invariant") \o Of("link") \o SubSeq(long, 1, Min({4, Len(long)}))

\* tryPush: the first line in any case, others while they fit; of a kind nothing after the
\* first one that does not.
CompressDocumentSemantically(lines, target) ==
  LET TryPush(done, line) ==
        LET cost == Tokens(line.length + 1)
        IN IF done.stopped = line.kind THEN done
           ELSE IF done.tokens + cost > target /\ done.lines # <<>> THEN [done EXCEPT !.stopped = line.kind]
           ELSE [done EXCEPT !.lines = Append(@, line), !.tokens = @ + cost]
  IN FoldLeft(TryPush, [lines |-> <<>>, tokens |-> 0, stopped |-> "none"], Tried(lines)).lines

\* A base budget, or what the agent has left of its own, which is never less than what is
\* guaranteed.
Effective(base) == Min({base, Max({MinGuaranteed, AgentBudget - usage})})

Item(d, lines, left) == [id |-> d, lines |-> lines, tokens |-> Tokens(Length(lines)), left |-> left]

\* One turn of packWithAdaptiveBudget.
PackOne(done, d) ==
  LET left == done.target - done.used
      whole == Item(d, d.lines, left)
      less == Item(d, CompressDocumentSemantically(d.lines, left), left)
      Take(item) == [done EXCEPT !.items = Append(@, item), !.used = @ + item.tokens]
  IN IF whole.tokens <= left THEN Take(whole)
     ELSE IF left >= MinCompressed /\ less.tokens \in 1 .. left THEN Take(less)
     ELSE [done EXCEPT !.dropped = Append(@, d)]

\* The agent is charged for what it was given.
PackWithAdaptiveBudget(base) ==
  /\ packs < MaxPacks /\ packs' = packs + 1
  /\ report' = FoldLeft(PackOne, [NoReport EXCEPT !.base = base, !.target = Effective(base)],
                        Sorted([d \in Documents |-> d.fused]))
  /\ usage' = usage + report'.used
  /\ plan' = NoPlan
  /\ UNCHANGED candidates

-----------------------------------------------------------------------------
(* The planner *)

\* RelevanceScore.calculate, in hundredths: of two words of the task, how many are in the
\* title and in the tags.
Score(d) ==
  Min({100, 30 + (CASE d.priority = "high" -> 20 [] d.priority = "critical" -> 30 [] OTHER -> 0)
              + (IF d.type THEN 20 ELSE 0) + 15 * d.title + 10 * d.tags})

\* The offset after a line's last character.
End(lines, i) == Length(SubSeq(lines, 1, i))
\* chunkMarkdown: the length of a body cut before the last heading that begins within the
\* limit, or else at the last blank line, at the last line, or in a line; the space before
\* the cut goes, and a marker comes.
Chunk(lines, limit) ==
  LET ends == {i \in 1 .. Len(lines) - 1 : End(lines, i) > 0}
      sections == {i \in ends : lines[i + 1].kind = "heading" /\ End(lines, i) + 1 <= limit}
      paragraphs == {i \in ends : lines[i + 1].length = 0 /\ End(lines, i) <= limit}
      within == {i \in ends : End(lines, i) <= limit}
      Trimmed(i) == Max({End(lines, j) : j \in {k \in 1 .. i : lines[k].length > 0}})
  IN IF Length(lines) <= limit THEN Length(lines)
     ELSE IF sections # {} THEN Trimmed(Max(sections)) + 16
     ELSE IF paragraphs # {} THEN Trimmed(Max(paragraphs)) + 16
     ELSE IF within # {} THEN Trimmed(Max(within)) + 15
     ELSE limit + 14

Estimate(d, mode) ==
  CASE mode = "minimal" -> Tokens(d.header)
    [] mode = "balanced" -> Tokens(d.header + 2 + Chunk(d.lines, BodyLimit))
    [] OTHER -> Tokens(d.header + 2 + Length(d.lines))

\* ContextPlanner.plan; of most documents, if it is not 0.
Plan(mode, strategy, budget, most) ==
  LET PlanOne(done, d) ==
        LET tokens == Estimate(d, mode)
            Exclude(reason) == [done EXCEPT !.excluded = Append(@, [id |-> d, tokens |-> tokens, reason |-> reason])]
        IN IF done.total + tokens > budget THEN Exclude("budget")
           ELSE IF most # 0 /\ Len(done.included) >= most THEN Exclude("documents")
           ELSE [done EXCEPT !.included = Append(@, [id |-> d, tokens |-> tokens]), !.total = @ + tokens]
      ordered == Sorted([d \in Documents |-> IF strategy = "hybrid" THEN d.fused ELSE Score(d)])
  IN /\ plan' = FoldLeft(PlanOne, [NoPlan EXCEPT !.budget = budget, !.most = most], ordered)
     /\ report' = NoReport
     /\ UNCHANGED <<candidates, usage, packs>>

PackingNext ==
  \/ \E d \in Documents : Find(d)
  \/ \E b \in Budgets : PackWithAdaptiveBudget(b)
  \/ \E b \in Budgets, mode \in {"minimal", "balanced", "full"}, s \in {"lexical", "hybrid"}, n \in {0, 1} :
       candidates # <<>> /\ Plan(mode, s, b, n)

-----------------------------------------------------------------------------
(* Properties *)

Prefix(kind, lines, all) ==
  IsPrefix(SelectSeq(lines, LAMBDA l : l.kind = kind), SelectSeq(all, LAMBDA l : l.kind = kind))

\* A pack fits its budget, every candidate is in it or dropped, whole wherever it fits, and
\* what is left of a compressed one are its first headings, invariants and links; the agent
\* passes its own budget by no more than what it is guaranteed at each pack.
PackedWithinBudget ==
  /\ report.used = Sum([i \in DOMAIN report.items |-> report.items[i].tokens])
  /\ report.used <= report.target /\ report.target <= report.base
  /\ report # NoReport =>
       {report.items[i].id : i \in DOMAIN report.items} \cup Range(report.dropped) = Range(candidates)
  /\ \A i \in DOMAIN report.items :
       LET item == report.items[i]
       IN /\ Size(item.id) <= item.left => item.lines = item.id.lines
          /\ \A kind \in {"heading", "invariant", "link"} : Prefix(kind, item.lines, item.id.lines)
  /\ usage <= AgentBudget + packs * MinGuaranteed

\* A plan fits its budget, and a document is out of it only if it would not fit in what is
\* left at the end, or if there are as many as may be.
PlannedWithinBudget ==
  /\ plan.total <= plan.budget
  /\ plan.most # 0 => Len(plan.included) <= plan.most
  /\ \A i \in DOMAIN plan.excluded :
       \/ plan.total + plan.excluded[i].tokens > plan.budget
       \/ plan.most # 0 /\ Len(plan.included) = plan.most

-----------------------------------------------------------------------------
(* Retrieval.  Texts are sets of words, of the same length and each word once; *)
(* how similar a text's vector is to the question's is part of the document.   *)
(* Scores are in ten-thousandths and rounded down.                             *)

CONSTANTS
  Library,      \* records of id, words, similar, priority, links and rule
  StopWords, Words,
  Idf,          \* of a word, by the number of documents and of those that have it
  Damping, Iterations,            \* of the page rank: 85 percent, 20 times
  RrfK,                           \* 60
  TopK, MinConfidence,            \* 5 and a quarter
  MaxCorpus                       \* a bound

Unit == 10000

VARIABLES
  corpus,     \* documents, in the order in which they were loaded
  question,   \* a set of words
  ranked,     \* the documents with their scores, the best first
  decision    \* of the guard
retrievalVars == <<corpus, question, ranked, decision>>

Undecided == [action |-> "none", top |-> {}]
RetrievalInit == corpus = <<>> /\ question = {} /\ ranked = <<>> /\ decision = Undecided

Load(d) ==
  /\ Len(corpus) < MaxCorpus /\ d \notin Range(corpus)
  /\ corpus' = Append(corpus, d)
  /\ question' = {} /\ ranked' = <<>> /\ decision' = Undecided

\* The sum of f over S.
Total(S, f) ==
  LET sum[T \in SUBSET S] == IF T = {} THEN 0 ELSE LET i == CHOOSE x \in T : TRUE IN f[i] + sum[T \ {i}]
  IN sum[S]

\* Okapi BM25, of which the best is 1; without any word of the question all are alike.
Bm25Scores(docs, query) ==
  LET Having(w) == Cardinality({j \in DOMAIN docs : w \in docs[j].words})
      weight == [w \in Words |-> IF Having(w) = 0 THEN 0 ELSE Idf[Len(docs)][Having(w)]]
      raw == [i \in DOMAIN docs |-> Total(query \cap docs[i].words, weight)]
      best == Max({raw[i] : i \in DOMAIN docs})
  IN IF query = {} THEN [i \in DOMAIN docs |-> Unit \div 2]
     ELSE IF best = 0 THEN raw
     ELSE [i \in DOMAIN docs |-> (raw[i] * Unit) \div best]

\* Relevance flows along the links, and what stands on a document without links returns
\* to the seeds.
PersonalizedPageRank(docs, seed) ==
  LET nodes == DOMAIN docs
      Links(i) == SelectSeq(docs[i].links, LAMBDA l : \E j \in nodes : docs[j].id = l)
      all == Total(nodes, seed)
      personal == [i \in nodes |-> IF all > 0 THEN (seed[i] * Unit) \div all ELSE Unit \div Len(docs)]
      Step(p) ==
        LET dangling == Total({i \in nodes : Links(i) = <<>>}, p)
            Base(i) == ((100 - Damping) * personal[i] + Damping * ((dangling * personal[i]) \div Unit)) \div 100
            Share(j, i) == Len(SelectSeq(Links(j), LAMBDA l : l = docs[i].id))
                             * ((Damping * p[j]) \div (100 * Len(Links(j))))
            linked == {j \in nodes : Links(j) # <<>>}
        IN [i \in nodes |-> Base(i) + Total(linked, [j \in linked |-> Share(j, i)])]
      result == FoldLeft(LAMBDA p, n : Step(p), personal, [n \in 1 .. Iterations |-> n])
      best == Max({result[i] : i \in nodes})
  IN [i \in nodes |-> (result[i] * Unit) \div best]

\* By the scores and, where they are equal, by name.
Order(docs, score) ==
  LET Before(i, j) == score[i] > score[j] \/ (score[i] = score[j] /\ docs[i].id < docs[j].id)
  IN SetToSortSeq(DOMAIN docs, Before)
Position(order, i) == CHOOSE k \in DOMAIN order : order[k] = i

\* The sum of what its places in the orders are worth, of what first places are.
ReciprocalRankFusion(orders, i) ==
  LET Worth(k) == (1000 * Unit * (RrfK + 1)) \div (RrfK + k)
      sum == Total(DOMAIN orders, [o \in DOMAIN orders |-> Worth(Position(orders[o], i))])
  IN (sum + 500 * Len(orders)) \div (1000 * Len(orders))

Seed(d, bm25) ==
  (bm25 + d.similar) \div 2 + (CASE d.priority = "critical" -> Unit \div 5
                                 [] d.priority = "high" -> Unit \div 10 [] OTHER -> 0)

Scores(docs, query) ==
  LET bm25 == Bm25Scores(docs, query)
      similar == [i \in DOMAIN docs |-> docs[i].similar]
      graph == PersonalizedPageRank(docs, [i \in DOMAIN docs |-> Seed(docs[i], bm25[i])])
      orders == <<Order(docs, bm25), Order(docs, similar), Order(docs, graph)>>
  IN [i \in DOMAIN docs |->
        [doc |-> docs[i], bm25 |-> bm25[i], graph |-> graph[i], rrf |-> ReciprocalRankFusion(orders, i)]]

\* HybridRetriever.rank: ties of the fusion are decided by bm25 and then by name.
Rank(docs, query) ==
  LET scores == Scores(docs, query)
      order == Order(docs, [i \in DOMAIN scores |-> (Unit + 1) * scores[i].rrf + scores[i].bm25])
  IN [k \in DOMAIN order |-> scores[order[k]]]

\* Of the first ranked, those that match at all.
Relevant(list) ==
  {r \in Range(SubSeq(list, 1, Min({TopK, Len(list)}))) : r.bm25 > 0 \/ r.doc.similar > Unit \div 20}

Opposed(c, d) == {c.rule, d.rule} = {"MUST", "NEVER"}

\* The share of the question's words that the relevant documents have, and the best similarity.
Confidence(query, top) ==
  LET covered == {w \in query : \E r \in top : w \in r.doc.words}
      similar == Max({r.doc.similar : r \in top})
  IN (65 * ((Cardinality(covered) * Unit) \div Cardinality(query)) + 35 * similar) \div 100

\* evaluateEpistemicAbstention
Decide(query, list) ==
  LET asked == query \ StopWords
      top == Relevant(list)
      Decision(action) == [action |-> action, top |-> {r.doc : r \in top}]
  IN IF asked = {} \/ list = <<>> \/ top = {} THEN [Undecided EXCEPT !.action = "insufficient"]
     ELSE IF \E r, s \in top : Opposed(r.doc, s.doc) THEN Decision("contradiction")
     ELSE IF Confidence(asked, top) < MinConfidence THEN Decision("insufficient")
     ELSE Decision("proceed")

Ask(query) ==
  /\ question' = query
  /\ ranked' = IF corpus = <<>> THEN <<>> ELSE Rank(corpus, query)
  /\ decision' = Decide(query, ranked')
  /\ UNCHANGED corpus

RetrievalNext == (\E d \in Library : Load(d)) \/ (\E q \in SUBSET Words : Ask(q))

-----------------------------------------------------------------------------
(* Properties *)

\* By a score, or where it is equal by name, a document is ahead of another.
Ahead(r, s, score, other) == score > other \/ (score = other /\ r.doc.id < s.doc.id)
\* The ranking is that of a set of documents, in whatever order they were loaded; and one
\* that is ahead of another by words, by similarity and by links is not ranked behind it.
RankingIsFair ==
  ranked # <<>> =>
    /\ {ranked[k].doc : k \in DOMAIN ranked} = Range(corpus) /\ Len(ranked) = Len(corpus)
    /\ \A k \in DOMAIN ranked : \A j \in 1 .. k - 1 :
         LET r == ranked[j]
             s == ranked[k]
         IN \/ Ahead(r, s, r.bm25, s.bm25) \/ Ahead(r, s, r.doc.similar, s.doc.similar)
            \/ Ahead(r, s, r.graph, s.graph)
    /\ Rank(Reverse(corpus), question) = ranked

Reached(docs, seeds) ==
  LET Further(S) == S \cup {i \in DOMAIN docs : \E j \in S : docs[i].id \in Range(docs[j].links)}
  IN FoldLeft(LAMBDA S, n : Further(S), seeds, [n \in 1 .. Iterations |-> n])
\* What is relevant by the graph is exactly what matches the question, is of priority, or is
\* linked from such a document; and all, if there is none.
RelevanceFollowsLinks ==
  ranked # <<>> =>
    LET docs == [k \in DOMAIN ranked |-> ranked[k].doc]
        seeds == {k \in DOMAIN docs : Seed(docs[k], ranked[k].bm25) > 0}
        found == {k \in DOMAIN docs : ranked[k].graph > 0}
    IN found = IF seeds = {} THEN DOMAIN docs ELSE Reached(docs, seeds)

\* An answer rests on a document that has a word of the question which means something, or
\* is very similar to it, and on none that another one it rests on contradicts; a question
\* of stop words, or that no document matches, has no answer.
AnswerIsGrounded ==
  decision.action = "proceed" =>
    /\ \E d \in decision.top : d.words \cap (question \ StopWords) # {} \/ 35 * d.similar >= 100 * MinConfidence
    /\ decision.top \subseteq Range(corpus) /\ Cardinality(decision.top) <= TopK
    /\ \A c, d \in Range(corpus) : Opposed(c, d) => ~({c, d} \subseteq decision.top)
================================================================================
