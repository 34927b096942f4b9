----------------------------- MODULE PolicyAnalysis -----------------------------
(***************************************************************************)
(* What core/src/policies says of a set of rules without a request: the    *)
(* linter (linter.ts), the verification of the safety invariants and of    *)
(* equivalence over a finite set of requests (formal-verifier.ts), the     *)
(* fixed attacks of the red-team suite (adversarial-fuzzer.ts), and the    *)
(* hash of the set (zk-policy-proof.ts).  A set of rules grows by one rule *)
(* at a time.                                                              *)
(***************************************************************************)
EXTENDS PolicyRules

CONSTANTS RuleSet, Requests, MaxRules   \* MaxRules: a bound

VARIABLES rules, open
vars == <<rules, open>>

\* Left open, or the set of what is listed.
Optional(m) == m = <<>> \/ m = <<m[1]>>

\* What a matcher lists is a set.
RulesAssumption ==
  /\ \A r \in RuleSet :
       /\ r.priority \in Nat /\ r.conds \in Seq(Conditions)
       /\ Optional(r.tools) /\ Optional(r.agents) /\ Optional(r.risks)
       /\ Optional(r.scopes) /\ Optional(r.effects)
       /\ r.tools # <<>> => r.tools[1] \subseteq Patterns
       /\ r.effects # <<>> => r.effects[1] \subseteq SideEffects
  /\ \A q \in Requests : q \in RequestSet /\ q.risk \in Risks

TypeOK == open \in BOOLEAN /\ \A i \in DOMAIN rules : rules[i] \in RuleSet

-----------------------------------------------------------------------------
(* linter.ts *)

EndsWithStar(p) == Len(p) > 1 /\ p[Len(p)] = <<>>
WithoutStar(p) == IF EndsWithStar(p) THEN Front(p) ELSE p

\* The text of p begins with that of s.
StartsWith(p, s) ==
  /\ Len(s) <= Len(p) /\ IsPrefix(s[Len(s)], p[Len(s)])
  /\ \A i \in DOMAIN s : i < Len(s) => s[i] = p[i]

PatternSubsumes(a, b) ==
  a = b \/ (EndsWithStar(a) /\ StartsWith(WithoutStar(b), WithoutStar(a)))

\* An empty list counts as an open one here, other than in the engine.
Listed(o) == o # <<>> /\ o[1] # {}

ToolsSubsume(a, b) ==
  \/ ~Listed(a) \/ Everything \in a[1]
  \/ Listed(b) /\ Everything \notin b[1] /\ \A q \in b[1] : \E p \in a[1] : PatternSubsumes(p, q)

ArraySubsumes(a, b) == Listed(a) => Listed(b) /\ b[1] \subseteq a[1]

MatcherSubsumes(r, s) ==
  /\ ToolsSubsume(r.tools, s.tools)
  /\ ArraySubsumes(r.agents, s.agents) /\ ArraySubsumes(r.risks, s.risks)
  /\ ArraySubsumes(r.effects, s.effects)
  /\ Listed(r.scopes) => Listed(s.scopes) /\ r.scopes[1] \subseteq s.scopes[1]

\* SHADOWED_RULE and REDUNDANT_RULE: <<the rule, the one before it>>.
Shadowed(rs) ==
  {p \in (DOMAIN rs) \X (DOMAIN rs) :
     /\ rs[p[2]].priority < rs[p[1]].priority
     /\ MatcherSubsumes(rs[p[2]], rs[p[1]])
     /\ rs[p[2]].conds \in {<<>>, rs[p[1]].conds}}

\* CONTRADICTORY_RULE
Contradictory(rs) ==
  {p \in (DOMAIN rs) \X (DOMAIN rs) :
     /\ p[1] < p[2] /\ rs[p[1]].priority = rs[p[2]].priority
     /\ MatcherSubsumes(rs[p[1]], rs[p[2]]) /\ MatcherSubsumes(rs[p[2]], rs[p[1]])
     /\ rs[p[1]].conds = rs[p[2]].conds /\ rs[p[1]].effect # rs[p[2]].effect}

-----------------------------------------------------------------------------
(* formal-verifier.ts *)

Listing(rs, field) == UNION {rs[i][field][1] : i \in {j \in DOMAIN rs : rs[j][field] # <<>>}}

\* The text that stands for a star.
Sample == <<"s", "ample">>
SampleOf(p) ==
  LET upTo[i \in DOMAIN p] == IF i = 1 THEN p[1] ELSE upTo[i - 1] \o Sample \o p[i] IN upTo[Len(p)]

FixedTools ==
  {<<"read_", "document">>, <<"write_", "record">>, <<"submit_", "external">>, <<"unlisted_admin_tool">>}

\* The tools of the state space: fixed ones, and one sample of each pattern but "*".
ToolsSeen(rs) == FixedTools \cup {SampleOf(p) : p \in Listing(rs, "tools") \ {Everything}}

AgentsSeen(rs) == {"agent-default"} \cup Listing(rs, "agents")

ConditionsOf(rs) == UNION {ToSet(rs[i].conds) : i \in DOMAIN rs}

EnvironmentsSeen(rs) ==
  ({"development", "production"} \cup
   {c.value[1] : c \in {d \in ConditionsOf(rs) : d.type = "environment"}}) \ {None}

\* A mistaken state space: the tools that rules name are left out.
SpaceOfFixedTools(rs) ==
  [tool : FixedTools, agent : AgentsSeen(rs), risk : Risks, effect : SideEffects, scopes : {{}},
   env : EnvironmentsSeen(rs), token : BOOLEAN]

\* buildFiniteStateSpace: no scopes, and no request without environment.
StateSpace(rs) ==
  [tool : ToolsSeen(rs), agent : AgentsSeen(rs), risk : Risks, effect : SideEffects, scopes : {{}},
   env : EnvironmentsSeen(rs), token : BOOLEAN]

\* The three DEFAULT_SAFETY_INVARIANTS.
Violates(q, d) ==
  /\ Unconditional(d) /\ ~q.token
  /\ \/ q.risk = "critical"
     \/ q.effect = "submit"
     \/ q.env = "production" /\ q.effect = "write" /\ q.risk \in {"high", "critical"}

Verified(rs, o) == \A q \in StateSpace(rs) : ~Violates(q, EvaluatePolicies(rs, q, o))

Alike(d, e) == d.effect = e.effect /\ d.approval = e.approval

Equivalent(rs, ss, o) ==
  \A q \in StateSpace(rs \o ss) : Alike(EvaluatePolicies(rs, q, o), EvaluatePolicies(ss, q, o))

-----------------------------------------------------------------------------
(* zk-policy-proof.ts and adversarial-fuzzer.ts *)

\* The rules are sorted by priority and id before they are hashed.
PolicySetHash(rs) == ToSet(rs)

\* The requests of the suite; the one with a payload is left to the firewall.
Vector(tool, agent, risk, effect, scopes) ==
  [tool |-> tool, agent |-> agent, risk |-> risk, effect |-> effect, scopes |-> scopes,
   env |-> "production", token |-> FALSE]
Vectors ==
  {Vector(<<"drop_", "production_database">>, "compromised-subagent", "critical", "write", {}),
   Vector(<<"submit_", "wire_transfer">>, "finance-assistant", "critical", "submit", {"finance:read"}),
   Vector(<<"write_", "cluster_config">>, "ops-agent", "high", "write", {}),
   Vector(<<"__shadow_debug_shell">>, "anonymous", "high", "write", {})}

Breached(rs, o) == {q \in Vectors : Unconditional(EvaluatePolicies(rs, q, o))}

-----------------------------------------------------------------------------
Init == rules = <<>> /\ open \in BOOLEAN

AddRule ==
  /\ Len(rules) < MaxRules
  /\ \E r \in RuleSet : (\A i \in DOMAIN rules : rules[i].id # r.id) /\ rules' = Append(rules, r)
  /\ UNCHANGED open

Spec == Init /\ [][AddRule]_vars

-----------------------------------------------------------------------------
(* Properties *)

NoEmptyList ==
  \A i \in DOMAIN rules :
    <<{}>> \notin {rules[i].tools, rules[i].agents, rules[i].risks, rules[i].effects}
Timeless == \A c \in ConditionsOf(rules) : c.type # "time_window"
NoEmptyEffects == \A i \in DOMAIN rules : rules[i].effects # <<{}>>

\* What the finite set of requests varies enough: no rule asks for a scope, names the
\* default agent or compares a text that the set does not vary as rules do; every
\* pattern is a whole name or ends with its only star; a sample is matched by patterns
\* that its own begins with only, and one of the fixed tools by none but "*".
NotVaried == {"tool", "agentId", "sideEffect", "approvalToken"}
Sampled(rs) ==
  LET named == Listing(rs, "tools") \ {Everything} IN
    /\ \A i \in DOMAIN rs : rs[i].scopes = <<>>
    /\ \A c \in ConditionsOf(rs) : c.type = "expression" => c.field \notin NotVaried
    /\ "agent-default" \notin Listing(rs, "agents")
    /\ \A p \in named : p = Literal(p[1]) \/ p = StartingWith(p[1])
    /\ \A p, r \in named : p = StartingWith(p[1]) /\ GlobMatch(r, SampleOf(p)) =>
                            r = StartingWith(r[1]) /\ IsPrefix(r[1], p[1])
    /\ \E t \in FixedTools : \A p \in named : ~GlobMatch(p, t)

\* A rule that the linter calls shadowed or redundant decides no request, at any
\* hour: to delete it changes nothing.  (Of rules without an empty list, which the
\* engine takes for "nothing" and the linter for "everything".)
ShadowedNeverDecides ==
  NoEmptyList => \A p \in Shadowed(rules) : \A q \in Requests, o \in BOOLEAN :
                   EvaluatePolicies(rules, q, o).by # p[1]

\* Contradictory rules do contradict: a request that one would decide the other
\* would too, and otherwise.  (Of such rules.)
ContradictionIsReal ==
  NoEmptyList => \A p \in Contradictory(rules) :
    \A q \in Requests : Applies(rules[p[1]], q, open) <=> Applies(rules[p[2]], q, open)

\* Of rules that the finite set of requests varies enough, without time windows and
\* empty lists of side effects: what is verified on it holds of every request in one of
\* its environments, whatever its tool, its agent, its scopes and its side effect; and
\* the red-team suite finds no breach.
VerifiedIsSafe ==
  Sampled(rules) /\ Timeless /\ NoEmptyEffects /\ Verified(rules, open) =>
    /\ \A q \in Requests : q.env \in EnvironmentsSeen(rules) =>
         ~Violates(q, EvaluatePolicies(rules, q, open))
    /\ Breached(rules, open) = {}

\* When rules are proved equivalent to what is left of them without one, the rule can
\* go: no request is decided otherwise.  (Rules and requests as above.)
EquivalentDecideAlike ==
  \A i \in DOMAIN rules :
    LET rest == RemoveAt(rules, i) IN
      Sampled(rules) /\ Equivalent(rules, rest, open) =>
        \A q \in {p \in Requests : p.env \in EnvironmentsSeen(rules) /\ p.effect # None} :
          Alike(EvaluatePolicies(rules, q, open), EvaluatePolicies(rest, q, open))

\* Sets with one hash decide alike when the linter finds no two rules of one priority
\* that apply to one request with different effects: the hash forgets the order of
\* the rules and the engine does not.
HashDeterminesDecision ==
  LET same == Reverse(rules) IN
    PolicySetHash(same) = PolicySetHash(rules) =>
      \A q \in Requests :
        \/ EvaluatePolicies(same, q, open).effect = EvaluatePolicies(rules, q, open).effect
        \/ \E i, j \in Applicable(rules, q, open) :
             rules[i].priority = rules[j].priority /\ rules[i].effect # rules[j].effect
=================================================================================
