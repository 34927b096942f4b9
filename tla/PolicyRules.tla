------------------------------ MODULE PolicyRules ------------------------------
(***************************************************************************)
(* The policy engine (core/src/policies/engine.ts) as operators: which     *)
(* rules match a request, which of them decides, and what the trace says.  *)
(* A text is the sequence of its pieces: characters, or several of them    *)
(* that nothing cuts apart.  A pattern is the sequence of the texts        *)
(* between its stars: of one text without a star, of two empty ones "*".   *)
(* What a matcher leaves open is <<>>, what it lists is <<set>>.           *)
(***************************************************************************)
EXTENDS Naturals, Sequences, FiniteSets, SequencesExt

None == "none"
Risks == {"low", "medium", "high", "critical"}
SideEffects == {"read", "write", "submit"}

Text == Seq(STRING)
Literal(text) == <<text>>
StartingWith(text) == <<text, <<>>>>
Everything == StartingWith(<<>>)
Patterns == Seq(Text) \ {<<>>}

\* Of a condition: type, and the params field, op and value.
Conditions == [type : STRING, field : STRING, op : STRING, value : Text]
Condition(type) == [type |-> type, field |-> None, op |-> None, value |-> <<>>]
\* e may be None.
Environment(e) == [Condition("environment") EXCEPT !.value = <<e>>]
Expression(field, op, value) == [type |-> "expression", field |-> field, op |-> op, value |-> value]

\* env: the environment, or None; token: whether there is an approval token.
RequestSet ==
  [tool : Text, agent : STRING, risk : STRING, effect : SideEffects \cup {None},
   scopes : SUBSET STRING, env : STRING, token : BOOLEAN]

\* A rule with everything left open; ids tell rules of one set apart.
OpenRule == [id |-> None, priority |-> 100, effect |-> "allow", tools |-> <<>>, agents |-> <<>>,
             risks |-> <<>>, scopes |-> <<>>, effects |-> <<>>, conds |-> <<>>, approval |-> FALSE]

\* The texts of the pattern stand in the name one after another, the first at its
\* beginning, the last at its end; at: how much of the name lies before each.
GlobMatch(p, name) ==
  \E at \in [DOMAIN p -> 0 .. Len(name)] :
    /\ at[1] = 0 /\ at[Len(p)] + Len(p[Len(p)]) = Len(name)
    /\ \A i \in DOMAIN p : i < Len(p) => at[i] + Len(p[i]) <= at[i + 1]
    /\ \A i \in DOMAIN p : SubSeq(name, at[i] + 1, at[i] + Len(p[i])) = p[i]

\* A request without a side effect passes the matcher of side effects.
MatchesRule(r, q) ==
  /\ r.tools # <<>> => \E p \in r.tools[1] : GlobMatch(p, q.tool)
  /\ r.agents # <<>> => q.agent \in r.agents[1]
  /\ r.risks # <<>> => q.risk \in r.risks[1]
  /\ r.scopes # <<>> => r.scopes[1] \subseteq q.scopes
  /\ r.effects # <<>> /\ q.effect # None => q.effect \in r.effects[1]

\* resolveRequestField, as String() writes it; a token stands for its text.
Undefined == <<"undefined">>
Given(v) == IF v = None THEN Undefined ELSE <<v>>
ResolveRequestField(field, q) ==
  CASE field = "environment"   -> Given(q.env)
    [] field = "riskLevel"     -> <<q.risk>>
    [] field = "tool"          -> q.tool
    [] field = "agentId"       -> <<q.agent>>
    [] field = "sideEffect"    -> Given(q.effect)
    [] field = "approvalToken" -> IF q.token THEN <<"token">> ELSE Undefined
    [] OTHER                   -> Undefined

\* No text is a numeral, so that nothing is smaller or greater.
CompareValues(actual, op, expected) ==
  \/ op \in {"==", "="} /\ actual = expected
  \/ op = "!=" /\ actual # expected

\* open: the hour of the evaluation lies in the time window of the rules.
Meets(c, q, open) ==
  \/ c.type = "custom"
  \/ c.type = "time_window" /\ open
  \/ c.type = "approval_exists" /\ q.token
  \/ c.type = "environment" /\ c.value = <<q.env>>
  \/ c.type = "expression" /\ CompareValues(ResolveRequestField(c.field, q), c.op, c.value)

MeetsConditions(conds, q, open) == \A k \in DOMAIN conds : Meets(conds[k], q, open)

Applies(r, q, open) == MatchesRule(r, q) /\ MeetsConditions(r.conds, q, open)

\* The order of a stable sort by priority.
Before(rules, i, j) ==
  rules[i].priority < rules[j].priority \/ (rules[i].priority = rules[j].priority /\ i < j)

Applicable(rules, q, open) == {i \in DOMAIN rules : Applies(rules[i], q, open)}
FirstOf(rules, S) == CHOOSE i \in S : \A j \in S \ {i} : Before(rules, i, j)

\* evaluatePolicies: the first rule that applies decides, and none denies.
EvaluatePolicies(rules, q, open) ==
  LET found == Applicable(rules, q, open) IN
    IF found = {} THEN [by |-> 0, effect |-> "deny", approval |-> FALSE]
    ELSE LET i == FirstOf(rules, found)
         IN [by |-> i, effect |-> rules[i].effect, approval |-> rules[i].approval]

\* The conflict that evaluatePoliciesWithTrace reports: the rule that decides and
\* the first one after it that would have decided otherwise.
Conflict(rules, q, open) ==
  LET d == EvaluatePolicies(rules, q, open)
      against == {j \in Applicable(rules, q, open) : rules[j].effect # d.effect}
  IN IF d.by = 0 \/ against = {} THEN {} ELSE {<<d.by, FirstOf(rules, against)>>}

\* An allowance that asks nobody.
Unconditional(d) == d.effect = "allow" /\ ~d.approval

=================================================================================
