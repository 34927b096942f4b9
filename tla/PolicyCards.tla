------------------------------ MODULE PolicyCards ------------------------------
(***************************************************************************)
(* From policy cards to decisions: the cards that an IR yields             *)
(* (policy/extract-gateway-policies.ts), the rules of a card               *)
(* (policies/adapter.ts), the evaluation of a card by itself               *)
(* (policy/evaluate.ts), the providers that decide (internal-provider.ts,  *)
(* opa-provider.ts, cedar-provider.ts) and the flight recorder with its    *)
(* replay against the card of another day (capabilities/                   *)
(* flight-recorder.ts).                                                    *)
(***************************************************************************)
EXTENDS PolicyRules

CONSTANTS Cards, Requests, MaxLog   \* MaxLog: a bound

VARIABLES
  card,    \* the card of the agent
  remote,  \* the decisions come from an OPA or Cedar server that has the same rules
  log,     \* the flight recorder
  open     \* the hour lies in the time window
vars == <<card, remote, log, open>>

\* A card: with <<>> for what it does not have.
\*   applies: <<[tools, risks]>>, v2: the rules in order, each [effect, conds];
\*   spec: <<[forbidden, approvals, allowed, side]>>, side: of each side effect
DefaultSide == [read |-> "allow", write |-> "approval", submit |-> "approval"]

CardsAssumption ==
  /\ \A c \in Cards :
       /\ c.applies = <<>> \/ c.applies = <<c.applies[1]>>
       /\ c.applies # <<>> => c.applies[1].tools \subseteq Patterns
       /\ c.v2 \in Seq([effect : {"allow", "deny", "require_approval"}, conds : Seq(Conditions)])
       /\ c.spec = <<>> \/ c.spec = <<c.spec[1]>>
       /\ c.spec # <<>> =>
            /\ c.spec[1].forbidden \cup c.spec[1].approvals \cup c.spec[1].allowed \subseteq Patterns
            /\ c.spec[1].side \in [SideEffects -> {"allow", "approval", "deny"}]
  /\ Requests \subseteq RequestSet

TypeOK ==
  /\ card \in Cards /\ open \in BOOLEAN /\ remote \in BOOLEAN
  /\ \A e \in log : e.request \in Requests /\ e.effect \in {"allow", "deny"}

-----------------------------------------------------------------------------
(* adaptPolicyCardToRules *)

Denied(tools) == [OpenRule EXCEPT !.effect = "deny", !.tools = tools]
Allowed(tools, approval) == [OpenRule EXCEPT !.tools = tools, !.approval = approval]

V2Rules(c) ==
  IF c.applies = <<>> THEN <<>>
  ELSE [i \in DOMAIN c.v2 |->
         LET r == IF c.v2[i].effect = "deny" THEN Denied(<<c.applies[1].tools>>)
                  ELSE Allowed(<<c.applies[1].tools>>, c.v2[i].effect = "require_approval")
         IN [r EXCEPT !.risks = c.applies[1].risks, !.conds = c.v2[i].conds]]

SideRule(s, e) ==
  [(IF s.side[e] = "deny" THEN Denied(<<s.allowed>>) ELSE Allowed(<<s.allowed>>, s.side[e] = "approval"))
     EXCEPT !.effects = <<{e}>>]

SideRules(s) == <<SideRule(s, "read"), SideRule(s, "write"), SideRule(s, "submit")>>
Forbidden(s) == IF s.forbidden = {} THEN <<>> ELSE <<Denied(<<s.forbidden>>)>>
Approvals(s) == IF s.approvals = {} THEN <<>> ELSE <<Allowed(<<s.approvals>>, TRUE)>>

\* A mistaken order: what needs an approval comes after the side effects.
SpecApprovalsLast(s) == Forbidden(s) \o SideRules(s) \o Approvals(s)

\* What is forbidden, then what needs an approval, then the side effects.
SpecRules(s) == Forbidden(s) \o Approvals(s) \o SideRules(s)

AdaptPolicyCardToRules(c) ==
  LET all == V2Rules(c) \o (IF c.spec = <<>> THEN <<>> ELSE SpecRules(c.spec[1]))
  IN [i \in DOMAIN all |-> [all[i] EXCEPT !.id = i, !.priority = 99 + i]]

-----------------------------------------------------------------------------
(* evaluatePolicy: the card by itself *)

Names(ps, tool) == Everything \in ps \/ Literal(tool) \in ps

\* The name itself, or what it begins with: here one star at the end counts, and no other.
Covers(p, tool) == p = Literal(tool) \/ (p = StartingWith(p[1]) /\ IsPrefix(p[1], tool))

EvaluateSpec(s, q) ==
  IF Names(s.forbidden, q.tool) \/ ~Names(s.allowed, q.tool) \/ s.side[q.effect] = "deny"
  THEN [effect |-> "deny", approval |-> FALSE]
  ELSE [effect |-> "allow", approval |-> s.side[q.effect] = "approval" \/ Names(s.approvals, q.tool)]

EvaluatePolicy(c, q, o) ==
  LET inScope == /\ c.applies # <<>>
                 /\ \E p \in c.applies[1].tools : Covers(p, q.tool)
                 /\ c.applies[1].risks # <<>> => q.risk \in c.applies[1].risks[1]
      met == {i \in DOMAIN c.v2 : inScope /\ MeetsConditions(c.v2[i].conds, q, o)}
  IN IF met # {}
     THEN LET r == c.v2[CHOOSE i \in met : \A j \in met : i <= j]
          IN [effect |-> IF r.effect = "deny" THEN "deny" ELSE "allow",
              approval |-> r.effect = "require_approval"]
     ELSE IF c.spec = <<>> THEN [effect |-> "allow", approval |-> FALSE]
     ELSE EvaluateSpec(c.spec[1], q)

-----------------------------------------------------------------------------
(* extractGatewayPolicies *)

\* The card that is made of the defaults of an organisation.
SynthesizedCard(approvals) ==
  [applies |-> <<>>, v2 |-> <<>>,
   spec |-> <<[forbidden |-> {}, approvals |-> approvals, allowed |-> {Everything}, side |-> DefaultSide]>>]

-----------------------------------------------------------------------------
(* Calls and their replay *)

Decide(c, q, o) == EvaluatePolicies(AdaptPolicyCardToRules(c), q, o)

\* What an external provider makes of an answer, or of none.
External(answer, d) ==
  IF answer = "decision" THEN d ELSE [by |-> 0, effect |-> "deny", approval |-> FALSE]

Init == card \in Cards /\ remote \in BOOLEAN /\ log = {} /\ open = TRUE

Call ==
  /\ Cardinality(log) < MaxLog
  /\ \E q \in Requests, answer \in {"decision", "empty", "error", "timeout"} :
       /\ remote \/ answer = "decision"
       /\ LET d == External(answer, Decide(card, q, open))
          IN log' = log \cup {[request |-> q, effect |-> d.effect, approval |-> d.approval]}
  /\ UNCHANGED <<card, remote, open>>

\* reload, in the middle of a flight; and the hours pass.
Reload == /\ \E c \in Cards : card' = c
          /\ UNCHANGED <<remote, log, open>>
HourPasses == open' = ~open /\ UNCHANGED <<card, remote, log>>

Next == Call \/ Reload \/ HourPasses

Spec == Init /\ [][Next]_vars

\* The divergence kind of one entry: it is replayed without its approval token.
Identical == "identical"
DivergenceKind(e) ==
  LET d == Decide(card, [e.request EXCEPT !.token = FALSE], open) IN
    IF e.effect = d.effect /\ e.approval = d.approval THEN Identical
    ELSE IF e.effect = "deny" /\ d.effect = "allow" THEN "PRIVILEGE_RELAXED"
    ELSE IF e.effect = "allow" /\ d.effect = "deny" THEN "NEWLY_BLOCKED"
    ELSE IF e.approval /\ ~d.approval THEN "HITL_REMOVED"
    ELSE "NEWLY_GATED_HITL"

\* hasPrivilegeRelaxations and hasBreakingBlocks are that these are not empty.
Relaxations(entries) == {e \in entries : DivergenceKind(e) \in {"PRIVILEGE_RELAXED", "HITL_REMOVED"}}
Blocks(entries) == {e \in entries : DivergenceKind(e) = "NEWLY_BLOCKED"}

-----------------------------------------------------------------------------
(* Properties *)

\* Cards whose lists have names and "*" only, and whose scope has a star at an end only.
Exact(c) ==
  /\ c.spec # <<>> =>
       \A p \in c.spec[1].forbidden \cup c.spec[1].approvals \cup c.spec[1].allowed :
         p \in {Everything, Literal(p[1])}
  /\ c.applies # <<>> => \A p \in c.applies[1].tools : p \in {StartingWith(p[1]), Literal(p[1])}

\* The rules that enforce a card are nowhere looser than the card read by itself: what
\* they allow without asking, it allows without asking.  (Exact cards, requests with a
\* side effect.)
EnforcedAsWritten ==
  Exact(card) => \A q \in {r \in Requests : r.effect # None} :
    Unconditional(Decide(card, q, open)) => Unconditional(EvaluatePolicy(card, q, open))

\* An organisation that asks for an approval of a tool gets one, whatever the side
\* effect that a request declares or leaves out.
OrganisationIsAsked ==
  card.spec # <<>> => \A q \in Requests :
    (\E p \in card.spec[1].approvals : GlobMatch(p, q.tool))
      => ~Unconditional(Decide(SynthesizedCard(card.spec[1].approvals), q, open))

\* A replay finds what got looser and what got blocked: of calls without a token, the
\* flagged ones are those that today's decision opens, or closes.
Opened(e, d) == d.effect = "allow" /\ (e.effect = "deny" \/ (e.approval /\ ~d.approval))
ReplayJudgesRight ==
  \A e \in {x \in log : ~x.request.token} :
    LET now == Decide(card, e.request, open) IN
      /\ e \in Relaxations(log) <=> Opened(e, now)
      /\ e \in Blocks(log) <=> (e.effect = "allow" /\ now.effect = "deny")

=================================================================================
