------------------------------ MODULE MCPerimeter ------------------------------
(***************************************************************************)
(* Who may do what, for TLC: the analysis of rules, the cards and their    *)
(* decisions, rate limits, authentication, the servers in front of all     *)
(* this, and the protection of personal data.  They share no state, so a *)
(* behaviour exercises one.                                                *)
(***************************************************************************)
EXTENDS Integers, FiniteSets, Sequences, SequencesExt

CONSTANTS
  RuleSet, RuleRequests, MaxRules,
  Cards, CardRequests, MaxLog,
  MaxTokens, Interval, RateNum, RateDen, Skews, Expires, Slack,  \* of the rate limiter
  ApiKeys, Jwts, AuthConfig, Tolerance, AuthTime,                \* of authentication, and of
  AttemptTokens, AttemptInterval, AttemptNum, AttemptDen,        \* the limit of its attempts
  Callers, Users, WindowMs, MaxRequests, DemoMode, DashboardTime,
  Clients, Limits, MaxVersion, Bundles, Suspects, Uris           \* of the profile server

VARIABLES part
VARIABLES rules, hour
VARIABLES card, remote, log, open
VARIABLES bucket, idle, last
VARIABLES source, sourceIdle, sourceLast, now, asked, failures, since
VARIABLES found, options, composite, result
VARIABLES secret, entries, text, origin, ops, lastOp
VARIABLES minute, windows, profile, automation, passed, forwarded, reply
VARIABLES ir, connections, transports, server, reading, called
VARIABLES config, running, concepts, session, answer

R == INSTANCE PolicyRules

-----------------------------------------------------------------------------
(* Rules, requests and cards *)

ReadA == <<"read_", "a">>
WriteA == <<"write_", "a">>
AnyRead == R!StartingWith(<<"read_">>)
AnyA == <<<<>>, <<"a">>>>

Matcher == [tools |-> <<>>, agents |-> <<>>, risks |-> <<>>, scopes |-> <<>>, effects |-> <<>>]
Matchers ==
  {Matcher,
   [Matcher EXCEPT !.tools = <<{AnyRead}>>],
   [Matcher EXCEPT !.tools = <<{AnyA}>>],
   [Matcher EXCEPT !.tools = <<{R!Literal(ReadA), R!Literal(WriteA)}>>],
   [Matcher EXCEPT !.tools = <<{R!Everything}>>, !.risks = <<{"critical"}>>],
   [Matcher EXCEPT !.tools = <<{R!Literal(WriteA)}>>, !.scopes = <<{"s"}>>],
   [Matcher EXCEPT !.tools = <<{AnyRead}>>, !.effects = <<{"read"}>>, !.agents = <<{"b"}>>],
   [Matcher EXCEPT !.tools = <<{}>>]}
Rule(i, e, m, c, a) ==
  [id |-> i[1], priority |-> i[2], effect |-> e, tools |-> m.tools, agents |-> m.agents, risks |-> m.risks,
   scopes |-> m.scopes, effects |-> m.effects, conds |-> c, approval |-> a]
Expected == R!Expression("riskLevel", "!=", <<"low">>)
MCRules ==
  {r \in {Rule(i, e, m, c, a) :
           i \in {<<"r1", 1>>, <<"r2", 2>>, <<"r3", 1>>}, e \in {"allow", "deny"}, m \in Matchers,
           c \in {<<>>, <<R!Environment("production"), Expected>>, <<R!Expression("tool", "==", ReadA)>>,
                  <<R!Condition("approval_exists")>>, <<R!Condition("time_window")>>, <<R!Condition("unknown")>>},
           a \in BOOLEAN} :
     /\ r.approval => r.effect = "allow" /\ r.conds = <<>>
     /\ r.conds # <<>> /\ r.conds[1].type # "environment" => r.tools = <<{AnyRead}>> /\ r.agents = <<>>
     /\ r.id = "r3" => r.conds = <<>> /\ r.risks = <<>>}
MCRequests ==
  {q \in [tool : {ReadA, WriteA, <<"other">>}, agent : {"agent-default", "b"}, risk : {"low", "critical"},
          effect : {"read", "submit", "none"}, scopes : {{}, {"s"}}, env : {"production", "none"},
          token : BOOLEAN] :
     q.agent = "b" => q.scopes = {} /\ q.env = "production"}

\* Rules of which one forbids a part of what the other allows.
MCNested ==
  {Rule(<<"r1", 1>>, "deny", [Matcher EXCEPT !.tools = <<{R!StartingWith(<<"db_", "s">>)}>>], <<>>, FALSE),
   Rule(<<"r2", 2>>, "allow", [Matcher EXCEPT !.tools = <<{R!StartingWith(<<"db_">>)}>>], <<>>, FALSE)}
MCDrop ==
  [tool : {<<"db_", "drop">>}, agent : {"agent-default"}, risk : {"critical"}, effect : {"write"},
   scopes : {{}}, env : {"production"}, token : {FALSE}]

Card(v2, spec) == [applies |-> <<[tools |-> {AnyRead}, risks |-> <<>>]>>, v2 |-> v2, spec |-> spec]
V2(e, c) == [effect |-> e, conds |-> c]
MCSpecs ==
  {s \in [forbidden : {{}, {R!Literal(WriteA)}}, approvals : {{}, {R!Literal(ReadA)}, {AnyRead}},
          allowed : {{R!Everything}, {R!Literal(ReadA)}},
          side : {[read |-> "allow", write |-> "approval", submit |-> "approval"],
                  [read |-> "allow", write |-> "deny", submit |-> "allow"]}] :
     s.allowed = {R!Literal(ReadA)} => s.forbidden = {}}
MCCards ==
  {Card(<<>>, <<s>>) : s \in MCSpecs}
    \cup {Card(<<V2(e, c)>>, <<>>) : e \in {"allow", "deny", "require_approval"},
            c \in {<<>>, <<R!Condition("approval_exists")>>, <<R!Expression("sideEffect", "!=", <<"read">>)>>}}
    \cup {Card(<<V2("deny", <<R!Environment("production")>>), V2("allow", <<R!Condition("time_window")>>)>>, <<>>),
          Card(<<>>, <<>>)}
MCCalls ==
  {q \in [tool : {ReadA, WriteA}, agent : {"a"}, risk : {"low"}, effect : {"read", "write", "none"},
          scopes : {{}}, env : {"production", "development"}, token : BOOLEAN] :
     q.env = "development" => q.effect = "read"}

Analysis == INSTANCE PolicyAnalysis WITH
  Requests <- RuleRequests, open <- hour
Policies == INSTANCE PolicyCards WITH Requests <- CardRequests

-----------------------------------------------------------------------------
(* Limits, authentication *)

\* A key of Redis that three clocks look at.
MCSkews == {-1, 0, 1}
Limit == INSTANCE RateLimiter

MCKeys == [k \in {"old", "good"} |-> IF k = "old" THEN <<1>> ELSE <<>>]
MCJwts ==
  {t \in [alg : {"HS256", "EdDSA", "none"}, key : {"s", "p"}, exp : {<<>>, <<2>>}, nbf : {<<>>, <<2>>},
          iss : {"i", "j"}, aud : {{}, {"a", "b"}}] :
     t.iss = "j" \/ t.aud = {} => t.alg = "HS256" /\ t.exp = <<>> /\ t.nbf = <<>>}
MCAuthConfig ==
  [secret |-> <<"s">>, publicKey |-> <<[alg |-> "EdDSA", key |-> "p"]>>, issuer |-> <<"i">>, audience |-> <<"a">>]
\* In memory, where the attempts of one source are counted by one clock.
Auth == INSTANCE Authentication WITH
  Keys <- ApiKeys, Config <- AuthConfig, MaxTime <- AuthTime,
  MaxTokens <- AttemptTokens, Interval <- AttemptInterval, RateNum <- AttemptNum, RateDen <- AttemptDen,
  Skews <- {0}, Expires <- FALSE, bucket <- source, idle <- sourceIdle, last <- sourceLast

Dashboard == INSTANCE DashboardServer WITH
  MaxTime <- DashboardTime, clock <- minute, status <- reply

MCBundles == {<<<<"a">>, <<"d", "a">>>>, <<<<"d", "a">>, <<"..", "b">>>>, <<>>}
MCSuspects == {<<"a">>}
MCUris == {<<"bundle", "a">>, <<"bundle", "d", "a">>, <<"other", "a">>, <<"bundle", "..", "b">>}
Knowledge == INSTANCE ProfileServer

ASSUME MCAssumption ==
  /\ Analysis!RulesAssumption /\ Policies!CardsAssumption
  /\ Limit!RateAssumption /\ Limit!ExpiryAssumption
  /\ Auth!RateAssumption /\ Auth!AuthAssumption
  /\ Dashboard!WindowAssumption /\ Knowledge!ProfileAssumption

MCConfig == [c \in {"main", "auth", "insecure", "test", "forged", "scan", "key", "failClosed"} |-> FALSE]

-----------------------------------------------------------------------------
(* Personal data *)

MCSpans ==
  {m \in [type : {"t", "u"}, start : 0 .. 3, end : 1 .. 4] :
     m.start < m.end /\ (m.type = "u" => m.start \in {0, 2})}
Personal == INSTANCE PersonalData WITH
  Size <- 4, Types <- {"t", "u"}, Spans <- MCSpans, Width <- 2, Modes <- {"redact"},
  Classes <- {"email", "ssn"}, Values <- {"v1", "v2"}, Secrets <- {"s1", "s2"}, MaxWords <- 2,
  MaxOps <- 4

-----------------------------------------------------------------------------
rulesVars == <<rules, hour>>
cardVars == <<card, remote, log, open>>
limitVars == <<bucket, idle, last>>
authVars == <<source, sourceIdle, sourceLast, now, asked, failures, since>>
redactionVars == <<found, options, composite, result>>
vaultVars == <<secret, entries, text, origin, ops, lastOp>>
dashboardVars == <<minute, windows, profile, automation, passed, forwarded, reply>>
profileVars == <<ir, connections, transports, server, reading, called>>
frontVars == <<config, running, concepts, session, answer>>
mcVars == <<part, rulesVars, cardVars, limitVars, authVars, redactionVars, vaultVars,
            dashboardVars, profileVars, frontVars>>

\* A part that does not act stands in one of its initial states; a composite that does
\* not spare anything, or the first detector alone.
MCInit ==
  /\ part \in {"rules", "cards", "limit", "auth", "redaction", "vault", "dashboard", "profile", "front"}
  /\ part # "rules" => hour = TRUE
  /\ Analysis!Init
  /\ part # "cards" => card = (CHOOSE c \in Cards : TRUE) /\ remote = FALSE
  /\ Policies!Init /\ Limit!Init /\ Auth!AuthInit
  /\ part # "redaction" => found = <<<<>>, <<>>>> /\ composite = TRUE
  /\ options \in [mode : {"redact"}, allowed : {{}, {"t"}}, blocked : {{}}, fail : {FALSE}]
  /\ part # "redaction" => options.allowed = {}
  /\ Personal!RedactionInit
  /\ part # "vault" => secret = "s1" /\ text = <<>>
  /\ Personal!VaultInit
  /\ Dashboard!Init /\ Knowledge!SessionInit
  /\ part # "front" => config = MCConfig
  /\ Knowledge!RequestInit

MCNext ==
  \/ /\ part = "rules" /\ Analysis!AddRule
     /\ UNCHANGED <<part, cardVars, limitVars, authVars, redactionVars,
                    vaultVars, dashboardVars, profileVars, frontVars>>
  \/ /\ part = "cards" /\ Policies!Next
     /\ UNCHANGED <<part, rulesVars, limitVars, authVars, redactionVars,
                    vaultVars, dashboardVars, profileVars, frontVars>>
  \/ /\ part = "limit" /\ Limit!Next
     /\ UNCHANGED <<part, rulesVars, cardVars, authVars, redactionVars,
                    vaultVars, dashboardVars, profileVars, frontVars>>
  \/ /\ part = "auth" /\ Auth!AuthNext
     /\ UNCHANGED <<part, rulesVars, cardVars, limitVars, redactionVars,
                    vaultVars, dashboardVars, profileVars, frontVars>>
  \/ /\ part = "redaction" /\ Personal!RedactConcept
     /\ UNCHANGED <<part, rulesVars, cardVars, limitVars, authVars,
                    vaultVars, dashboardVars, profileVars, frontVars>>
  \/ /\ part = "vault" /\ Personal!VaultNext
     /\ UNCHANGED <<part, rulesVars, cardVars, limitVars, authVars,
                    redactionVars, dashboardVars, profileVars, frontVars>>
  \/ /\ part = "dashboard" /\ Dashboard!Next
     /\ UNCHANGED <<part, rulesVars, cardVars, limitVars, authVars,
                    redactionVars, vaultVars, profileVars, frontVars>>
  \/ /\ part = "profile" /\ Knowledge!SessionNext
     /\ UNCHANGED <<part, rulesVars, cardVars, limitVars, authVars,
                    redactionVars, vaultVars, dashboardVars, frontVars>>
  \/ /\ part = "front" /\ Knowledge!RequestNext
     /\ UNCHANGED <<part, rulesVars, cardVars, limitVars, authVars,
                    redactionVars, vaultVars, dashboardVars, profileVars>>

\* Time passes, and a client of the limiter asks again.
LimitRuns(A) ==
  /\ part = "limit" /\ A
  /\ UNCHANGED <<part, rulesVars, cardVars, authVars, redactionVars, vaultVars,
                 dashboardVars, profileVars, frontVars>>
MCSpec == MCInit /\ [][MCNext]_mcVars
MCFairSpec == MCSpec /\ WF_mcVars(LimitRuns(Limit!Tick)) /\ WF_mcVars(LimitRuns(Limit!Consume(0, FALSE)))

-----------------------------------------------------------------------------
(* Properties *)

\* What the linter, the hash and the verifier say of a set of rules is true of the
\* decisions of the engine: shadowed rules do not decide, contradictions are real, equal
\* hashes decide alike, and what is verified safe or equivalent is.
AnalysisIsRight ==
  part = "rules" =>
    /\ Analysis!TypeOK /\ Analysis!ShadowedNeverDecides /\ Analysis!VerifiedIsSafe
    /\ Analysis!EquivalentDecideAlike /\ Analysis!HashDeterminesDecision /\ Analysis!ContradictionIsReal

\* What the verifier calls verified lets no request pass that breaks a safety invariant.
VerifiedNeverBreached ==
  part = "rules" /\ Analysis!Verified(rules, hour) =>
    \A q \in RuleRequests : ~Analysis!Violates(q, R!EvaluatePolicies(rules, q, hour))

\* A card is enforced as it is written, through the rules it becomes, together with the
\* organisation's provider, and a replay tells a relaxation from a tightening.
CardsAreEnforced ==
  part = "cards" =>
    /\ Policies!TypeOK /\ Policies!EnforcedAsWritten /\ Policies!OrganisationIsAsked
    /\ Policies!ReplayJudgesRight

\* Token buckets let no more pass than the ideal bucket of their rate (the refinement of
\* IdealBucket), and say no more than they hold.
LimitsRate == Limit!LimitsRate /\ [](part = "limit" => Limit!TypeOK /\ Limit!RemainingIsThere)

\* Whoever keeps asking is let pass again and again.
AskerIsServed == Limit!AskerIsServed

\* Who gets in was entitled to when he came, and failures are counted since the last
\* success; what the dashboard hands on was checked and within its windows; and what a
\* session of the profile server reads is one version of the knowledge and is only read,
\* by those that the server is open to, and is what they asked for.
EntryIsEntitled ==
  /\ Auth!LetInWasEntitled
  /\ [](part = "auth" => Auth!TypeOK /\ Auth!FailuresAreCounted)
  /\ [](part = "dashboard" => Dashboard!WindowsBound /\ Dashboard!ForwardedWasChecked)
  /\ [](part = "profile" => Knowledge!ReadIsWhole /\ Knowledge!SessionsAreOpen
                             /\ Knowledge!OnlyReadingsAreDone)
  /\ [](part = "front" => Knowledge!NothingWithoutBearer /\ Knowledge!GivenIsAsked /\ Knowledge!OutageIsNoPass)

\* What was found is gone from the text, a token stands for one value, and a value that
\* was hidden comes back only by its vault.
PersonalDataIsKept ==
  /\ Personal!HiddenStaysHidden
  /\ [](part = "redaction" => Personal!FoundIsGone)
  /\ [](part = "vault" => Personal!TypeOK /\ Personal!NothingIsMistaken)
=================================================================================
