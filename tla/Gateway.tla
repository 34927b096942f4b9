------------------------------- MODULE Gateway ----------------------------------
(***************************************************************************)
(* MCPGateway.execute (core/src/capabilities/gateway.ts) with an auth      *)
(* config, a rate limiter, a prompt firewall, an approval store, an audit  *)
(* log and enforceBudgetLimit: calls of several agents in flight at once,  *)
(* in one process, one usage record an agent.                              *)
(*                                                                         *)
(* The code between two awaits runs without interruption and is one        *)
(* action.  What is awaited answers late, fails, or answers either way:    *)
(* the limiter, the firewall, the store, the audit log, the tool.  Humans  *)
(* grant, revoke and let tokens expire meanwhile.  The awaits between the  *)
(* tool's answer and the recording of its usage (output sanitisation) read *)
(* no shared state and are part of the tool's own delay.                   *)
(***************************************************************************)
EXTENDS Naturals, FiniteSets

(***************************************************************************)
(* CostTracker (core/src/capabilities/cost-tracker.ts): the tokens each    *)
(* agent has used, in the memory of one gateway.  The methods are          *)
(* synchronous; the gateway uses them as parts of its own steps.           *)
(***************************************************************************)

CONSTANTS
  Agents,
  MaxBudget,     \* bound: the largest budget an administrator sets
  InitialBudget  \* agentBudgets, completed by defaultBudget

ASSUME BudgetsAssumption ==
  /\ MaxBudget \in Nat
  /\ InitialBudget \in [Agents -> 0 .. MaxBudget]

VARIABLES
  usage,     \* usage[a]: cumulativeTokens
  exceeded,  \* exceeded[a]: the flag budgetExceeded of the usage record
  budgets    \* budgets[a]: getBudget

trackerVars == <<usage, exceeded, budgets>>

TrackerTypeOK ==
  /\ usage \in [Agents -> Nat]
  /\ exceeded \in [Agents -> BOOLEAN]
  /\ budgets \in [Agents -> 0 .. MaxBudget]

TrackerInit ==
  /\ usage = [a \in Agents |-> 0]
  /\ exceeded = [a \in Agents |-> FALSE]
  /\ budgets = InitialBudget

RecordUsage(a, tokens) ==
  /\ usage' = [usage EXCEPT ![a] = @ + tokens]
  /\ exceeded' = [exceeded EXCEPT ![a] = usage[a] + tokens > budgets[a]]
  /\ UNCHANGED budgets

\* The flag stays what the last recordUsage made it.
SetBudget(a, max) ==
  /\ budgets' = [budgets EXCEPT ![a] = max]
  /\ UNCHANGED <<usage, exceeded>>

Reset(a) ==
  /\ usage' = [usage EXCEPT ![a] = 0]
  /\ exceeded' = [exceeded EXCEPT ![a] = FALSE]
  /\ UNCHANGED budgets

IsBudgetExceeded(a) == exceeded[a]

-----------------------------------------------------------------------------
CONSTANTS
  Slots,      \* calls in flight at once
  Calls,      \* what is called: tool and payload
  Tokens,     \* approval tokens that may ever be drawn
  NoToken,
  Forbidden,  \* the pairs of agent and call that the policies deny
  Gated,      \* those they allow with the obligation require_approval
  MaxCost     \* bound: estimateTokens of a call and its result is 1 .. MaxCost

ASSUME GatewayAssumption ==
  /\ IsFiniteSet(Slots)
  /\ NoToken \notin Tokens
  /\ Forbidden \subseteq Agents \X Calls
  /\ Gated \subseteq Agents \X Calls
  /\ MaxCost \in Nat \ {0}

VARIABLES
  job,    \* job[s]: the call in slot s, answered or in flight
  grant,  \* grant[t]: the approval store's record of t
  runs    \* runs[t]: how often the tool ran on the strength of token t

vars == <<trackerVars, job, grant, runs>>

(***************************************************************************)
(* A job says what it awaits (or how it was answered), who calls what with *)
(* which token, whether the tool was called, the decisions in the audit    *)
(* log, and for a pending audit event its decision and what comes after.   *)
(***************************************************************************)

Refusals ==
  {"RATE_LIMITED", "UNAUTHORIZED", "INSUFFICIENT_SCOPE", "DELEGATION_VIOLATION",
   "BUDGET_EXCEEDED", "WAF_VIOLATION", "UNAUTHORIZED_AGENT", "APPROVAL_REQUIRED"}

\* Answers that do not tell by themselves whether the tool ran.
Failures ==
  {"POLICY_VIOLATION", "EXECUTION_ERROR", "AUDIT_ERROR", "STORE_ERROR", "PARTY_ERROR"}

Answers == {"ok"} \cup Refusals \cup Failures

Stages == {"limiter", "waf", "auditing", "requesting", "validating", "tool"}

Decisions == {"deny", "error", "require_approval", "expired", "consumed", "allow"}

NoJob ==
  [at |-> "free", agent |-> NoToken, call |-> NoToken, token |-> NoToken,
   ran |-> FALSE, trail |-> {}, event |-> <<>>]

NoGrant == [phase |-> "none", call |-> NoToken]

Free(s) == job[s].at \in Answers \cup {"free"}

At(s, stage) == job[s].at = stage

Who(s) == <<job[s].agent, job[s].call>>

MoveTo(s, stage) == job' = [job EXCEPT ![s].at = stage]

\* await auditLogService.logEvent
Audit(s, decision, next) ==
  job' = [job EXCEPT ![s].at = "auditing", ![s].event = <<decision, next>>]

\* executor(...) is called: from here the tool may have its effect.
CallTool(s, j) ==
  /\ job' = [job EXCEPT ![s] = [j EXCEPT !.at = "tool", !.ran = TRUE]]
  /\ runs' = IF Who(s) \in Gated THEN [runs EXCEPT ![j.token] = @ + 1] ELSE runs

Init ==
  /\ TrackerInit
  /\ job = [s \in Slots |-> NoJob]
  /\ grant = [t \in Tokens |-> NoGrant]
  /\ runs = [t \in Tokens |-> 0]

-----------------------------------------------------------------------------
(* execute, from await to await *)

\* A call arrives.  The token in its payload, one that a client can have, is
\* looked at only if the call is gated.
Arrive(s) ==
  /\ Free(s)
  /\ \E a \in Agents, c \in Calls,
        t \in {NoToken} \cup {u \in Tokens : grant[u].phase # "none"} :
       /\ <<a, c>> \notin Gated => t = NoToken
       /\ job' = [job EXCEPT ![s] =
                   [NoJob EXCEPT !.at = "limiter", !.agent = a, !.call = c, !.token = t]]
  /\ UNCHANGED <<trackerVars, grant, runs>>

\* The limiter answers; the authentication, the scopes, the delegation token
\* and the budget are looked at in that order.
RateLimited(s) == Audit(s, "deny", "RATE_LIMITED")

NotAdmitted(s) ==
  \/ Audit(s, "deny", "UNAUTHORIZED")
  \/ MoveTo(s, "INSUFFICIENT_SCOPE")
  \/ Audit(s, "deny", "DELEGATION_VIOLATION")

\* A mistaken budget check that reports but lets the call pass.
BudgetSoft(s) == MoveTo(s, "waf")

BudgetCheck(s) ==
  IF IsBudgetExceeded(job[s].agent) THEN Audit(s, "deny", "BUDGET_EXCEEDED")
  ELSE MoveTo(s, "waf")

Admit(s) ==
  /\ At(s, "limiter")
  /\ RateLimited(s) \/ NotAdmitted(s) \/ BudgetCheck(s)
  /\ UNCHANGED <<trackerVars, grant, runs>>

\* The firewall flags the payload.
Flagged(s) ==
  /\ At(s, "waf")
  /\ Audit(s, "deny", "WAF_VIOLATION")
  /\ UNCHANGED <<trackerVars, grant, runs>>

\* The firewall lets it pass, but there is no policy for the agent.
NoPolicy(s) ==
  /\ At(s, "waf")
  /\ Audit(s, "error", "UNAUTHORIZED_AGENT")
  /\ UNCHANGED <<trackerVars, grant, runs>>

\* The limiter, the firewall or the policy provider throws: so does the call.
PartyFails(s) ==
  /\ At(s, "limiter") \/ At(s, "waf")
  /\ MoveTo(s, "PARTY_ERROR")
  /\ UNCHANGED <<trackerVars, grant, runs>>

\* There is one: the policies decide.
Decide(s) ==
  /\ At(s, "waf")
  /\ UNCHANGED <<trackerVars, grant>>
  /\ IF Who(s) \in Forbidden
     THEN Audit(s, "deny", "POLICY_VIOLATION") /\ UNCHANGED runs
     ELSE IF Who(s) \notin Gated THEN CallTool(s, job[s])
     ELSE IF job[s].token = NoToken
     THEN Audit(s, "require_approval", "requesting") /\ UNCHANGED runs
     ELSE MoveTo(s, "validating") /\ UNCHANGED runs

\* generateToken: the token is bound to the tool and the payload.
RequestApproval(s) ==
  /\ At(s, "requesting")
  /\ \E t \in Tokens :
       /\ grant[t].phase = "none"
       /\ grant' = [grant EXCEPT ![t] = [phase |-> "waiting", call |-> job[s].call]]
  /\ MoveTo(s, "APPROVAL_REQUIRED")
  /\ UNCHANGED <<trackerVars, runs>>

Honoured(s) ==
  LET g == grant[job[s].token] IN g.phase = "granted" /\ g.call = job[s].call

Spend(s) == grant' = [grant EXCEPT ![job[s].token].phase = "spent"]

\* A mistaken Validate: the answer is a promise that nobody awaits.
ValidateUnawaited(s) ==
  /\ At(s, "validating")
  /\ IF Honoured(s) THEN Spend(s) ELSE UNCHANGED grant
  /\ Audit(s, "consumed", "tool")
  /\ UNCHANGED <<trackerVars, runs>>

\* validateAndConsume
Validate(s) ==
  /\ At(s, "validating")
  /\ IF Honoured(s) THEN Spend(s) /\ Audit(s, "consumed", "tool")
     ELSE UNCHANGED grant /\ Audit(s, "expired", "POLICY_VIOLATION")
  /\ UNCHANGED <<trackerVars, runs>>

\* A mistaken StoreFails: the call is tried again from the policies on.
StoreFailsRetries(s) ==
  /\ At(s, "requesting") \/ At(s, "validating")
  /\ MoveTo(s, "waf")
  /\ UNCHANGED <<trackerVars, grant, runs>>

\* The store fails, before it changed anything or after.
StoreFails(s) ==
  /\ At(s, "requesting") \/ At(s, "validating")
  /\ \/ UNCHANGED grant
     \/ At(s, "validating") /\ Honoured(s) /\ Spend(s)
  /\ MoveTo(s, "STORE_ERROR")
  /\ UNCHANGED <<trackerVars, runs>>

AuditWritten(s) ==
  /\ At(s, "auditing")
  /\ LET j == [job[s] EXCEPT !.trail = @ \cup {job[s].event[1]}, !.event = <<>>]
         next == job[s].event[2]
     IN IF next = "tool" THEN CallTool(s, j)
        ELSE job' = [job EXCEPT ![s] = [j EXCEPT !.at = next]] /\ UNCHANGED runs
  /\ UNCHANGED <<trackerVars, grant>>

\* logEvent throws; the event after the tool is written inside the try block.
AuditFails(s) ==
  /\ At(s, "auditing")
  /\ job' = [job EXCEPT
       ![s].at = IF job[s].event[1] = "allow" THEN "EXECUTION_ERROR" ELSE "AUDIT_ERROR",
       ![s].event = <<>>]
  /\ UNCHANGED <<trackerVars, grant, runs>>

\* The tool fails; nothing more is recorded.
ToolFails(s) ==
  /\ At(s, "tool")
  /\ MoveTo(s, "EXECUTION_ERROR")
  /\ UNCHANGED <<trackerVars, grant, runs>>

\* The result holds PII that the policy denies; nothing more is recorded.
OutputDenied(s) ==
  /\ At(s, "tool")
  /\ MoveTo(s, "POLICY_VIOLATION")
  /\ UNCHANGED <<trackerVars, grant, runs>>

\* A mistaken ToolReturns: the budget is checked once more, too late.
ToolReturnsRechecks(s) ==
  /\ At(s, "tool")
  /\ \E n \in 1 .. MaxCost : RecordUsage(job[s].agent, n)
  /\ IF exceeded'[job[s].agent] THEN Audit(s, "deny", "BUDGET_EXCEEDED")
     ELSE Audit(s, "allow", "ok")
  /\ UNCHANGED <<grant, runs>>

ToolReturns(s) ==
  /\ At(s, "tool")
  /\ \E n \in 1 .. MaxCost : RecordUsage(job[s].agent, n)
  /\ Audit(s, "allow", "ok")
  /\ UNCHANGED <<grant, runs>>

-----------------------------------------------------------------------------
(* The humans: approveToken; revokeToken or expiry; setBudget and reset *)

Grant(t) ==
  /\ grant[t].phase = "waiting"
  /\ grant' = [grant EXCEPT ![t].phase = "granted"]
  /\ UNCHANGED <<trackerVars, job, runs>>

Close(t) ==
  /\ grant[t].phase \in {"waiting", "granted"}
  /\ grant' = [grant EXCEPT ![t].phase = "closed"]
  /\ UNCHANGED <<trackerVars, job, runs>>

Administer ==
  /\ \E a \in Agents : Reset(a) \/ \E max \in 0 .. MaxBudget : SetBudget(a, max)
  /\ UNCHANGED <<job, grant, runs>>

Continue(s) ==
  \/ Admit(s) \/ Flagged(s) \/ NoPolicy(s) \/ PartyFails(s) \/ Decide(s)
  \/ RequestApproval(s) \/ Validate(s) \/ StoreFails(s) \/ AuditWritten(s) \/ AuditFails(s)
  \/ ToolFails(s) \/ OutputDenied(s) \/ ToolReturns(s)

Next ==
  \/ \E s \in Slots : Arrive(s) \/ Continue(s)
  \/ \E t \in Tokens : Grant(t) \/ Close(t)
  \/ Administer

Spec == Init /\ [][Next]_vars

\* What a call awaits answers, or fails, some day.
FairSpec == Spec /\ \A s \in Slots : WF_vars(Continue(s))

(***************************************************************************)
(* Properties                                                              *)
(***************************************************************************)

Jobs ==
  [at : {"free"} \cup Answers \cup Stages, agent : Agents \cup {NoToken},
   call : Calls \cup {NoToken}, token : Tokens \cup {NoToken}, ran : BOOLEAN,
   trail : SUBSET Decisions,
   event : {<<>>} \cup (Decisions \X (Answers \cup {"requesting", "tool"}))]

TypeOK ==
  /\ TrackerTypeOK
  /\ job \in [Slots -> Jobs]
  /\ grant \in [Tokens -> [phase : {"none", "waiting", "granted", "spent", "closed"},
                           call : Calls \cup {NoToken}]]
  /\ runs \in [Tokens -> Nat]
  /\ \A s \in Slots : ~Free(s) => job[s].agent \in Agents /\ job[s].call \in Calls
  /\ \A s \in Slots : At(s, "auditing") <=> job[s].event # <<>>

\* Slots whose consumed token has not been followed by the call of the tool.
Owing(t) ==
  {s \in Slots : /\ job[s].token = t
                 /\ At(s, "auditing")
                 /\ job[s].event = <<"consumed", "tool">>}

\* A gated tool runs at most once for each human grant, for the call that the
\* human saw, however many calls present the token at once and whatever fails
\* between the consumption and the run.
OneRunPerGrant ==
  /\ \A t \in Tokens :
       runs[t] + Cardinality(Owing(t)) <= IF grant[t].phase = "spent" THEN 1 ELSE 0
  /\ \A s \in Slots : (job[s].ran /\ Who(s) \in Gated) =>
       /\ job[s].token \in Tokens
       /\ grant[job[s].token].call = job[s].call
       /\ runs[job[s].token] = 1

\* The consumption of a grant is in the audit log before the tool runs, and a
\* call answered ok or refused by name left its decision there.
AuditedBeforeEffect ==
  \A s \in Slots :
    /\ (job[s].ran /\ Who(s) \in Gated) => "consumed" \in job[s].trail
    /\ At(s, "ok") => "allow" \in job[s].trail
    /\ job[s].at \in Refusals \ {"INSUFFICIENT_SCOPE"} => job[s].trail # {}

\* Effects follow from grants: at most one run of each, for the call that was granted,
\* and told to the audit log before (422-474).
EffectsAreGranted == TypeOK /\ OneRunPerGrant /\ AuditedBeforeEffect

\* A refusal means that the tool was not called, ok that it was.
AnswerTellsEffect ==
  \A s \in Slots :
    /\ job[s].at \in Refusals => ~job[s].ran
    /\ At(s, "ok") => job[s].ran

\* Calls of a that passed the budget check and may still be charged.
Chargeable(a) ==
  {s \in Slots : /\ job[s].agent = a
                 /\ \/ job[s].at \in {"waf", "validating", "tool"}
                    \/ At(s, "auditing") /\ job[s].event[2] = "tool"}

\* The circuit breaker (212-236) is checked long before the usage is recorded
\* (513), so calls in flight together all pass it; an agent overruns its budget
\* by no more than one call a slot.
OverrunBounded ==
  \A a \in Agents :
    usage[a] + MaxCost * Cardinality(Chargeable(a))
      <= MaxBudget + MaxCost * Cardinality(Slots)

\* Every call that is taken up is answered.
EveryCallAnswered == \A s \in Slots : ~Free(s) ~> Free(s)

=================================================================================
