----------------------------- MODULE GatewayProofs -----------------------------
(* What the gateway keeps of grants, audit log and budgets, for any number of *)
(* calls in flight, agents, tokens and policies.                              *)
EXTENDS Gateway, FiniteSetTheorems, TLAPS

\* The pending audit events: the decision and what comes after it.
Denials == {"RATE_LIMITED", "UNAUTHORIZED", "DELEGATION_VIOLATION", "BUDGET_EXCEEDED",
            "WAF_VIOLATION", "POLICY_VIOLATION"}
Events == ({"deny"} \X Denials)
            \cup {<<"require_approval", "requesting">>, <<"consumed", "tool">>,
                  <<"expired", "POLICY_VIOLATION">>, <<"allow", "ok">>,
                  <<"error", "UNAUTHORIZED_AGENT">>}

Pending(j, event) == j.at = "auditing" /\ j.event = event

\* Where a call is when its tool has been called, and where when it has not.
After(j) == j.at \in {"tool", "ok"} \/ Pending(j, <<"allow", "ok">>)
Before(j) ==
  \/ j.at \in {"free", "limiter", "waf", "requesting", "validating", "AUDIT_ERROR",
              "STORE_ERROR", "PARTY_ERROR"}
  \/ j.at \in Refusals
  \/ j.at = "auditing" /\ j.event # <<"allow", "ok">>

\* What the code has done for a call by the time it is where it is.
Told(j) ==
  /\ j.at = "auditing" => j.event \in Events
  /\ After(j) => j.ran
  /\ Before(j) => ~j.ran
  /\ j.at = "ok" => "allow" \in j.trail
  /\ j.at = "requesting" => j.trail # {}
  /\ j.at \in Refusals \ {"INSUFFICIENT_SCOPE"} => j.trail # {}

\* A call that needs a grant has presented a token by the time it is validated, and
\* its consumption is logged by the time the tool is called.
Presented(j) ==
  /\ j.token # NoToken => <<j.agent, j.call>> \in Gated
  /\ j.at = "validating" \/ Pending(j, <<"consumed", "tool">>) =>
       j.token \in Tokens /\ <<j.agent, j.call>> \in Gated
  /\ j.ran /\ <<j.agent, j.call>> \in Gated => j.token \in Tokens /\ "consumed" \in j.trail

\* What is run, or about to be, on the strength of a token is what was granted.
Granted(j) ==
  /\ Pending(j, <<"consumed", "tool">>) => grant[j.token].call = j.call
  /\ j.ran /\ <<j.agent, j.call>> \in Gated =>
       grant[j.token].phase = "spent" /\ grant[j.token].call = j.call /\ runs[j.token] = 1

\* A spent token is owed to one call at most, or paid.
Paid(t) ==
  /\ grant[t].phase # "spent" => runs[t] = 0 /\ Owing(t) = {}
  /\ runs[t] = 0 \/ (runs[t] = 1 /\ Owing(t) = {})
  /\ \A r, s \in Owing(t) : r = s

GInv ==
  /\ \A s \in Slots : Told(job[s]) /\ Presented(job[s]) /\ Granted(job[s])
  /\ \A t \in Tokens : Paid(t)

\* Whoever may still pass the budget check is within the largest budget.
BInv ==
  \A a \in Agents :
    /\ ~exceeded[a] => usage[a] <= MaxBudget
    /\ usage[a] + MaxCost * Cardinality(Chargeable(a)) <= MaxBudget + MaxCost * Cardinality(Slots)

IInv == TypeOK /\ GInv /\ BInv

-----------------------------------------------------------------------------
(* Types *)

LEMMA InitIInv == Init => IInv
<1> SUFFICES ASSUME Init PROVE IInv
  OBVIOUS
<1> USE BudgetsAssumption, GatewayAssumption
<1>1. job = [s \in Slots |-> NoJob] /\ grant = [t \in Tokens |-> NoGrant] /\ runs = [t \in Tokens |-> 0]
  BY DEF Init
<1>2. TypeOK
  BY <1>1 DEF Init, TrackerInit, TypeOK, TrackerTypeOK, NoJob, NoGrant, Jobs, Free, At
<1>3. \A t \in Tokens : Owing(t) = {}
  BY <1>1 DEF Owing, At, NoJob
<1>4. GInv
  BY <1>1, <1>3 DEF GInv, Told, Presented, Granted, Paid, Pending, After, Before, NoJob, NoGrant, Refusals
<1>5. BInv
  <2> SUFFICES ASSUME NEW a \in Agents
               PROVE  /\ ~exceeded[a] => usage[a] <= MaxBudget
                      /\ usage[a] + MaxCost * Cardinality(Chargeable(a))
                           <= MaxBudget + MaxCost * Cardinality(Slots)
    BY DEF BInv
  <2>1. usage[a] = 0
    BY DEF Init, TrackerInit
  <2>2. Chargeable(a) = {}
    BY <1>1 DEF Chargeable, At, NoJob
  <2>3. Cardinality(Chargeable(a)) = 0 /\ Cardinality(Slots) \in Nat
    BY <2>2, FS_EmptySet, FS_CardinalityType
  <2>4. MaxCost * Cardinality(Slots) \in Nat
    BY <2>3
  <2> QED BY <2>1, <2>3, <2>4
<1> QED BY <1>2, <1>4, <1>5 DEF IInv

\* The fields of a call that is in flight.
LEMMA JobFields ==
  ASSUME TypeOK, NEW s \in Slots
  PROVE  /\ job[s].at \in {"free"} \cup Answers \cup Stages
         /\ job[s].agent \in Agents \cup {NoToken} /\ job[s].call \in Calls \cup {NoToken}
         /\ job[s].token \in Tokens \cup {NoToken} /\ job[s].ran \in BOOLEAN
         /\ job[s].trail \in SUBSET Decisions
         /\ job[s].event \in {<<>>} \cup (Decisions \X (Answers \cup {"requesting", "tool"}))
         /\ ~Free(s) => job[s].agent \in Agents /\ job[s].call \in Calls
  BY DEF TypeOK, Jobs

\* A call that moves on stays one.
Active(j) == j.at \notin Answers \cup {"free"}
WellFormed(j) ==
  /\ j \in Jobs
  /\ Active(j) => j.agent \in Agents /\ j.call \in Calls
  /\ j.at = "auditing" <=> j.event # <<>>

LEMMA JobMoves ==
  ASSUME TypeOK, NEW s \in Slots, NEW j, WellFormed(j), job' = [job EXCEPT ![s] = j]
  PROVE  /\ job' \in [Slots -> Jobs]
         /\ \A r \in Slots : ~Free(r)' => job'[r].agent \in Agents /\ job'[r].call \in Calls
         /\ \A r \in Slots : At(r, "auditing")' <=> job'[r].event # <<>>
BY DEF TypeOK, WellFormed, Active, Free, At

LEMMA JobsWellFormed == ASSUME TypeOK, NEW s \in Slots PROVE WellFormed(job[s])
BY DEF TypeOK, WellFormed, Active, Free, At

LEMMA NewJob ==
  ASSUME NEW a \in Agents, NEW c \in Calls, NEW t \in Tokens \cup {NoToken}
  PROVE  WellFormed([NoJob EXCEPT !.at = "limiter", !.agent = a, !.call = c, !.token = t])
BY DEF WellFormed, Active, NoJob, Jobs, Stages, Answers, Refusals, Failures

LEMMA MovedJob ==
  ASSUME TypeOK, NEW s \in Slots, ~Free(s), job[s].event = <<>>,
         NEW at \in Answers \cup (Stages \ {"auditing"})
  PROVE  WellFormed([job[s] EXCEPT !.at = at])
BY JobsWellFormed DEF WellFormed, Active, Jobs, Stages, Answers, Refusals, Failures, Free

LEMMA AuditingJob ==
  ASSUME TypeOK, NEW s \in Slots, ~Free(s),
         NEW d \in Decisions, NEW next \in Answers \cup {"requesting", "tool"}
  PROVE  WellFormed([job[s] EXCEPT !.at = "auditing", !.event = <<d, next>>])
<1>1. <<d, next>> # <<>>
  OBVIOUS
<1>2. job[s] \in Jobs /\ job[s].agent \in Agents /\ job[s].call \in Calls
  BY JobsWellFormed DEF WellFormed, Active, Free
<1>3. <<d, next>> \in Decisions \X (Answers \cup {"requesting", "tool"})
  OBVIOUS
<1> DEFINE j == [job[s] EXCEPT !.at = "auditing", !.event = <<d, next>>]
<1>4. j \in Jobs
  BY <1>2, <1>3 DEF Jobs, Stages
<1>5. j.at = "auditing" /\ j.event = <<d, next>> /\ j.agent \in Agents /\ j.call \in Calls
  BY <1>2 DEF Jobs
<1> QED BY <1>1, <1>4, <1>5 DEF WellFormed

LEMMA AuditedJob ==
  ASSUME TypeOK, NEW s \in Slots, At(s, "auditing"), job[s].event \in Events,
         NEW at \in Answers \cup (Stages \ {"auditing"}), NEW ran \in BOOLEAN, NEW log \in SUBSET Decisions
  PROVE  WellFormed([job[s] EXCEPT !.trail = log, !.event = <<>>, !.at = at, !.ran = ran])
<1>1. job[s] \in Jobs /\ job[s].agent \in Agents /\ job[s].call \in Calls
  BY JobsWellFormed DEF WellFormed, Active, At, Answers, Refusals, Failures
<1> DEFINE j == [job[s] EXCEPT !.trail = log, !.event = <<>>, !.at = at, !.ran = ran]
<1>2. j \in Jobs
  BY <1>1 DEF Jobs
<1>3. j.at = at /\ j.event = <<>> /\ j.agent \in Agents /\ j.call \in Calls
  BY <1>1 DEF Jobs
<1> QED BY <1>2, <1>3 DEF WellFormed, Stages, Answers, Refusals, Failures

\* Whatever a slot does, its own call changes into another one and no other does.
Moves(s, j) == WellFormed(j) /\ job' = [job EXCEPT ![s] = j]

LEMMA SlotMoves ==
  ASSUME TypeOK, GInv, NEW s \in Slots, Arrive(s) \/ Continue(s)
  PROVE  \E j : Moves(s, j)
<1> USE GatewayAssumption
<1>1. CASE Arrive(s)
  <2>1. PICK a \in Agents, c \in Calls, t \in {NoToken} \cup {u \in Tokens : grant[u].phase # "none"} :
          job' = [job EXCEPT ![s] = [NoJob EXCEPT !.at = "limiter", !.agent = a, !.call = c, !.token = t]]
    BY <1>1 DEF Arrive
  <2> QED BY <2>1, NewJob DEF Moves
<1> DEFINE Waits == {"limiter", "waf", "requesting", "validating", "tool"}
<1>2. ASSUME job[s].at \in Waits PROVE ~Free(s) /\ job[s].event = <<>> /\ job[s] \in Jobs
  BY <1>2 DEF TypeOK, Free, At, Answers, Refusals, Failures
<1>3. ASSUME job[s].at \in Waits, NEW at, MoveTo(s, at), at \in Answers \cup (Stages \ {"auditing"})
      PROVE  \E j : Moves(s, j)
  <2>1. job' = [job EXCEPT ![s] = [job[s] EXCEPT !.at = at]]
    BY <1>3 DEF MoveTo
  <2> QED BY <1>2, <1>3, <2>1, MovedJob DEF Moves
<1>4. ASSUME job[s].at \in Waits, NEW d \in Decisions, NEW next \in Answers \cup {"requesting", "tool"},
             Audit(s, d, next)
      PROVE  \E j : Moves(s, j)
  <2>1. job' = [job EXCEPT ![s] = [job[s] EXCEPT !.at = "auditing", !.event = <<d, next>>]]
    BY <1>4 DEF Audit
  <2> QED BY <1>2, <1>4, <2>1, AuditingJob DEF Moves
<1>5. CASE Admit(s) \/ Flagged(s) \/ NoPolicy(s) \/ PartyFails(s)
  <2>1. job[s].at \in Waits
    BY <1>5 DEF Admit, Flagged, NoPolicy, PartyFails, At
  <2>2. \/ \E d \in {"deny", "error"}, next \in Answers : Audit(s, d, next)
        \/ \E at \in Answers \cup {"waf"} : MoveTo(s, at)
    BY <1>5 DEF Admit, Flagged, NoPolicy, PartyFails, RateLimited, NotAdmitted, BudgetCheck,
       Answers, Refusals, Failures
  <2> QED BY <2>1, <2>2, <1>3, <1>4 DEF Decisions, Stages
<1>6. CASE Decide(s)
  <2>1. job[s].at \in Waits
    BY <1>6 DEF Decide, At
  <2>2. CASE CallTool(s, job[s])
    <3>1. job' = [job EXCEPT ![s] = [job[s] EXCEPT !.at = "tool", !.ran = TRUE]]
      BY <2>2 DEF CallTool
    <3>2. WellFormed([job[s] EXCEPT !.at = "tool"])
      BY <1>2, <2>1, MovedJob DEF Stages
    <3>3. WellFormed([job[s] EXCEPT !.at = "tool", !.ran = TRUE])
      BY <3>2, <1>2, <2>1 DEF WellFormed, Jobs, Active
    <3> QED BY <3>1, <3>3 DEF Moves
  <2>3. CASE \/ Audit(s, "deny", "POLICY_VIOLATION") \/ Audit(s, "require_approval", "requesting")
             \/ MoveTo(s, "validating")
    BY <2>1, <2>3, <1>3, <1>4 DEF Decisions, Stages, Answers, Failures
  <2> QED BY <1>6, <2>2, <2>3 DEF Decide
<1>7. CASE RequestApproval(s) \/ StoreFails(s) \/ ToolFails(s) \/ OutputDenied(s)
  <2>1. job[s].at \in Waits
    BY <1>7 DEF RequestApproval, StoreFails, ToolFails, OutputDenied, At
  <2>2. \E at \in Answers : MoveTo(s, at)
    BY <1>7 DEF RequestApproval, StoreFails, ToolFails, OutputDenied, Answers, Refusals, Failures
  <2> QED BY <2>1, <2>2, <1>3
<1>8. CASE Validate(s) \/ ToolReturns(s)
  <2>1. job[s].at \in Waits
    BY <1>8 DEF Validate, ToolReturns, At
  <2>2. \/ Audit(s, "consumed", "tool") \/ Audit(s, "expired", "POLICY_VIOLATION") \/ Audit(s, "allow", "ok")
    BY <1>8 DEF Validate, ToolReturns
  <2> QED BY <2>1, <2>2, <1>4 DEF Decisions, Answers, Failures
<1>9. CASE AuditWritten(s) \/ AuditFails(s)
  <2>1. At(s, "auditing") /\ job[s].event \in Events /\ job[s] \in Jobs
    BY <1>9 DEF AuditWritten, AuditFails, GInv, Told, At, TypeOK
  <2>2. job[s].event[1] \in Decisions /\ job[s].event[2] \in Answers \cup {"requesting", "tool"}
    BY <2>1 DEF Events, Denials, Decisions, Answers, Refusals, Failures
  <2>3. job[s].trail \cup {job[s].event[1]} \in SUBSET Decisions /\ job[s].trail \in SUBSET Decisions
        /\ job[s].ran \in BOOLEAN
    BY <2>1, <2>2 DEF Jobs
  <2> DEFINE log == job[s].trail \cup {job[s].event[1]}
             next == job[s].event[2]
  <2>4. CASE AuditWritten(s) /\ next = "tool"
    <3>1. job' = [job EXCEPT ![s] = [job[s] EXCEPT !.trail = log, !.event = <<>>, !.at = "tool", !.ran = TRUE]]
      BY <2>4, <2>1 DEF AuditWritten, CallTool, Jobs
    <3> QED BY <3>1, <2>1, <2>3, AuditedJob DEF Moves, Stages
  <2>5. CASE AuditWritten(s) /\ next # "tool"
    <3>1. job' = [job EXCEPT ![s] = [job[s] EXCEPT !.trail = log, !.event = <<>>, !.at = next, !.ran = job[s].ran]]
      BY <2>5, <2>1 DEF AuditWritten, Jobs
    <3> QED BY <3>1, <2>1, <2>2, <2>3, <2>5, AuditedJob DEF Moves, Stages
  <2>6. CASE AuditFails(s)
    <3>1. \E at \in {"EXECUTION_ERROR", "AUDIT_ERROR"} :
            job' = [job EXCEPT ![s] = [job[s] EXCEPT !.trail = job[s].trail, !.event = <<>>, !.at = at,
                                                     !.ran = job[s].ran]]
      BY <2>6, <2>1 DEF AuditFails, Jobs
    <3> QED BY <3>1, <2>1, <2>3, AuditedJob DEF Moves, Answers, Failures
  <2> QED BY <1>9, <2>4, <2>5, <2>6
<1> QED BY <1>1, <1>5, <1>6, <1>7, <1>8, <1>9 DEF Continue

LEMMA StepTypeOK == TypeOK /\ GInv /\ [Next]_vars => TypeOK'
<1> SUFFICES ASSUME TypeOK, GInv, [Next]_vars PROVE TypeOK'
  OBVIOUS
<1> USE BudgetsAssumption, GatewayAssumption
<1> DEFINE GrantTypes == grant' \in [Tokens -> [phase : {"none", "waiting", "granted", "spent", "closed"},
                                                call : Calls \cup {NoToken}]]
           JobTypes == /\ job' \in [Slots -> Jobs]
                       /\ \A s \in Slots : ~Free(s)' => job'[s].agent \in Agents /\ job'[s].call \in Calls
                       /\ \A s \in Slots : At(s, "auditing")' <=> job'[s].event # <<>>
<1>0. ASSUME job' = job PROVE JobTypes
  BY <1>0 DEF TypeOK, Free, At
<1>1. CASE UNCHANGED vars
  BY <1>0, <1>1 DEF vars, trackerVars, TypeOK, TrackerTypeOK
<1>2. ASSUME NEW s \in Slots, Arrive(s) \/ Continue(s) PROVE TypeOK'
  <2>1. JobTypes
    BY <1>2, SlotMoves, JobMoves DEF Moves
  <2>2. GrantTypes
    <3>1. \/ UNCHANGED grant \/ Spend(s)
          \/ /\ At(s, "requesting")
             /\ \E t \in Tokens : grant' = [grant EXCEPT ![t] = [phase |-> "waiting", call |-> job[s].call]]
      BY <1>2 DEF Arrive, Continue, Admit, Flagged, NoPolicy, PartyFails, Decide,
         RequestApproval, Validate, StoreFails,
         AuditWritten, AuditFails, ToolFails, OutputDenied, ToolReturns
    <3>2. job[s].call \in Calls \cup {NoToken}
      BY JobFields
    <3>3. CASE Spend(s)
      BY <3>3 DEF Spend, TypeOK
    <3>4. ASSUME NEW t \in Tokens, grant' = [grant EXCEPT ![t] = [phase |-> "waiting", call |-> job[s].call]]
          PROVE  GrantTypes
      BY <3>2, <3>4 DEF TypeOK
    <3>5. CASE UNCHANGED grant
      BY <3>5 DEF TypeOK
    <3> QED BY <3>1, <3>3, <3>4, <3>5
  <2>3. runs' \in [Tokens -> Nat]
    <3>1. UNCHANGED runs \/ \E t : runs' = [runs EXCEPT ![t] = @ + 1]
      BY <1>2 DEF Arrive, Continue, Admit, Flagged, NoPolicy, PartyFails, Decide,
         RequestApproval, Validate, StoreFails,
         AuditWritten, AuditFails, ToolFails, OutputDenied, ToolReturns, CallTool
    <3> QED BY <3>1 DEF TypeOK
  <2>4. TrackerTypeOK'
    <3>1. UNCHANGED <<usage, exceeded, budgets>> \/ ToolReturns(s)
      BY <1>2 DEF Arrive, Continue, Admit, Flagged, NoPolicy, PartyFails, Decide, RequestApproval, Validate,
         StoreFails, AuditWritten, AuditFails, ToolFails, OutputDenied, trackerVars
    <3>2. CASE UNCHANGED <<usage, exceeded, budgets>>
      BY <3>2 DEF TypeOK, TrackerTypeOK
    <3>3. CASE ToolReturns(s)
      <4>1. PICK n \in 1 .. MaxCost : RecordUsage(job[s].agent, n)
        BY <3>3 DEF ToolReturns
      <4>2. job[s].agent \in Agents
        BY <3>3 DEF ToolReturns, At, TypeOK, Free, Answers, Refusals, Failures
      <4>3. usage' \in [Agents -> Nat] /\ budgets' \in [Agents -> 0 .. MaxBudget]
        BY <4>1, <4>2 DEF RecordUsage, TypeOK, TrackerTypeOK
      <4>4. (usage[job[s].agent] + n > budgets[job[s].agent]) \in BOOLEAN
        OBVIOUS
      <4>5. exceeded' \in [Agents -> BOOLEAN]
        BY <4>1, <4>4 DEF RecordUsage, TypeOK, TrackerTypeOK
      <4> QED BY <4>3, <4>5 DEF TrackerTypeOK
    <3> QED BY <3>1, <3>2, <3>3
  <2> QED BY <2>1, <2>2, <2>3, <2>4 DEF TypeOK
<1>3. ASSUME NEW t \in Tokens, Grant(t) \/ Close(t) PROVE TypeOK'
  <2>1. JobTypes
    BY <1>0, <1>3 DEF Grant, Close
  <2>2. GrantTypes
    BY <1>3 DEF Grant, Close, TypeOK
  <2> QED BY <1>3, <2>1, <2>2 DEF Grant, Close, TypeOK, TrackerTypeOK, trackerVars
<1>4. CASE Administer
  <2>1. JobTypes
    BY <1>0, <1>4 DEF Administer
  <2>2. TrackerTypeOK'
    <3>1. PICK a \in Agents : Reset(a) \/ \E max \in 0 .. MaxBudget : SetBudget(a, max)
      BY <1>4 DEF Administer
    <3>2. CASE Reset(a)
      BY <3>2 DEF Reset, TypeOK, TrackerTypeOK
    <3>3. ASSUME NEW max \in 0 .. MaxBudget, SetBudget(a, max) PROVE TrackerTypeOK'
      BY <3>3 DEF SetBudget, TypeOK, TrackerTypeOK
    <3> QED BY <3>1, <3>2, <3>3
  <2> QED BY <1>4, <2>1, <2>2 DEF Administer, TypeOK
<1> QED BY <1>1, <1>2, <1>3, <1>4 DEF Next

-----------------------------------------------------------------------------
(* Grants and the audit log *)

Consumed == <<"consumed", "tool">>

Owes(j, t) == j.token = t /\ Pending(j, Consumed)

LEMMA OwingMembers == \A t, s : s \in Owing(t) <=> s \in Slots /\ Owes(job[s], t)
BY DEF Owing, Owes, Pending, Consumed, At

\* A step that pays nothing: no call comes to owe a run, the calls that ran with a
\* grant did so before, and no spent token changes.
RunAgain(j, k) == j.ran /\ j.agent = k.agent /\ j.call = k.call /\ j.token = k.token

Quiet ==
  /\ \A r \in Slots :
       \/ job'[r] = job[r]
       \/ /\ Told(job'[r]) /\ Presented(job'[r])
          /\ ~Pending(job'[r], Consumed)
          /\ job'[r].ran /\ <<job'[r].agent, job'[r].call>> \in Gated => RunAgain(job[r], job'[r])
  /\ \A t \in Tokens : grant'[t] = grant[t] \/ grant[t].phase # "spent"
  /\ UNCHANGED runs

LEMMA QuietStep == ASSUME TypeOK, GInv, Quiet PROVE GInv'
<1> USE GatewayAssumption
<1>1. ASSUME NEW s \in Slots PROVE Told(job'[s]) /\ Presented(job'[s])
  BY <1>1 DEF Quiet, GInv
<1>2. \A t \in Tokens : Owing(t)' \subseteq Owing(t)
  BY DEF Quiet, Owing, At, Pending, Consumed
<1>3. ASSUME NEW s \in Slots PROVE Granted(job[s])'
  <2>1. Granted(job[s]) /\ Presented(job[s])
    BY DEF GInv
  <2>2. ASSUME Pending(job'[s], Consumed) PROVE grant'[job'[s].token].call = job'[s].call
    <3>1. job'[s] = job[s]
      BY <2>2 DEF Quiet
    <3>2. job[s].token \in Tokens /\ s \in Owing(job[s].token)
      BY <2>1, <2>2, <3>1, OwingMembers DEF Presented, Owes, Consumed
    <3>3. grant[job[s].token].phase = "spent"
      BY <3>2 DEF GInv, Paid
    <3> QED BY <2>1, <2>2, <3>1, <3>2, <3>3 DEF Quiet, Granted, Consumed
  <2>3. ASSUME job'[s].ran, <<job'[s].agent, job'[s].call>> \in Gated
        PROVE  /\ grant'[job'[s].token].phase = "spent" /\ grant'[job'[s].token].call = job'[s].call
               /\ runs'[job'[s].token] = 1
    <3>1. RunAgain(job[s], job'[s])
      BY <2>3 DEF Quiet, RunAgain
    <3>2. job[s].token \in Tokens /\ grant[job[s].token].phase = "spent"
          /\ grant[job[s].token].call = job[s].call /\ runs[job[s].token] = 1
      BY <2>1, <2>3, <3>1 DEF RunAgain, Presented, Granted
    <3> QED BY <3>1, <3>2 DEF RunAgain, Quiet
  <2> QED BY <2>2, <2>3 DEF Granted, Consumed
<1>4. ASSUME NEW t \in Tokens PROVE Paid(t)'
  <2>1. Paid(t)
    BY DEF GInv
  <2> QED BY <1>2, <2>1 DEF Paid, Quiet
<1> QED BY <1>1, <1>3, <1>4 DEF GInv

LEMMA ValidateHonoured ==
  ASSUME TypeOK, GInv, NEW s \in Slots, At(s, "validating"), Honoured(s), Spend(s),
         Audit(s, "consumed", "tool"), UNCHANGED runs
  PROVE  GInv'
<1> USE GatewayAssumption
<1>1. PICK u \in Tokens :
        u = job[s].token /\ grant[u].phase = "granted" /\ grant[u].call = job[s].call
  BY DEF GInv, Presented, At, Honoured
<1>2. runs[u] = 0 /\ Owing(u) = {}
  BY <1>1 DEF GInv, Paid
<1>3. /\ job'[s] = [job[s] EXCEPT !.at = "auditing", !.event = Consumed]
      /\ \A r \in Slots \ {s} : job'[r] = job[r]
  BY DEF Audit, TypeOK, Consumed
<1>4. /\ job'[s].at = "auditing" /\ job'[s].event = Consumed /\ job'[s].token = u
      /\ job'[s].call = job[s].call /\ job'[s].agent = job[s].agent /\ ~job'[s].ran
  BY <1>1, <1>3 DEF TypeOK, Jobs, GInv, Told, Before, At
<1>5. /\ grant'[u].phase = "spent" /\ grant'[u].call = grant[u].call
      /\ \A t \in Tokens \ {u} : grant'[t] = grant[t]
  BY <1>1 DEF Spend, TypeOK
<1>6. Told(job'[s]) /\ Presented(job'[s]) /\ Granted(job[s])'
  BY <1>1, <1>4, <1>5 DEF Told, Presented, Granted, After, Before, Pending, Consumed, Events, Refusals,
     GInv, At
<1>7. ASSUME NEW r \in Slots \ {s} PROVE Told(job'[r]) /\ Presented(job'[r]) /\ Granted(job[r])'
  <2>1. Told(job[r]) /\ Presented(job[r]) /\ Granted(job[r]) /\ job'[r] = job[r]
    BY <1>3 DEF GInv
  <2>2. Pending(job[r], Consumed) => job[r].token # u
    BY <1>2, OwingMembers DEF Owes
  <2>3. job[r].ran /\ <<job[r].agent, job[r].call>> \in Gated => job[r].token # u
    BY <1>1, <2>1 DEF Granted
  <2> QED BY <1>5, <2>1, <2>2, <2>3 DEF Granted, Presented, Consumed
<1>8. ASSUME NEW t \in Tokens PROVE Paid(t)'
  <2>1. CASE t = u
    <3>1. Owing(u)' \subseteq {s}
      BY <1>2, <1>3 DEF Owing, At
    <3> QED BY <1>2, <1>5, <2>1, <3>1 DEF Paid
  <2>2. CASE t # u
    <3>1. Owing(t)' = Owing(t)
      BY <1>3, <1>4, <2>2 DEF Owing, At
    <3> QED BY <1>5, <2>2, <3>1 DEF Paid, GInv
  <2> QED BY <2>1, <2>2
<1> QED BY <1>6, <1>7, <1>8 DEF GInv

LEMMA RunPaid ==
  ASSUME TypeOK, GInv, NEW s \in Slots, AuditWritten(s), job[s].event[2] = "tool"
  PROVE  GInv'
<1> USE GatewayAssumption
<1>1. job[s].event = Consumed /\ At(s, "auditing")
  BY DEF AuditWritten, At, GInv, Told, Events, Denials, Consumed
<1>2. PICK u \in Tokens : /\ u = job[s].token /\ s \in Owing(u) /\ grant[u].call = job[s].call
                          /\ <<job[s].agent, job[s].call>> \in Gated
  BY <1>1, OwingMembers DEF GInv, Presented, Granted, Pending, Consumed, At, Owes
<1>3. grant[u].phase = "spent" /\ runs[u] = 0 /\ Owing(u) = {s}
  BY <1>2 DEF GInv, Paid
<1>4. /\ job'[s] = [[job[s] EXCEPT !.trail = @ \cup {job[s].event[1]}, !.event = <<>>]
                      EXCEPT !.at = "tool", !.ran = TRUE]
      /\ \A r \in Slots \ {s} : job'[r] = job[r]
      /\ runs' = [runs EXCEPT ![u] = @ + 1]
  BY <1>1, <1>2 DEF AuditWritten, CallTool, Who, TypeOK, Jobs, Consumed
<1>5. /\ job'[s].at = "tool" /\ job'[s].ran /\ job'[s].token = u /\ job'[s].agent = job[s].agent
      /\ job'[s].call = job[s].call /\ "consumed" \in job'[s].trail
  BY <1>1, <1>2, <1>4 DEF TypeOK, Jobs, Consumed
<1>6. grant' = grant /\ runs'[u] = 1 /\ \A t \in Tokens \ {u} : runs'[t] = runs[t]
  BY <1>2, <1>3, <1>4 DEF AuditWritten, TypeOK
<1>7. Told(job'[s]) /\ Presented(job'[s]) /\ Granted(job[s])'
  BY <1>2, <1>3, <1>5, <1>6 DEF Told, Presented, Granted, After, Before, Pending, Consumed, Refusals
<1>8. ASSUME NEW r \in Slots \ {s} PROVE Told(job'[r]) /\ Presented(job'[r]) /\ Granted(job[r])'
  <2>1. Told(job[r]) /\ Presented(job[r]) /\ Granted(job[r]) /\ job'[r] = job[r]
    BY <1>4 DEF GInv
  <2>2. job[r].ran /\ <<job[r].agent, job[r].call>> \in Gated => job[r].token \in Tokens \ {u}
    BY <1>3, <2>1 DEF Granted, Presented
  <2> QED BY <1>6, <2>1, <2>2 DEF Granted
<1>9. ASSUME NEW t \in Tokens PROVE Paid(t)'
  <2>1. CASE t = u
    <3>1. Owing(u)' = {}
      <4>1. s \notin Owing(u)'
        BY <1>5 DEF Owing, At
      <4>2. \A r \in Slots \ {s} : r \in Owing(u)' => r \in Owing(u)
        BY <1>4 DEF Owing, At
      <4>3. Owing(u)' \subseteq Slots
        BY DEF Owing
      <4> QED BY <1>3, <4>1, <4>2, <4>3
    <3> QED BY <1>3, <1>6, <2>1, <3>1 DEF Paid
  <2>2. CASE t # u
    <3>1. Owing(t)' = Owing(t)
      <4>1. s \notin Owing(t)' /\ s \notin Owing(t)
        BY <1>2, <1>5, <2>2 DEF Owing, At
      <4>2. \A r \in Slots \ {s} : r \in Owing(t)' <=> r \in Owing(t)
        BY <1>4 DEF Owing, At
      <4>3. Owing(t)' \subseteq Slots /\ Owing(t) \subseteq Slots
        BY DEF Owing
      <4> QED BY <4>1, <4>2, <4>3
    <3> QED BY <1>6, <2>2, <3>1 DEF Paid, GInv
  <2> QED BY <2>1, <2>2
<1> QED BY <1>7, <1>8, <1>9 DEF GInv

LEMMA QuietMove ==
  ASSUME TypeOK, GInv, NEW s \in Slots, NEW k, job' = [job EXCEPT ![s] = k],
         Told(k), Presented(k), ~Pending(k, Consumed),
         k.ran /\ <<k.agent, k.call>> \in Gated => RunAgain(job[s], k),
         \A t \in Tokens : grant'[t] = grant[t] \/ grant[t].phase # "spent",
         UNCHANGED runs
  PROVE  GInv'
<1>1. job'[s] = k /\ \A r \in Slots \ {s} : job'[r] = job[r]
  BY DEF TypeOK
<1>2. Quiet
  BY <1>1 DEF Quiet
<1> QED BY <1>2, QuietStep

LEMMA QuietSlot ==
  ASSUME TypeOK, GInv, NEW s \in Slots, Arrive(s) \/ Continue(s),
         ~(Validate(s) /\ Honoured(s)), ~(AuditWritten(s) /\ job[s].event[2] = "tool")
  PROVE  GInv'
<1> USE GatewayAssumption
<1>0. Told(job[s]) /\ Presented(job[s]) /\ job[s] \in Jobs /\ (At(s, "auditing") <=> job[s].event # <<>>)
  BY DEF GInv, TypeOK
<1> DEFINE Kept == /\ \A t \in Tokens : grant'[t] = grant[t] \/ grant[t].phase # "spent"
                   /\ UNCHANGED runs
<1>1. CASE Arrive(s)
  <2>1. PICK a \in Agents, c \in Calls, t \in {NoToken} \cup {u \in Tokens : grant[u].phase # "none"} :
          /\ <<a, c>> \notin Gated => t = NoToken
          /\ job' = [job EXCEPT ![s] = [NoJob EXCEPT !.at = "limiter", !.agent = a, !.call = c, !.token = t]]
    BY <1>1 DEF Arrive
  <2> DEFINE k == [NoJob EXCEPT !.at = "limiter", !.agent = a, !.call = c, !.token = t]
  <2>2. /\ k.at = "limiter" /\ k.agent = a /\ k.call = c /\ k.token = t
        /\ k.ran = FALSE
    BY DEF NoJob
  <2>3. Told(k) /\ Presented(k) /\ ~Pending(k, Consumed)
    BY <2>1, <2>2 DEF Told, Presented, Pending, After, Before, Refusals
  <2>4. Kept
    BY <1>1 DEF Arrive
  <2> HIDE DEF k
  <2> QED BY <2>1, <2>2, <2>3, <2>4, QuietMove DEF k
\* The call moves on, or has an event written.
<1>2. ASSUME NEW at, MoveTo(s, at), Kept,
             Told([job[s] EXCEPT !.at = at]),
             at \notin {"validating", "auditing"} \/ (at = "validating" /\ Who(s) \in Gated /\ job[s].token # NoToken)
      PROVE  GInv'
  <2> DEFINE k == [job[s] EXCEPT !.at = at]
  <2>1. job' = [job EXCEPT ![s] = k]
    BY <1>2 DEF MoveTo
  <2>2. k.at = at /\ k.agent = job[s].agent /\ k.call = job[s].call /\ k.token = job[s].token
        /\ k.ran = job[s].ran /\ k.trail = job[s].trail
    BY <1>0 DEF Jobs
  <2>3. Presented(k) /\ ~Pending(k, Consumed)
    BY <1>0, <1>2, <2>2 DEF Presented, Pending, Who, Jobs
  <2>4. Told(k)
    BY <1>2
  <2> HIDE DEF k
  <2> QED BY <1>2, <2>1, <2>2, <2>3, <2>4, QuietMove DEF RunAgain
<1>3. ASSUME NEW d, NEW next, Audit(s, d, next), Kept, <<d, next>> \in Events \ {Consumed},
             job[s].ran <=> <<d, next>> = <<"allow", "ok">>
      PROVE  GInv'
  <2> DEFINE k == [job[s] EXCEPT !.at = "auditing", !.event = <<d, next>>]
  <2>1. job' = [job EXCEPT ![s] = k]
    BY <1>3 DEF Audit
  <2>2. k.at = "auditing" /\ k.agent = job[s].agent /\ k.call = job[s].call /\ k.token = job[s].token
        /\ k.ran = job[s].ran /\ k.trail = job[s].trail /\ k.event = <<d, next>>
    BY <1>0 DEF Jobs
  <2>3. Presented(k) /\ ~Pending(k, Consumed)
    BY <1>0, <1>3, <2>2 DEF Presented, Pending, Consumed
  <2>4. Told(k)
    BY <1>0, <1>3, <2>2 DEF Told, After, Before, Pending, Refusals
  <2> HIDE DEF k
  <2> QED BY <1>3, <2>1, <2>2, <2>3, <2>4, QuietMove DEF RunAgain
<1>4. ASSUME job[s].at \in {"limiter", "waf", "requesting", "validating"} PROVE ~job[s].ran
  BY <1>0, <1>4 DEF Told, Before
\* An answer that says nothing of the audit log, or follows what it holds.
<1>5. ASSUME NEW at, at \in {"INSUFFICIENT_SCOPE", "waf", "validating", "STORE_ERROR", "PARTY_ERROR"}, ~job[s].ran
      PROVE  Told([job[s] EXCEPT !.at = at])
  <2> DEFINE k == [job[s] EXCEPT !.at = at]
  <2>1. k.at = at /\ k.ran = job[s].ran
    BY <1>0 DEF Jobs
  <2> HIDE DEF k
  <2>2. Told(k)
    BY <2>1, <1>5 DEF Told, After, Before, Pending, Refusals
  <2> QED BY <2>2 DEF k
<1>6. CASE Admit(s)
  <2>1. Kept /\ ~job[s].ran
    BY <1>4, <1>6 DEF Admit, At
  <2>2. \/ \E next \in Denials : Audit(s, "deny", next)
        \/ \E at \in {"INSUFFICIENT_SCOPE", "waf"} : MoveTo(s, at)
    BY <1>6 DEF Admit, RateLimited, NotAdmitted, BudgetCheck, Denials
  <2>3. ASSUME NEW next \in Denials, Audit(s, "deny", next) PROVE GInv'
    BY <1>3, <2>1, <2>3 DEF Events, Consumed
  <2>4. ASSUME NEW at \in {"INSUFFICIENT_SCOPE", "waf"}, MoveTo(s, at) PROVE GInv'
    BY <1>2, <1>5, <2>1, <2>4
  <2> QED BY <2>2, <2>3, <2>4
<1>7. CASE Flagged(s) \/ NoPolicy(s)
  <2>1. Kept /\ ~job[s].ran
    BY <1>4, <1>7 DEF Flagged, NoPolicy, At
  <2>2. CASE Audit(s, "deny", "WAF_VIOLATION")
    BY <1>3, <2>1, <2>2 DEF Events, Consumed, Denials
  <2>3. CASE Audit(s, "error", "UNAUTHORIZED_AGENT")
    BY <1>3, <2>1, <2>3 DEF Events, Consumed
  <2> QED BY <1>7, <2>2, <2>3 DEF Flagged, NoPolicy
<1>16. CASE PartyFails(s)
  <2>1. Kept /\ ~job[s].ran /\ MoveTo(s, "PARTY_ERROR")
    BY <1>4, <1>16 DEF PartyFails, At
  <2> QED BY <1>2, <1>5, <2>1
<1>8. CASE Decide(s)
  <2>1. ~job[s].ran /\ UNCHANGED grant
    BY <1>4, <1>8 DEF Decide, At
  <2>2. CASE Audit(s, "deny", "POLICY_VIOLATION") /\ UNCHANGED runs
    BY <1>3, <2>1, <2>2 DEF Events, Consumed, Denials
  <2>3. CASE Audit(s, "require_approval", "requesting") /\ UNCHANGED runs
    BY <1>3, <2>1, <2>3 DEF Events, Consumed
  <2>4. CASE Who(s) \in Gated /\ job[s].token # NoToken /\ MoveTo(s, "validating") /\ UNCHANGED runs
    BY <1>2, <1>5, <2>1, <2>4
  <2>5. CASE Who(s) \notin Gated /\ CallTool(s, job[s])
    <3> DEFINE k == [job[s] EXCEPT !.at = "tool", !.ran = TRUE]
    <3>1. job' = [job EXCEPT ![s] = k] /\ UNCHANGED runs
      BY <2>5 DEF CallTool
    <3>2. k.at = "tool" /\ k.ran /\ k.agent = job[s].agent /\ k.call = job[s].call /\ k.token = job[s].token
      BY <1>0 DEF Jobs
    <3> HIDE DEF k
    <3>3. Told(k) /\ ~Pending(k, Consumed) /\ <<k.agent, k.call>> \notin Gated
      BY <2>5, <3>2 DEF Told, After, Before, Pending, Refusals, Who
    <3>4. Presented(k)
      BY <1>0, <3>2, <3>3 DEF Presented, Pending
    <3> QED BY <2>1, <3>1, <3>3, <3>4, QuietMove
  <2> QED BY <1>8, <2>2, <2>3, <2>4, <2>5 DEF Decide
<1>9. CASE RequestApproval(s)
  <2>1. MoveTo(s, "APPROVAL_REQUIRED") /\ Kept
    BY <1>9 DEF RequestApproval, TypeOK
  <2> DEFINE k == [job[s] EXCEPT !.at = "APPROVAL_REQUIRED"]
  <2>2. k.at = "APPROVAL_REQUIRED" /\ ~k.ran /\ k.trail # {}
    BY <1>0, <1>4, <1>9 DEF Jobs, Told, RequestApproval, At
  <2> HIDE DEF k
  <2>3. Told(k)
    BY <2>2 DEF Told, After, Before, Pending, Refusals
  <2> QED BY <1>2, <2>1, <2>3 DEF k
<1>10. CASE Validate(s)
  <2>1. ~job[s].ran /\ Kept /\ Audit(s, "expired", "POLICY_VIOLATION")
    BY <1>4, <1>10 DEF Validate, At
  <2> QED BY <1>3, <2>1 DEF Events, Consumed
<1>11. CASE StoreFails(s)
  <2>1. ~job[s].ran /\ MoveTo(s, "STORE_ERROR") /\ UNCHANGED runs
    BY <1>4, <1>11 DEF StoreFails, At
  <2>2. Kept
    <3>1. CASE UNCHANGED grant
      BY <2>1, <3>1
    <3>2. CASE At(s, "validating") /\ Honoured(s) /\ Spend(s)
      BY <1>0, <2>1, <3>2 DEF Spend, TypeOK, Honoured, Presented, At
    <3> QED BY <1>11, <3>1, <3>2 DEF StoreFails
  <2> QED BY <1>2, <1>5, <2>1, <2>2
<1>12. CASE ToolFails(s) \/ OutputDenied(s)
  <2>1. PICK at \in {"EXECUTION_ERROR", "POLICY_VIOLATION"} : MoveTo(s, at)
    BY <1>12 DEF ToolFails, OutputDenied
  <2>2. Kept
    BY <1>12 DEF ToolFails, OutputDenied
  <2> DEFINE k == [job[s] EXCEPT !.at = at]
  <2>3. k.at = at
    BY <1>0 DEF Jobs
  <2> HIDE DEF k
  <2>4. Told(k)
    BY <2>1, <2>3 DEF Told, After, Before, Pending, Refusals
  <2> QED BY <1>2, <2>1, <2>2, <2>4 DEF k
<1>13. CASE ToolReturns(s)
  <2>1. job[s].ran /\ Audit(s, "allow", "ok") /\ Kept
    BY <1>0, <1>13 DEF ToolReturns, At, Told, After
  <2> QED BY <1>3, <2>1 DEF Events, Consumed
<1>14. CASE AuditFails(s)
  <2> DEFINE at == IF job[s].event[1] = "allow" THEN "EXECUTION_ERROR" ELSE "AUDIT_ERROR"
             k == [job[s] EXCEPT !.at = at, !.event = <<>>]
  <2>1. job' = [job EXCEPT ![s] = k] /\ Kept
    BY <1>14 DEF AuditFails
  <2>2. k.at = at /\ k.agent = job[s].agent /\ k.call = job[s].call /\ k.token = job[s].token
        /\ k.ran = job[s].ran /\ k.trail = job[s].trail
    BY <1>0 DEF Jobs
  <2>3. (at = "AUDIT_ERROR" => ~job[s].ran) /\ at # "validating"
    BY <1>0, <1>14 DEF Told, Before, AuditFails, At
  <2> HIDE DEF k
  <2>4. Told(k) /\ ~Pending(k, Consumed)
    BY <2>2, <2>3 DEF Told, After, Before, Pending, Refusals
  <2>5. Presented(k)
    <3>1. k.at # "validating" /\ ~Pending(k, <<"consumed", "tool">>)
      BY <2>2, <2>3, <2>4 DEF Consumed
    <3> QED BY <1>0, <2>2, <3>1 DEF Presented
  <2> QED BY <2>1, <2>2, <2>4, <2>5, QuietMove DEF RunAgain
<1>15. CASE AuditWritten(s)
  <2>1. At(s, "auditing") /\ job[s].event[2] # "tool" /\ job[s].event \in Events \ {Consumed}
    BY <1>0, <1>15 DEF AuditWritten, Told, At, Consumed
  <2> DEFINE next == job[s].event[2]
             log == job[s].trail \cup {job[s].event[1]}
             k == [job[s] EXCEPT !.trail = log, !.event = <<>>, !.at = next]
  <2>2. job' = [job EXCEPT ![s] = k] /\ Kept
    BY <1>0, <1>15, <2>1 DEF AuditWritten, Jobs
  <2>3. k.at = next /\ k.agent = job[s].agent /\ k.call = job[s].call /\ k.token = job[s].token
        /\ k.ran = job[s].ran /\ k.trail = log
    BY <1>0 DEF Jobs
  <2>4. log # {} /\ (next = "ok" => "allow" \in log) /\ next \in Denials \cup {"UNAUTHORIZED_AGENT", "requesting", "ok"}
    BY <2>1 DEF Events, Denials, Consumed
  <2>5. job[s].ran <=> next = "ok"
    BY <1>0, <2>1 DEF Told, Before, After, Pending, At, Events, Denials, Consumed
  <2>6. "consumed" \in job[s].trail => "consumed" \in log
    OBVIOUS
  <2> HIDE DEF k, next, log
  <2>7. Told(k) /\ ~Pending(k, Consumed)
    BY <2>3, <2>4, <2>5 DEF Told, After, Before, Pending, Refusals, Denials
  <2>8. Presented(k)
    <3>1. k.at # "validating" /\ ~Pending(k, <<"consumed", "tool">>)
      BY <2>3, <2>4, <2>7 DEF Denials, Consumed
    <3> QED BY <1>0, <2>3, <2>6, <3>1 DEF Presented
  <2> QED BY <2>2, <2>3, <2>7, <2>8, QuietMove DEF RunAgain
<1> QED BY <1>1, <1>6, <1>7, <1>8, <1>9, <1>10, <1>11, <1>12, <1>13, <1>14, <1>15, <1>16 DEF Continue

LEMMA StepGInv == TypeOK /\ GInv /\ [Next]_vars => GInv'
<1> SUFFICES ASSUME TypeOK, GInv, [Next]_vars PROVE GInv'
  OBVIOUS
<1>1. ASSUME NEW s \in Slots, Arrive(s) \/ Continue(s) PROVE GInv'
  <2>1. CASE Validate(s) /\ Honoured(s)
    BY <2>1, ValidateHonoured DEF Validate
  <2>2. CASE AuditWritten(s) /\ job[s].event[2] = "tool"
    BY <2>2, RunPaid
  <2> QED BY <1>1, <2>1, <2>2, QuietSlot
<1>2. ASSUME NEW t \in Tokens, Grant(t) \/ Close(t) PROVE GInv'
  <2>1. Quiet
    BY <1>2 DEF Grant, Close, Quiet, TypeOK
  <2> QED BY <2>1, QuietStep
<1>3. CASE Administer \/ UNCHANGED vars
  <2>1. Quiet
    BY <1>3 DEF Administer, vars, Quiet
  <2> QED BY <2>1, QuietStep
<1> QED BY <1>1, <1>2, <1>3 DEF Next

-----------------------------------------------------------------------------
(* The budget *)

LEMMA ProductMonotone ==
  ASSUME NEW c \in Nat, NEW m \in Nat, NEW n \in Nat, m <= n
  PROVE  c * m <= c * n /\ c * m \in Nat /\ c * n \in Nat
  OBVIOUS

LEMMA ProductStep ==
  ASSUME NEW c \in Nat, NEW m \in Nat
  PROVE  c * (m + 1) = c * m + c
  OBVIOUS

\* A call that may still be charged.
Charged(j) == j.at \in {"waf", "validating", "tool"} \/ (j.at = "auditing" /\ j.event[2] = "tool")

\* No call comes to be chargeable that was not.
LEMMA ChargeableShrinks ==
  ASSUME TypeOK, NEW s \in Slots, NEW k, job' = [job EXCEPT ![s] = k],
         Charged(k) => Charged(job[s]) /\ k.agent = job[s].agent,
         NEW a \in Agents
  PROVE  Chargeable(a)' \subseteq Chargeable(a)
<1>1. job'[s] = k /\ \A r \in Slots \ {s} : job'[r] = job[r]
  BY DEF TypeOK
<1>2. s \in Chargeable(a)' => s \in Chargeable(a)
  BY <1>1 DEF Chargeable, Charged, At
<1>3. \A r \in Slots \ {s} : r \in Chargeable(a)' => r \in Chargeable(a)
  BY <1>1 DEF Chargeable, At
<1>4. Chargeable(a)' \subseteq Slots
  BY DEF Chargeable
<1> QED BY <1>2, <1>3, <1>4

LEMMA OnlyAdmissionCharges ==
  ASSUME TypeOK, GInv, NEW s \in Slots, Arrive(s) \/ Continue(s),
         ~(Admit(s) /\ MoveTo(s, "waf")), NEW a \in Agents
  PROVE  Chargeable(a)' \subseteq Chargeable(a)
<1>0. job[s] \in Jobs /\ Told(job[s])
  BY DEF TypeOK, GInv
<1>1. CASE Arrive(s)
  <2>1. PICK b \in Agents, c \in Calls, t \in {NoToken} \cup {u \in Tokens : grant[u].phase # "none"} :
          job' = [job EXCEPT ![s] = [NoJob EXCEPT !.at = "limiter", !.agent = b, !.call = c, !.token = t]]
    BY <1>1 DEF Arrive
  <2>2. ~Charged([NoJob EXCEPT !.at = "limiter", !.agent = b, !.call = c, !.token = t])
    BY DEF Charged, NoJob
  <2> QED BY <2>1, <2>2, ChargeableShrinks
<1>2. ASSUME NEW at, MoveTo(s, at),
             at \in {"waf", "validating", "tool"} => Charged(job[s]), at # "auditing"
      PROVE  Chargeable(a)' \subseteq Chargeable(a)
  <2>1. Charged([job[s] EXCEPT !.at = at]) => Charged(job[s]) /\ [job[s] EXCEPT !.at = at].agent = job[s].agent
    BY <1>0, <1>2 DEF Charged, Jobs
  <2> QED BY <1>2, <2>1, ChargeableShrinks DEF MoveTo
<1>3. ASSUME NEW d, NEW next, Audit(s, d, next), next = "tool" => Charged(job[s])
      PROVE  Chargeable(a)' \subseteq Chargeable(a)
  <2> DEFINE k == [job[s] EXCEPT !.at = "auditing", !.event = <<d, next>>]
  <2>1. k.at = "auditing" /\ k.event = <<d, next>> /\ k.agent = job[s].agent
    BY <1>0 DEF Jobs
  <2>2. Charged(k) => Charged(job[s]) /\ k.agent = job[s].agent
    BY <1>3, <2>1 DEF Charged
  <2>3. job' = [job EXCEPT ![s] = k]
    BY <1>3 DEF Audit
  <2> HIDE DEF k
  <2> QED BY <2>2, <2>3, ChargeableShrinks
<1>4. ASSUME NEW k, job' = [job EXCEPT ![s] = k], Charged(job[s]) \/ ~Charged(k), k.agent = job[s].agent
      PROVE  Chargeable(a)' \subseteq Chargeable(a)
  BY <1>4, ChargeableShrinks
<1>5. CASE Admit(s)
  <2>1. (\E next \in Denials : Audit(s, "deny", next)) \/ MoveTo(s, "INSUFFICIENT_SCOPE")
    BY <1>5 DEF Admit, RateLimited, NotAdmitted, BudgetCheck, Denials
  <2>2. ASSUME NEW next \in Denials, Audit(s, "deny", next) PROVE Chargeable(a)' \subseteq Chargeable(a)
    BY <1>3, <2>2 DEF Denials
  <2> QED BY <1>2, <2>1, <2>2
<1>6. CASE Flagged(s) \/ NoPolicy(s) \/ PartyFails(s)
  BY <1>2, <1>3, <1>6 DEF Flagged, NoPolicy, PartyFails
<1>7. CASE Decide(s)
  <2>1. Charged(job[s])
    BY <1>7 DEF Decide, At, Charged
  <2>2. \/ Audit(s, "deny", "POLICY_VIOLATION") \/ Audit(s, "require_approval", "requesting")
        \/ MoveTo(s, "validating") \/ CallTool(s, job[s])
    BY <1>7 DEF Decide
  <2>3. CASE CallTool(s, job[s])
    <3>1. job' = [job EXCEPT ![s] = [job[s] EXCEPT !.at = "tool", !.ran = TRUE]]
      BY <2>3 DEF CallTool
    <3>2. [job[s] EXCEPT !.at = "tool", !.ran = TRUE].agent = job[s].agent
      BY <1>0 DEF Jobs
    <3> QED BY <1>4, <2>1, <3>1, <3>2
  <2> QED BY <1>2, <1>3, <2>1, <2>2, <2>3
<1>8. CASE Validate(s)
  <2>1. Charged(job[s])
    BY <1>8 DEF Validate, At, Charged
  <2>2. Audit(s, "consumed", "tool") \/ Audit(s, "expired", "POLICY_VIOLATION")
    BY <1>8 DEF Validate
  <2> QED BY <1>3, <2>1, <2>2
<1>9. CASE RequestApproval(s) \/ StoreFails(s) \/ ToolFails(s) \/ OutputDenied(s)
  <2>1. \E at \in {"APPROVAL_REQUIRED", "STORE_ERROR", "EXECUTION_ERROR", "POLICY_VIOLATION"} : MoveTo(s, at)
    BY <1>9 DEF RequestApproval, StoreFails, ToolFails, OutputDenied
  <2> QED BY <1>2, <2>1
<1>10. CASE ToolReturns(s)
  BY <1>3, <1>10 DEF ToolReturns
<1>11. CASE AuditFails(s)
  <2> DEFINE at == IF job[s].event[1] = "allow" THEN "EXECUTION_ERROR" ELSE "AUDIT_ERROR"
             k == [job[s] EXCEPT !.at = at, !.event = <<>>]
  <2>1. job' = [job EXCEPT ![s] = k]
    BY <1>11 DEF AuditFails
  <2>2. k.at = at /\ k.agent = job[s].agent
    BY <1>0 DEF Jobs
  <2>3. ~Charged(k)
    BY <2>2 DEF Charged
  <2> HIDE DEF k
  <2> QED BY <1>4, <2>1, <2>2, <2>3
<1>12. CASE AuditWritten(s)
  <2>1. At(s, "auditing") /\ job[s].event \in Events
    BY <1>0, <1>12 DEF AuditWritten, Told, At
  <2> DEFINE log == job[s].trail \cup {job[s].event[1]}
             next == job[s].event[2]
             k == [job[s] EXCEPT !.trail = log, !.event = <<>>, !.at = next,
                                 !.ran = IF next = "tool" THEN TRUE ELSE job[s].ran]
  <2>2. job' = [job EXCEPT ![s] = k]
    <3>1. CASE next = "tool"
      BY <1>0, <1>12, <3>1 DEF AuditWritten, CallTool, Jobs
    <3>2. CASE next # "tool"
      BY <1>0, <1>12, <3>2 DEF AuditWritten, Jobs
    <3> QED BY <3>1, <3>2
  <2>3. k.at = next /\ k.agent = job[s].agent
    BY <1>0 DEF Jobs
  <2>4. next \in {"waf", "validating", "tool", "auditing"} => next = "tool" /\ Charged(job[s])
    BY <2>1 DEF Events, Denials, Charged, At
  <2> HIDE DEF k, next, log
  <2>5. Charged(job[s]) \/ ~Charged(k)
    BY <2>3, <2>4 DEF Charged
  <2> QED BY <1>4, <2>2, <2>3, <2>5
<1> QED BY <1>1, <1>5, <1>6, <1>7, <1>8, <1>9, <1>10, <1>11, <1>12 DEF Continue

LEMMA CardinalityMonotone ==
  ASSUME NEW D \in SUBSET Slots, NEW C \in SUBSET D
  PROVE  /\ IsFiniteSet(C) /\ Cardinality(C) \in Nat /\ Cardinality(D) \in Nat
         /\ Cardinality(C) <= Cardinality(D)
         /\ MaxCost * Cardinality(C) <= MaxCost * Cardinality(D)
         /\ MaxCost * Cardinality(C) \in Nat /\ MaxCost * Cardinality(D) \in Nat
<1>1. IsFiniteSet(D) /\ IsFiniteSet(C) /\ Cardinality(C) <= Cardinality(D)
  BY FS_Subset, GatewayAssumption
<1>2. Cardinality(C) \in Nat /\ Cardinality(D) \in Nat
  BY <1>1, FS_CardinalityType
<1> QED BY <1>1, <1>2, ProductMonotone, GatewayAssumption

\* Whose usage is within the largest budget overruns it by what is in flight at most.
LEMMA WithinBudget ==
  ASSUME NEW u \in Nat, u <= MaxBudget, NEW C \in SUBSET Slots
  PROVE  u + MaxCost * Cardinality(C) <= MaxBudget + MaxCost * Cardinality(Slots)
<1>1. MaxCost * Cardinality(C) <= MaxCost * Cardinality(Slots)
      /\ MaxCost * Cardinality(C) \in Nat /\ MaxCost * Cardinality(Slots) \in Nat
  BY CardinalityMonotone
<1> QED BY <1>1, BudgetsAssumption

\* A charged call stops being chargeable, for no more than the largest cost.
LEMMA ChargeOne ==
  ASSUME NEW u \in Nat, NEW n \in 1 .. MaxCost, NEW D \in SUBSET Slots, NEW s \in D,
         NEW C \in SUBSET (D \ {s}),
         u + MaxCost * Cardinality(D) <= MaxBudget + MaxCost * Cardinality(Slots)
  PROVE  u + n + MaxCost * Cardinality(C) <= MaxBudget + MaxCost * Cardinality(Slots)
<1> USE GatewayAssumption, BudgetsAssumption
<1>1. IsFiniteSet(D) /\ Cardinality(D) \in Nat
  BY CardinalityMonotone
<1>2. Cardinality(D \ {s}) = Cardinality(D) - 1 /\ Cardinality(D \ {s}) \in Nat
  BY <1>1, FS_RemoveElement, CardinalityMonotone
<1>3. MaxCost * Cardinality(D) = MaxCost * Cardinality(D \ {s}) + MaxCost
  BY <1>1, <1>2, ProductStep
<1>4. MaxCost * Cardinality(C) <= MaxCost * Cardinality(D \ {s})
      /\ MaxCost * Cardinality(C) \in Nat /\ MaxCost * Cardinality(D \ {s}) \in Nat
  BY CardinalityMonotone
<1>5. MaxCost * Cardinality(Slots) \in Nat
  BY CardinalityMonotone
<1> QED BY <1>3, <1>4, <1>5

LEMMA StepBInv == TypeOK /\ GInv /\ BInv /\ [Next]_vars => BInv'
<1> SUFFICES ASSUME TypeOK, GInv, BInv, [Next]_vars, NEW a \in Agents
             PROVE  /\ ~exceeded'[a] => usage'[a] <= MaxBudget
                    /\ usage'[a] + MaxCost * Cardinality(Chargeable(a)')
                         <= MaxBudget + MaxCost * Cardinality(Slots)
  BY DEF BInv
<1> USE BudgetsAssumption, GatewayAssumption
<1>0. /\ usage[a] \in Nat /\ exceeded[a] \in BOOLEAN /\ budgets[a] \in 0 .. MaxBudget
      /\ ~exceeded[a] => usage[a] <= MaxBudget
      /\ usage[a] + MaxCost * Cardinality(Chargeable(a)) <= MaxBudget + MaxCost * Cardinality(Slots)
      /\ Chargeable(a) \in SUBSET Slots /\ Chargeable(a)' \in SUBSET Slots
  BY DEF TypeOK, TrackerTypeOK, BInv, Chargeable
<1>1. ASSUME usage'[a] = usage[a], exceeded'[a] = exceeded[a], Chargeable(a)' \subseteq Chargeable(a)
      PROVE  /\ ~exceeded'[a] => usage'[a] <= MaxBudget
             /\ usage'[a] + MaxCost * Cardinality(Chargeable(a)')
                  <= MaxBudget + MaxCost * Cardinality(Slots)
  <2>1. MaxCost * Cardinality(Chargeable(a)') <= MaxCost * Cardinality(Chargeable(a))
        /\ MaxCost * Cardinality(Chargeable(a)') \in Nat /\ MaxCost * Cardinality(Chargeable(a)) \in Nat
    BY <1>0, <1>1, CardinalityMonotone
  <2>2. MaxCost * Cardinality(Slots) \in Nat
    BY CardinalityMonotone
  <2> QED BY <1>0, <1>1, <2>1, <2>2
<1>2. ASSUME NEW s \in Slots, Arrive(s) \/ Continue(s)
      PROVE  /\ ~exceeded'[a] => usage'[a] <= MaxBudget
             /\ usage'[a] + MaxCost * Cardinality(Chargeable(a)')
                  <= MaxBudget + MaxCost * Cardinality(Slots)
  <2>1. CASE Admit(s) /\ MoveTo(s, "waf")
    <3>1. UNCHANGED <<usage, exceeded, budgets>>
      BY <2>1 DEF Admit, trackerVars
    <3>2. ~exceeded[job[s].agent]
      <4>1. job'[s].at = "waf"
        BY <2>1, JobsWellFormed DEF MoveTo, TypeOK, WellFormed, Jobs
      <4>2. ASSUME NEW d, NEW next, Audit(s, d, next) PROVE FALSE
        <5>1. job'[s].at = "auditing"
          BY <4>2, JobsWellFormed DEF Audit, TypeOK, WellFormed, Jobs
        <5> QED BY <4>1, <5>1
      <4>3. ~MoveTo(s, "INSUFFICIENT_SCOPE")
        BY <4>1, JobsWellFormed DEF MoveTo, TypeOK, WellFormed, Jobs
      <4> QED BY <2>1, <4>2, <4>3 DEF Admit, RateLimited, NotAdmitted, BudgetCheck, IsBudgetExceeded
    <3>3. CASE a = job[s].agent
      <4>1. usage'[a] <= MaxBudget
        BY <1>0, <3>1, <3>2, <3>3
      <4> QED BY <1>0, <3>1, <4>1, WithinBudget
    <3>4. CASE a # job[s].agent
      <4>1. /\ job'[s].agent = job[s].agent /\ \A r \in Slots \ {s} : job'[r] = job[r]
        BY <2>1, JobsWellFormed DEF MoveTo, TypeOK, WellFormed, Jobs
      <4>2. s \notin Chargeable(a)'
        BY <3>4, <4>1 DEF Chargeable
      <4>3. \A r \in Slots \ {s} : r \in Chargeable(a)' => r \in Chargeable(a)
        BY <4>1 DEF Chargeable, At
      <4>4. Chargeable(a)' \subseteq Chargeable(a)
        BY <1>0, <4>2, <4>3
      <4> QED BY <1>1, <3>1, <4>4
    <3> QED BY <3>3, <3>4
  <2>2. CASE ToolReturns(s)
    <3>1. PICK n \in 1 .. MaxCost : RecordUsage(job[s].agent, n)
      BY <2>2 DEF ToolReturns
    <3>2. Chargeable(a)' \subseteq Chargeable(a)
      <4>1. ~Admit(s)
        BY <2>2 DEF ToolReturns, Admit, At
      <4> QED BY <1>2, <4>1, OnlyAdmissionCharges
    <3>3. CASE a # job[s].agent
      <4>1. usage'[a] = usage[a] /\ exceeded'[a] = exceeded[a]
        BY <3>1, <3>3 DEF RecordUsage, TypeOK, TrackerTypeOK
      <4> QED BY <1>1, <3>2, <4>1
    <3>4. CASE a = job[s].agent
      <4>1. s \in Chargeable(a)
        BY <2>2, <3>4 DEF Chargeable, ToolReturns, At
      <4>2. job'[s].at = "auditing" /\ job'[s].event = <<"allow", "ok">>
        BY <2>2, JobsWellFormed DEF ToolReturns, Audit, TypeOK, WellFormed, Jobs
      <4>3. s \notin Chargeable(a)'
        BY <4>2 DEF Chargeable, At
      <4>4. Chargeable(a)' \in SUBSET (Chargeable(a) \ {s})
        BY <3>2, <4>3
      <4>5. usage'[a] = usage[a] + n /\ exceeded'[a] = (usage[a] + n > budgets[a])
        BY <3>1, <3>4 DEF RecordUsage, TypeOK, TrackerTypeOK
      <4>6. ~exceeded'[a] => usage'[a] <= MaxBudget
        <5>1. CASE usage[a] + n > budgets[a]
          BY <4>5, <5>1
        <5>2. CASE ~(usage[a] + n > budgets[a])
          <6>1. usage[a] + n <= budgets[a]
            BY <1>0, <5>2
          <6> QED BY <1>0, <4>5, <6>1
        <5> QED BY <5>1, <5>2
      <4>7. usage[a] + n + MaxCost * Cardinality(Chargeable(a)') <= MaxBudget + MaxCost * Cardinality(Slots)
        BY <1>0, <4>1, <4>4, ChargeOne
      <4> QED BY <4>5, <4>6, <4>7
    <3> QED BY <3>3, <3>4
  <2>3. CASE ~(Admit(s) /\ MoveTo(s, "waf")) /\ ~ToolReturns(s)
    <3>1. Chargeable(a)' \subseteq Chargeable(a)
      BY <1>2, <2>3, OnlyAdmissionCharges
    <3>2. UNCHANGED <<usage, exceeded, budgets>>
      BY <1>2, <2>3 DEF Arrive, Continue, Admit, Flagged, NoPolicy, PartyFails, Decide, RequestApproval, Validate,
         StoreFails, AuditWritten, AuditFails, ToolFails, OutputDenied, trackerVars
    <3> QED BY <1>1, <3>1, <3>2
  <2> QED BY <2>1, <2>2, <2>3
<1>3. ASSUME UNCHANGED job PROVE Chargeable(a)' = Chargeable(a)
  BY <1>3 DEF Chargeable, At
<1>4. CASE UNCHANGED vars \/ \E t \in Tokens : Grant(t) \/ Close(t)
  BY <1>1, <1>3, <1>4 DEF vars, trackerVars, Grant, Close
<1>5. CASE Administer
  <2>1. PICK b \in Agents : Reset(b) \/ \E max \in 0 .. MaxBudget : SetBudget(b, max)
    BY <1>5 DEF Administer
  <2>2. Chargeable(a)' = Chargeable(a)
    BY <1>3, <1>5 DEF Administer
  <2>3. CASE Reset(b) /\ a = b
    <3>1. usage'[a] = 0
      BY <2>3 DEF Reset, TypeOK, TrackerTypeOK
    <3>2. 0 <= MaxBudget
      OBVIOUS
    <3> QED BY <1>0, <3>1, <3>2, WithinBudget
  <2>4. CASE ~(Reset(b) /\ a = b)
    <3>1. usage'[a] = usage[a] /\ exceeded'[a] = exceeded[a]
      BY <2>1, <2>4 DEF Reset, SetBudget, TypeOK, TrackerTypeOK
    <3> QED BY <1>1, <2>2, <3>1
  <2> QED BY <2>3, <2>4
<1> QED BY <1>2, <1>4, <1>5 DEF Next

-----------------------------------------------------------------------------
(* What the runs check, for every value of the constants *)

LEMMA SpecIInv == Spec => []IInv
<1>1. Init => IInv
  BY InitIInv
<1>2. IInv /\ [Next]_vars => IInv'
  BY StepTypeOK, StepGInv, StepBInv DEF IInv
<1> QED BY <1>1, <1>2, PTL DEF Spec

LEMMA GrantsHonoured == TypeOK /\ GInv => OneRunPerGrant
<1> SUFFICES ASSUME TypeOK, GInv PROVE OneRunPerGrant
  OBVIOUS
<1>1. ASSUME NEW t \in Tokens
      PROVE  runs[t] + Cardinality(Owing(t)) <= IF grant[t].phase = "spent" THEN 1 ELSE 0
  <2>1. Paid(t) /\ runs[t] \in Nat
    BY DEF GInv, TypeOK
  <2>2. CASE Owing(t) = {}
    <3>1. Cardinality(Owing(t)) = 0
      BY <2>2, FS_EmptySet
    <3> QED BY <2>1, <3>1 DEF Paid
  <2>3. ASSUME NEW s \in Owing(t) PROVE runs[t] = 0 /\ Cardinality(Owing(t)) = 1 /\ grant[t].phase = "spent"
    <3>1. Owing(t) = {s}
      BY <2>1, <2>3 DEF Paid
    <3>2. Cardinality(Owing(t)) = 1
      BY <3>1, FS_Singleton
    <3> QED BY <2>1, <2>3, <3>2 DEF Paid
  <2> QED BY <2>2, <2>3
<1>2. ASSUME NEW s \in Slots, job[s].ran, Who(s) \in Gated
      PROVE  job[s].token \in Tokens /\ grant[job[s].token].call = job[s].call /\ runs[job[s].token] = 1
  BY <1>2 DEF GInv, Presented, Granted, Who
<1> QED BY <1>1, <1>2 DEF OneRunPerGrant

LEMMA AuditKept == GInv => AuditedBeforeEffect
BY DEF GInv, Told, Presented, AuditedBeforeEffect, Who, At

\* A gated tool runs at most once for each human grant, for the call that was granted and
\* after the consumption is in the audit log; an answer by name left its decision there
\* (422-474): with any number of calls, agents and tokens, whatever fails in between.
THEOREM SpecEffectsAreGranted == Spec => []EffectsAreGranted
<1>1. IInv => EffectsAreGranted
  BY GrantsHonoured, AuditKept DEF IInv, EffectsAreGranted
<1> QED BY <1>1, SpecIInv, PTL

\* A refusal by name means that the tool was not called, ok that it was.
THEOREM SpecAnswerTellsEffect == Spec => []AnswerTellsEffect
<1>1. IInv => AnswerTellsEffect
  BY DEF IInv, GInv, Told, Before, After, AnswerTellsEffect, At, Refusals
<1> QED BY <1>1, SpecIInv, PTL

\* The circuit breaker is checked before the call and charged after it: an agent overruns
\* the largest budget by one call a slot at most, whatever is set and reset meanwhile.
THEOREM SpecOverrunBounded == Spec => []OverrunBounded
<1>1. IInv => OverrunBounded
  BY DEF IInv, BInv, OverrunBounded
<1> QED BY <1>1, SpecIInv, PTL

-----------------------------------------------------------------------------
(* From the request for an approval to the tool, a token lives the life of            *)
(* ApprovalLifecycle: it is granted until its run is owed no more, and used when the  *)
(* tool runs.                                                                         *)

Phase(t) ==
  IF grant[t].phase # "spent" THEN grant[t].phase
  ELSE IF Owing(t) # {} THEN "granted" ELSE "closed"

Lifecycle == INSTANCE ApprovalLifecycle
  WITH Keys <- Tokens, phase <- [t \in Tokens |-> Phase(t)], uses <- runs

\* One step of the life of token t.
LifeStep(t) ==
  \/ Phase(t) = "none" /\ Phase(t)' # "none" /\ runs'[t] = runs[t]
  \/ Phase(t) = "waiting" /\ Phase(t)' = "granted" /\ runs'[t] = runs[t]
  \/ Phase(t) = "granted" /\ Phase(t)' = "closed" /\ runs'[t] = runs[t] + 1
  \/ Phase(t) \in {"waiting", "granted"} /\ Phase(t)' = "closed" /\ runs'[t] = runs[t]
  \/ Phase(t)' = Phase(t) /\ runs'[t] = runs[t]

\* A run that was owed is owed no more; or the store changes the record of a token on
\* which no run is owed.
LEMMA DebtDropped ==
  ASSUME NEW t \in Tokens, grant'[t] = grant[t], runs'[t] = runs[t], Owing(t)' \subseteq Owing(t)
  PROVE  LifeStep(t)
BY DEF LifeStep, Phase

LEMMA GrantMoves ==
  ASSUME GInv, NEW t \in Tokens, runs'[t] = runs[t], Owing(t)' \subseteq Owing(t),
         \/ grant[t].phase = "none" /\ grant'[t].phase = "waiting"
         \/ grant[t].phase = "waiting" /\ grant'[t].phase \in {"granted", "closed"}
         \/ grant[t].phase = "granted" /\ grant'[t].phase \in {"spent", "closed"}
  PROVE  LifeStep(t)
<1>1. Owing(t) = {} /\ Owing(t)' = {}
  BY DEF GInv, Paid
<1> QED BY <1>1 DEF LifeStep, Phase

\* What a slot does that is neither the consumption of a token nor the run it is owed
\* makes nothing owed.
LEMMA NothingOwed ==
  ASSUME TypeOK, NEW s \in Slots, NEW k, job' = [job EXCEPT ![s] = k], ~Pending(k, Consumed),
         NEW t \in Tokens
  PROVE  Owing(t)' \subseteq Owing(t)
<1>1. job'[s] = k /\ \A r \in Slots \ {s} : job'[r] = job[r]
  BY DEF TypeOK
<1>2. s \notin Owing(t)'
  BY <1>1 DEF Owing, At, Pending, Consumed
<1>3. \A r \in Slots \ {s} : r \in Owing(t)' => r \in Owing(t)
  BY <1>1 DEF Owing, At
<1>4. Owing(t)' \subseteq Slots
  BY DEF Owing
<1> QED BY <1>2, <1>3, <1>4

LEMMA Arrival ==
  ASSUME NEW s \in Slots, Arrive(s)
  PROVE  UNCHANGED <<grant, runs>> /\ \E k : job' = [job EXCEPT ![s] = k] /\ k.at = "limiter"
<1>1. PICK a \in Agents, c \in Calls, t \in {NoToken} \cup {u \in Tokens : grant[u].phase # "none"} :
        job' = [job EXCEPT ![s] = [NoJob EXCEPT !.at = "limiter", !.agent = a, !.call = c, !.token = t]]
  BY DEF Arrive
<1> DEFINE k == [NoJob EXCEPT !.at = "limiter", !.agent = a, !.call = c, !.token = t]
<1>2. k.at = "limiter"
  BY DEF NoJob
<1>3. UNCHANGED <<grant, runs>>
  BY DEF Arrive
<1> QED BY <1>1, <1>2, <1>3

LEMMA SlotOwesNothing ==
  ASSUME TypeOK, GInv, NEW s \in Slots, Arrive(s) \/ Continue(s),
         ~(Validate(s) /\ Honoured(s)), ~(AuditWritten(s) /\ job[s].event[2] = "tool"),
         NEW t \in Tokens
  PROVE  Owing(t)' \subseteq Owing(t) /\ UNCHANGED runs
<1>0. job[s] \in Jobs /\ Told(job[s])
  BY DEF TypeOK, GInv
<1>1. ASSUME NEW at, MoveTo(s, at), at # "auditing" PROVE Owing(t)' \subseteq Owing(t)
  <2>1. PICK k : k = [job[s] EXCEPT !.at = at]
    OBVIOUS
  <2>2. job' = [job EXCEPT ![s] = k] /\ k.at = at
    BY <1>0, <1>1, <2>1 DEF MoveTo, Jobs
  <2> QED BY <1>1, <2>2, NothingOwed DEF Pending
<1>2. ASSUME NEW d, NEW next, Audit(s, d, next), <<d, next>> # Consumed
      PROVE  Owing(t)' \subseteq Owing(t)
  <2>1. PICK k : k = [job[s] EXCEPT !.at = "auditing", !.event = <<d, next>>]
    OBVIOUS
  <2>2. job' = [job EXCEPT ![s] = k] /\ k.event = <<d, next>>
    BY <1>0, <1>2, <2>1 DEF Audit, Jobs
  <2> QED BY <1>2, <2>2, NothingOwed DEF Pending
<1>3. CASE Arrive(s)
  <2>1. PICK k : job' = [job EXCEPT ![s] = k] /\ k.at = "limiter"
    BY <1>3, Arrival
  <2>2. UNCHANGED runs
    BY <1>3, Arrival
  <2> QED BY <2>1, <2>2, NothingOwed DEF Pending
<1>4. CASE Admit(s) \/ Flagged(s) \/ NoPolicy(s) \/ PartyFails(s) \/ RequestApproval(s) \/ StoreFails(s) \/ ToolFails(s)
           \/ OutputDenied(s) \/ ToolReturns(s) \/ (Validate(s) /\ ~Honoured(s))
  <2>1. UNCHANGED runs
    BY <1>4 DEF Admit, Flagged, NoPolicy, PartyFails, RequestApproval, StoreFails,
         ToolFails, OutputDenied, ToolReturns, Validate
  <2>2. \/ \E at \in Answers \cup {"waf"} : MoveTo(s, at)
        \/ \E d \in {"deny", "error", "expired", "allow"}, next \in Answers : Audit(s, d, next)
    BY <1>4 DEF Admit, Flagged, NoPolicy, PartyFails, RequestApproval, StoreFails,
         ToolFails, OutputDenied, ToolReturns, Validate,
       RateLimited, NotAdmitted, BudgetCheck, Answers, Refusals, Failures
  <2>3. \A d \in {"deny", "error", "expired", "allow"}, next \in Answers : <<d, next>> # Consumed
    BY DEF Consumed
  <2> QED BY <1>1, <1>2, <2>1, <2>2, <2>3 DEF Answers, Refusals, Failures
<1>5. CASE Decide(s)
  <2>1. \/ Audit(s, "deny", "POLICY_VIOLATION") /\ UNCHANGED runs
        \/ Audit(s, "require_approval", "requesting") /\ UNCHANGED runs
        \/ MoveTo(s, "validating") /\ UNCHANGED runs
        \/ Who(s) \notin Gated /\ CallTool(s, job[s])
    BY <1>5 DEF Decide
  <2>2. CASE Who(s) \notin Gated /\ CallTool(s, job[s])
    <3>1. PICK k : k = [job[s] EXCEPT !.at = "tool", !.ran = TRUE]
      OBVIOUS
    <3>2. job' = [job EXCEPT ![s] = k] /\ k.at = "tool" /\ UNCHANGED runs
      BY <1>0, <2>2, <3>1 DEF CallTool, Jobs
    <3> QED BY <3>2, NothingOwed DEF Pending
  <2>3. <<"deny", "POLICY_VIOLATION">> # Consumed /\ <<"require_approval", "requesting">> # Consumed
    BY DEF Consumed
  <2> QED BY <1>1, <1>2, <2>1, <2>2, <2>3
<1>6. CASE AuditFails(s)
  <2>1. PICK k : k = [job[s] EXCEPT !.at = IF job[s].event[1] = "allow" THEN "EXECUTION_ERROR" ELSE "AUDIT_ERROR",
                                    !.event = <<>>]
    OBVIOUS
  <2>2. job' = [job EXCEPT ![s] = k] /\ k.at # "auditing" /\ UNCHANGED runs
    BY <1>0, <1>6, <2>1 DEF AuditFails, Jobs
  <2> QED BY <2>2, NothingOwed DEF Pending
<1>7. CASE AuditWritten(s) /\ job[s].event[2] # "tool"
  <2>1. job[s].event \in Events /\ UNCHANGED runs
    BY <1>0, <1>7 DEF AuditWritten, Told, At
  <2>2. PICK k : k = [[job[s] EXCEPT !.trail = @ \cup {job[s].event[1]}, !.event = <<>>]
                        EXCEPT !.at = job[s].event[2]]
    OBVIOUS
  <2>3. job' = [job EXCEPT ![s] = k] /\ k.at = job[s].event[2]
    BY <1>0, <1>7, <2>2 DEF AuditWritten, Jobs
  <2>4. job[s].event[2] # "auditing"
    BY <2>1 DEF Events, Denials
  <2> QED BY <2>1, <2>3, <2>4, NothingOwed DEF Pending
<1> QED BY <1>3, <1>4, <1>5, <1>6, <1>7 DEF Continue

\* The consumption of a token makes one run owed, on the token alone.
LEMMA ValidateLives ==
  ASSUME TypeOK, GInv, NEW s \in Slots, Validate(s), Honoured(s), NEW t \in Tokens
  PROVE  LifeStep(t)
<1>1. job[s] \in Jobs /\ job[s].token \in Tokens /\ UNCHANGED runs
  BY DEF Validate, At, TypeOK, GInv, Presented
<1>2. /\ job'[s].at = "auditing" /\ job'[s].event = <<"consumed", "tool">> /\ job'[s].token = job[s].token
      /\ \A r \in Slots \ {s} : job'[r] = job[r]
  BY <1>1 DEF Validate, Audit, TypeOK, Jobs
<1>3. CASE t = job[s].token
  <2>1. grant[t].phase = "granted" /\ grant'[t].phase = "spent"
    BY <1>1, <1>3 DEF Honoured, Validate, Spend, TypeOK
  <2>2. s \in Owing(t)'
    BY <1>2, <1>3 DEF Owing, At
  <2> QED BY <1>1, <2>1, <2>2 DEF LifeStep, Phase
<1>4. CASE t # job[s].token
  <2>1. grant'[t] = grant[t]
    BY <1>1, <1>4 DEF Validate, Spend, TypeOK
  <2>2. s \notin Owing(t)' /\ \A r \in Slots \ {s} : r \in Owing(t)' => r \in Owing(t)
    BY <1>2, <1>4 DEF Owing, At
  <2>3. Owing(t)' \subseteq Owing(t)
    BY <2>2 DEF Owing
  <2> QED BY <1>1, <2>1, <2>3, DebtDropped
<1> QED BY <1>3, <1>4

\* The run that was owed is the only one, and nothing is owed on the token after.
LEMMA RunLives ==
  ASSUME TypeOK, GInv, NEW s \in Slots, AuditWritten(s), job[s].event[2] = "tool", NEW t \in Tokens
  PROVE  LifeStep(t)
<1>1. job[s].event = Consumed /\ At(s, "auditing") /\ job[s] \in Jobs
  BY DEF AuditWritten, At, GInv, Told, Events, Denials, Consumed, TypeOK
<1>2. job[s].token \in Tokens /\ Who(s) \in Gated
  BY <1>1 DEF GInv, Presented, Pending, Consumed, At, Who
<1>3. s \in Owing(job[s].token)
  BY <1>1, <1>2 DEF Owing, Consumed
<1>4. PICK k : k = [[job[s] EXCEPT !.trail = @ \cup {job[s].event[1]}, !.event = <<>>]
                      EXCEPT !.at = "tool", !.ran = TRUE]
  OBVIOUS
<1>5. k.at = "tool" /\ job' = [job EXCEPT ![s] = k] /\ runs' = [runs EXCEPT ![job[s].token] = @ + 1]
  BY <1>1, <1>2, <1>4 DEF AuditWritten, CallTool, Jobs
<1>6. Owing(t)' \subseteq Owing(t) /\ grant' = grant /\ s \notin Owing(t)'
  <2>1. Owing(t)' \subseteq Owing(t)
    BY <1>5, NothingOwed DEF Pending
  <2>2. job'[s].at = "tool"
    BY <1>5 DEF TypeOK
  <2> QED BY <2>1, <2>2 DEF AuditWritten, Owing, At
<1>7. CASE t = job[s].token
  <2>1. Owing(t) = {s} /\ grant[t].phase = "spent"
    BY <1>3, <1>7 DEF GInv, Paid
  <2>2. Owing(t)' = {}
    BY <1>6, <2>1
  <2>3. runs'[t] = runs[t] + 1
    BY <1>5, <1>7 DEF TypeOK
  <2> QED BY <1>6, <2>1, <2>2, <2>3 DEF LifeStep, Phase
<1>8. CASE t # job[s].token
  <2>1. runs'[t] = runs[t]
    BY <1>5, <1>8 DEF TypeOK
  <2> QED BY <1>6, <2>1, DebtDropped
<1> QED BY <1>7, <1>8

LEMMA StepLives == TypeOK /\ GInv /\ [Next]_vars => \A t \in Tokens : LifeStep(t)
<1> SUFFICES ASSUME TypeOK, GInv, [Next]_vars, NEW t \in Tokens PROVE LifeStep(t)
  OBVIOUS
<1>1. ASSUME UNCHANGED job PROVE Owing(t)' = Owing(t)
  BY <1>1 DEF Owing, At
<1>2. CASE UNCHANGED vars \/ Administer
  BY <1>1, <1>2, DebtDropped DEF vars, Administer
<1>3. ASSUME NEW u \in Tokens, Grant(u) \/ Close(u) PROVE LifeStep(t)
  <2>1. UNCHANGED <<job, runs>> /\ Owing(t)' = Owing(t)
    BY <1>1, <1>3 DEF Grant, Close
  <2>2. CASE t = u
    <3>1. \/ grant[t].phase = "waiting" /\ grant'[t].phase \in {"granted", "closed"}
          \/ grant[t].phase = "granted" /\ grant'[t].phase = "closed"
      BY <1>3, <2>2 DEF Grant, Close, TypeOK
    <3> QED BY <2>1, <3>1, GrantMoves
  <2>3. CASE t # u
    <3>1. grant'[t] = grant[t]
      BY <1>3, <2>3 DEF Grant, Close, TypeOK
    <3> QED BY <2>1, <3>1, DebtDropped
  <2> QED BY <2>2, <2>3
<1>4. ASSUME NEW s \in Slots, Arrive(s) \/ Continue(s),
             ~(Validate(s) /\ Honoured(s)), ~(AuditWritten(s) /\ job[s].event[2] = "tool")
      PROVE  LifeStep(t)
  <2>1. Owing(t)' \subseteq Owing(t) /\ UNCHANGED runs
    BY <1>4, SlotOwesNothing
  <2>2. \/ grant'[t] = grant[t]
        \/ grant[t].phase = "none" /\ grant'[t].phase = "waiting"
        \/ grant[t].phase = "granted" /\ grant'[t].phase = "spent"
    <3>1. CASE RequestApproval(s)
      BY <3>1 DEF RequestApproval, TypeOK
    <3>2. CASE StoreFails(s)
      <4>1. UNCHANGED grant \/ (At(s, "validating") /\ Honoured(s) /\ Spend(s))
        BY <3>2 DEF StoreFails
      <4>2. At(s, "validating") => job[s].token \in Tokens
        BY DEF GInv, Presented, At
      <4> QED BY <4>1, <4>2 DEF Honoured, Spend, TypeOK
    <3>3. CASE ~RequestApproval(s) /\ ~StoreFails(s)
      <4>1. CASE Arrive(s)
        BY <4>1, Arrival
      <4>2. CASE Continue(s)
        BY <1>4, <3>3, <4>2 DEF Continue, Admit, Flagged, NoPolicy, PartyFails, Decide, Validate, AuditWritten, AuditFails,
           ToolFails, OutputDenied, ToolReturns
      <4> QED BY <1>4, <4>1, <4>2
    <3> QED BY <3>1, <3>2, <3>3
  <2> QED BY <2>1, <2>2, DebtDropped, GrantMoves
<1> QED BY <1>2, <1>3, <1>4, ValidateLives, RunLives DEF Next

\* With the tool as what uses a token, the gateway keeps the promise of an approval store
\* end to end: a run of a gated tool is the one use of a granted token, and a store or an
\* audit log that fails between the consumption and the run closes it unused (422-474).
THEOREM RunsAreUses == Spec => Lifecycle!Spec
<1> DEFINE ph == [t \in Tokens |-> Phase(t)]
<1>1. Init => Lifecycle!Init
  <2> SUFFICES ASSUME Init PROVE Lifecycle!Init
    OBVIOUS
  <2>1. ASSUME NEW t \in Tokens PROVE Phase(t) = "none"
    <3>1. grant[t].phase = "none"
      BY DEF Init, NoGrant
    <3> QED BY <3>1 DEF Phase
  <2> QED BY <2>1 DEF Init, Lifecycle!Init
<1>2. ASSUME IInv, IInv', [Next]_vars PROVE [Lifecycle!Next]_(Lifecycle!vars)
  <2>1. \A t \in Tokens :
          ph[t] = Phase(t) /\ ph'[t] = Phase(t)' /\ Phase(t)' \in Lifecycle!Phases
    BY <1>2 DEF Lifecycle!Phases, Phase, IInv, TypeOK
  <2>2. ph' \in [Tokens -> Lifecycle!Phases] /\ runs' \in [Tokens -> Nat]
    BY <1>2, <2>1 DEF IInv, TypeOK
  <2> HIDE DEF ph
  <2>3. \A t \in Tokens :
          \/ ph[t] = "none" /\ ph'[t] # "none" /\ runs'[t] = runs[t]
          \/ ph[t] = "waiting" /\ ph'[t] = "granted" /\ runs'[t] = runs[t]
          \/ ph[t] = "granted" /\ ph'[t] = "closed" /\ runs'[t] = runs[t] + 1
          \/ ph[t] \in {"waiting", "granted"} /\ ph'[t] = "closed" /\ runs'[t] = runs[t]
          \/ ph'[t] = ph[t] /\ runs'[t] = runs[t]
    BY <1>2, <2>1, StepLives DEF LifeStep, IInv
  <2> QED BY <2>2, <2>3 DEF ph, Lifecycle!Next, Lifecycle!Learn, Lifecycle!Grant,
             Lifecycle!Use, Lifecycle!Close, Lifecycle!Idle
<1> QED
  BY <1>1, <1>2, SpecIInv, PTL DEF Spec, Lifecycle!Spec
================================================================================
