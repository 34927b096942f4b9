---------------------------- MODULE AutomationServer ----------------------------
(***************************************************************************)
(* The tools of mcp-automation-server/src/server.ts over an approval store *)
(* that consumes a token in one step (ApprovalLifecycle), a bundle of      *)
(* career documents, a browser and a job site.  A slot is a call of        *)
(* confirm_application_submission in flight; the calls interleave wherever *)
(* one awaits.  The other tools change something once, after the gateway   *)
(* let them pass: they are one step.                                       *)
(*                                                                         *)
(* Every gated handler is gateway.execute(request, executor) followed by   *)
(* an answer; the gateway here admits, refuses, or, for a tool that the    *)
(* policies gate, draws a token and refuses (the built-in handlers do not  *)
(* hand it the token that would let it pass).                              *)
(***************************************************************************)
EXTENDS Naturals, FiniteSets

CONSTANTS
  Slots, Tokens, NoToken,
  Urls,        \* job postings
  Company,     \* the company of each; the bundle names its record by it and the day
  Platform,    \* whose strategy is the first to support each
  Pages,       \* how many pages the form of each has before its submit button
  Tickets,     \* support actions: ticket, type and reason
  Gated,       \* tools with the obligation require_approval
  MaxEdits     \* bound: edits of the profile documents by their owner

ASSUME AutomationAssumption ==
  /\ NoToken \notin Tokens
  /\ Company \in [Urls -> STRING]
  /\ Platform \in [Urls -> {"LinkedIn", "Gupy", "Indeed", "GenericPlatform"}]
  /\ Pages \in [Urls -> Nat]
  /\ MaxEdits \in Nat
  /\ "none" \notin Urls

VARIABLES
  job,      \* job[s]: the call in slot s
  grant,    \* grant[t]: the approval store's record of token t
  profile,  \* version of the profile documents
  apps,     \* apps[co]: the application record of the day for company co
  clicks,   \* clicks[t]: submit buttons pressed on the strength of token t
  sent,     \* what was submitted: token, url and context
  trail,    \* audit events of the calls that spent a token: tool, token, status
  live      \* AUTOMATION_RUNTIME_MODE is explicit-authorized-live

vars == <<job, grant, profile, apps, clicks, sent, trail, live>>

None == "none"
Companies == {Company[u] : u \in Urls}

\* getCareerContext: the profile documents and the application documents.
Contexts == [profile : 0 .. MaxEdits, apps : [Companies -> Urls \cup {None}]]
NoContext == [profile |-> 0, apps |-> [co \in Companies |-> None]]

\* What a token is bound to: the tool and the hash of its payload.
Bind(tool, what, context) == [tool |-> tool, what |-> what, context |-> context]
NoBinding == Bind(None, None, NoContext)
NoGrant == [state |-> None, binding |-> NoBinding]

Idle == [at |-> "idle", token |-> NoToken, url |-> None, dry |-> TRUE, context |-> NoContext]

Free(s) == job[s] = Idle
At(s, place) == job[s].at = place
Goto(s, place) == job' = [job EXCEPT ![s].at = place]

\* The handler returns, createToolSuccess or createToolFailure: its slot is free.
Return(s) == job' = [job EXCEPT ![s] = Idle]

Init ==
  /\ job = [s \in Slots |-> Idle]
  /\ grant = [t \in Tokens |-> NoGrant]
  /\ profile = 0
  /\ apps = [co \in Companies |-> None]
  /\ clicks = [t \in Tokens |-> 0]
  /\ sent = {}
  /\ trail = {}
  /\ live \in BOOLEAN

-----------------------------------------------------------------------------
(* The gateway *)

\* generateToken: a token nobody has, bound to a tool and a payload.
Draw(binding) ==
  \E t \in Tokens :
    /\ grant[t].state = None
    /\ grant' = [grant EXCEPT ![t] = [state |-> "PENDING", binding |-> binding]]

\* The gateway asks for an approval of a gated tool, and refuses the call.
GatewayAsks ==
  /\ \E tool \in Gated : Draw(Bind(tool, None, NoContext))
  /\ UNCHANGED <<job, profile, apps, clicks, sent, trail, live>>

-----------------------------------------------------------------------------
(* prepare_application and confirm_application_submission *)

Application(u, context) == Bind("confirm_application_submission", u, context)

\* prepare: the token is drawn for the tool that will submit.  What it reads is
\* taken at one moment; a mixture of two moments would match no later context.
Prepare ==
  /\ "prepare_application" \notin Gated
  /\ \E u \in Urls : Draw(Application(u, [profile |-> profile, apps |-> apps]))
  /\ UNCHANGED <<job, profile, apps, clicks, sent, trail, live>>

\* The catch of confirm.  gateway.execute wraps every error of an executor in an
\* MCPGatewayError, so that the reason that it writes is always gateway_blocked
\* and its status blocked.  (Events of calls that had no valid token, which are
\* blocked too, are left out of the trail.)
Fail(s) ==
  /\ Return(s)
  /\ trail' = trail \cup {<<"confirm_application_submission", job[s].token, "blocked">>}

\* A client calls confirm with a token that it has, and any posting; the gateway
\* lets it pass, and getCareerContext reads the profile documents ...
ConfirmStarts(s) ==
  /\ Free(s)
  /\ "confirm_application_submission" \notin Gated
  /\ \E t \in Tokens, u \in Urls, dry \in BOOLEAN :
       /\ grant[t].state # None
       /\ job' = [job EXCEPT ![s] =
                   [at |-> "applications", token |-> t, url |-> u, dry |-> dry,
                    context |-> [NoContext EXCEPT !.profile = profile]]]
  /\ UNCHANGED <<grant, profile, apps, clicks, sent, trail, live>>

\* ... and then the application documents.
ReadApplications(s) ==
  /\ At(s, "applications")
  /\ job' = [job EXCEPT ![s].at = "read", ![s].context.apps = apps]
  /\ UNCHANGED <<grant, profile, apps, clicks, sent, trail, live>>

Valid(t, binding) ==
  LET g == grant[t] IN g.state = "APPROVED" /\ g.binding = binding

\* A mistaken Spend: the token is validated and stays as it is.
SpendNot(s) == UNCHANGED grant

Spend(s) == grant' = [grant EXCEPT ![job[s].token].state = "CONSUMED"]

\* What is looked at after the token is consumed: the runtime mode, the
\* consent, and whether a strategy supports the site.
MayBrowse(s, consent) ==
  /\ live \/ job[s].dry
  /\ consent
  /\ Platform[job[s].url] # "GenericPlatform"

\* The context is hashed again, the token is consumed, and only then is the call
\* refused for any other reason.
Confirm(s) ==
  /\ At(s, "read")
  /\ IF Valid(job[s].token, Application(job[s].url, job[s].context))
     THEN /\ Spend(s)
          /\ \E consent \in BOOLEAN :
               IF MayBrowse(s, consent) THEN Goto(s, "browse") /\ UNCHANGED trail ELSE Fail(s)
     ELSE Return(s) /\ UNCHANGED <<grant, trail>>
  /\ UNCHANGED <<profile, apps, clicks, sent, live>>

\* Each page of a form costs one turn of the wizard's loop, and one more turn must
\* find the submit button.
FilledWithin(u, turns) == Pages[u] + 1 <= turns

LinkedInDialog(u) == FilledWithin(u, 10)
GupyWizard(u) == FilledWithin(u, 5)
IndeedWizard(u) == FilledWithin(u, 6)

\* The strategies' apply up to the submit button, when no page fails.  Only
\* LinkedIn's Easy Apply is automated, and a dry run discards its form.
LinkedInApplies(u, easyApply) == Platform[u] = "LinkedIn" /\ easyApply /\ LinkedInDialog(u)
GupyApplies(u) == Platform[u] = "Gupy" /\ GupyWizard(u)
IndeedApplies(u) == Platform[u] = "Indeed" /\ IndeedWizard(u)

\* orchestrate: the browser is launched and the form filled; a dry run stops there.
Browse(s) ==
  /\ At(s, "browse")
  /\ LET u == job[s].url IN
       \/ /\ GupyApplies(u) \/ IndeedApplies(u) \/ \E easyApply \in BOOLEAN : LinkedInApplies(u, easyApply)
          /\ Goto(s, IF job[s].dry THEN "save" ELSE "submit")
          /\ UNCHANGED trail
       \/ Fail(s)
  /\ UNCHANGED <<grant, profile, apps, clicks, sent, live>>

\* submitButton.click()
Submit(s) ==
  /\ At(s, "submit")
  /\ clicks' = [clicks EXCEPT ![job[s].token] = @ + 1]
  /\ sent' = sent \cup {[token |-> job[s].token, what |-> job[s].url, context |-> job[s].context]}
  /\ Goto(s, "save")
  /\ UNCHANGED <<grant, profile, apps, trail, live>>

\* createApplication, then createDocument: the record of that company and day is
\* written over, whatever it held, by a dry run too.  Or the page or the browser
\* fails after the click, which every strategy turns into success: false, or the
\* document cannot be written.
Save(s) ==
  /\ At(s, "save")
  /\ \/ /\ apps' = [apps EXCEPT ![Company[job[s].url]] = job[s].url]
        /\ Goto(s, "saved")
        /\ UNCHANGED trail
     \/ Fail(s) /\ UNCHANGED apps
  /\ UNCHANGED <<grant, profile, clicks, sent, live>>

\* The index and the log are written, and the event; or the index or the log fails.
Conclude(s) ==
  /\ At(s, "saved")
  /\ \/ /\ Return(s)
        /\ trail' = trail \cup {<<"confirm_application_submission", job[s].token, "success">>}
     \/ Fail(s)
  /\ UNCHANGED <<grant, profile, apps, clicks, sent, live>>

-----------------------------------------------------------------------------
(* approve_pending_token, revoke_approval and the support actions *)

Move(t, from, to) ==
  /\ grant[t].state = from
  /\ grant' = [grant EXCEPT ![t].state = to]
  /\ UNCHANGED <<job, profile, apps, clicks, sent, live>>

ApprovePending(t) ==
  /\ "approve_pending_token" \notin Gated
  /\ Move(t, "PENDING", "APPROVED")
  /\ UNCHANGED trail

\* Only a token that nobody has approved yet can be revoked.
RevokeApproval(t) ==
  /\ "revoke_approval" \notin Gated
  /\ Move(t, "PENDING", "REVOKED")
  /\ UNCHANGED trail

\* The two tools of support approvals never ask the gateway.
SupportAction(x) == Bind("record_support_resolution", x, NoContext)

RequestSupportApproval ==
  /\ \E x \in Tickets : Draw(SupportAction(x))
  /\ UNCHANGED <<job, profile, apps, clicks, sent, trail, live>>

RecordSupportResolution(t) ==
  /\ \E x \in Tickets : Valid(t, SupportAction(x))
  /\ Move(t, "APPROVED", "CONSUMED")
  /\ trail' = trail \cup {<<"record_support_resolution", t, "success">>}

-----------------------------------------------------------------------------
(* Outside the server *)

EditProfile ==
  /\ profile < MaxEdits
  /\ profile' = profile + 1
  /\ UNCHANGED <<job, grant, apps, clicks, sent, trail, live>>

\* The process ends, or the client goes away: the answers are lost; the store,
\* the bundle and the site keep what they have.
Crash ==
  /\ job' = [s \in Slots |-> Idle]
  /\ UNCHANGED <<grant, profile, apps, clicks, sent, trail, live>>

Step(s) ==
  \/ ReadApplications(s) \/ Confirm(s) \/ Browse(s) \/ Submit(s) \/ Save(s) \/ Conclude(s)

Next ==
  \/ \E s \in Slots : ConfirmStarts(s) \/ Step(s)
  \/ \E t \in Tokens : ApprovePending(t) \/ RevokeApproval(t) \/ RecordSupportResolution(t)
  \/ GatewayAsks \/ Prepare \/ RequestSupportApproval \/ EditProfile \/ Crash

Spec == Init /\ [][Next]_vars

-----------------------------------------------------------------------------
(* Properties *)

TypeOK ==
  /\ \A s \in Slots : job[s].context \in Contexts
  /\ \A t \in Tokens :
       /\ grant[t].state \in {None, "PENDING", "APPROVED", "CONSUMED", "REVOKED"}
       /\ grant[t].binding.context \in Contexts
       /\ clicks[t] \in Nat
  /\ profile \in 0 .. MaxEdits
  /\ apps \in [Companies -> Urls \cup {None}]
  /\ live \in BOOLEAN

\* What is submitted to a job site is the posting, with the candidate's context,
\* that was prepared under the token that a human approved, whatever was edited,
\* submitted or recorded between prepare and confirm; and only in live mode.
SubmittedAsApproved ==
  \A e \in sent :
    /\ grant[e.token].binding = Application(e.what, e.context)
    /\ live

\* One approval submits at most one application, over crashes, dry runs and
\* failures after the click.
OneSubmissionPerApproval ==
  \A t \in Tokens : clicks[t] <= 1 /\ (clicks[t] = 1 => grant[t].state = "CONSUMED")

\* The audit trail says success of a call only under a token that was spent by
\* it: a support resolution that nobody approved, or a confirmation that was
\* refused, is never recorded as one that succeeded.
SuccessWasApproved ==
  \A t \in Tokens, tool \in {"confirm_application_submission", "record_support_resolution"} :
    <<tool, t, "success">> \in trail =>
      grant[t].state = "CONSUMED" /\ grant[t].binding.tool = tool

\* A confirmation that is answered as registered left a record of the company in
\* the bundle.
ConfirmedIsRecorded ==
  \A t \in Tokens :
    <<"confirm_application_submission", t, "success">> \in trail =>
      apps[Company[grant[t].binding.what]] # None

\* What is sent is what a human approved, once, and what is said of it is true: the
\* confirmations of confirm_application_submission and the resolutions of tickets.
SubmissionsAreApproved ==
  /\ TypeOK /\ SubmittedAsApproved /\ OneSubmissionPerApproval /\ SuccessWasApproved
  /\ ConfirmedIsRecorded

=================================================================================
