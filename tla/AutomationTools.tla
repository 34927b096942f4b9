--------------------------- MODULE AutomationTools ------------------------------
(***************************************************************************)
(* The read-only tools of mcp-automation-server/src/server.ts: each passes *)
(* the gateway and answers a function of its arguments. A text is the set  *)
(* of the marks that the handlers look for in it; a mark stands for the    *)
(* words that the code treats alike.  And the actions that a program or    *)
(* the compiled knowledge adds: mcp-automation-server/src/action-          *)
(* registry.ts, and the tools that server.ts (registerDynamicTools,        *)
(* registerAction, registerActionTool) makes of it: a tool keeps the       *)
(* definition it was made from.                                            *)
(***************************************************************************)
EXTENDS Naturals, Sequences

\* refund; charge or invoice; billing; password; login, locked or mfa; account;
\* outage, down, error 500 or breach; personal data that the redactor finds; a
\* promise of money; anything else.
Marks ==
  {"refund", "charge", "billing", "password", "login", "account", "outage", "pii", "promise"}
Texts == SUBSET Marks

\* An address is the set of what detectPlatform and the strategies look for in it; what a
\* strategy looks for contains the name that detectPlatform looks for.
Sites == {"linkedin", "linkedin.com/jobs/", "gupy", "gupy.io", "indeed", "indeed.com"}
Addresses ==
  {names \in SUBSET Sites :
     /\ "linkedin.com/jobs/" \in names => "linkedin" \in names
     /\ "gupy.io" \in names => "gupy" \in names
     /\ "indeed.com" \in names => "indeed" \in names}

\* The first name wins.
DetectPlatform(names) ==
  IF "linkedin" \in names THEN "LinkedIn"
  ELSE IF "gupy" \in names THEN "Gupy"
  ELSE IF "indeed" \in names THEN "Indeed" ELSE "GenericPlatform"

\* The strategy that orchestrate finds for an address.
Strategy(names) ==
  IF "linkedin.com/jobs/" \in names THEN "LinkedIn"
  ELSE IF "gupy.io" \in names THEN "Gupy"
  ELSE IF "indeed.com" \in names THEN "Indeed" ELSE "none"

PreviewApplication(names) ==
  [platform |-> DetectPlatform(names), autonomy |-> "act-with-approval"]

CaptureJobPosting(names, path) ==
  [platform |-> DetectPlatform(names),
   slug |-> IF path = <<>> THEN "general-posting" ELSE path[Len(path)]]

ExtractPlatformMetadata(names, path) ==
  [platform |-> DetectPlatform(names),
   externalId |-> IF path = <<>> THEN "null" ELSE path[Len(path)],
   preview |-> DetectPlatform(names) # "GenericPlatform",
   consent |-> TRUE]

Triage(intent, priority, escalate) ==
  [intent |-> intent, priority |-> priority, requiresEscalation |-> escalate]

\* The first that fits.
ClassifySupportIntent(text) ==
  IF text \cap {"refund", "charge", "billing"} # {} THEN Triage("billing_and_refund", "high", "refund" \in text)
  ELSE IF text \cap {"password", "login"} # {} THEN Triage("account_access", "medium", FALSE)
  ELSE IF "outage" \in text THEN Triage("incident_escalation", "critical", TRUE)
  ELSE Triage("general_inquiry", "low", FALSE)

\* The name of an intent is searched for the words too.
IntentMarks(intent) ==
  CASE intent = "billing_and_refund" -> {"billing", "refund"}
    [] intent = "account_access" -> {"account"}
    [] OTHER -> {}

RetrieveSupportContext(query, intent) ==
  LET q == query \cup IntentMarks(intent) IN
    {"support-tier1-escalation-policy"}
      \cup {p \in {"refund-approval-threshold-policy"} : q \cap {"refund", "billing"} # {}}
      \cup {p \in {"identity-verification-policy"} : q \cap {"password", "account"} # {}}

\* The reply repeats the ticket's name and the summary that it is given, and
\* none of the customer's own words.
DraftSupportReply(customerMessage, contextSummary) == contextSummary

ValidateSupportReply(draft) ==
  LET found == draft \cap {"pii", "promise"} IN [valid |-> found = {}, violations |-> found]

RedactSupportPii(text, mode) ==
  [text |-> IF mode = "detect-only" THEN text ELSE text \ {"pii"},
   findings |-> text \cap {"pii"}]

-----------------------------------------------------------------------------
(* An agent works on a ticket, the answer of each tool is the input of the next; or it
   looks at a posting by the three tools that take its address. *)

CONSTANT ReplyModes

VARIABLE desk   \* where the ticket is, its text, and the answers so far

Empty == [at |-> "new", text |-> {}, intent |-> Triage("general_inquiry", "low", FALSE),
          policies |-> {}, draft |-> {}, findings |-> {}, verdict |-> "none", posting |-> <<>>]

DeskInit == \E text \in Texts : desk = [Empty EXCEPT !.text = text]

LookAtPosting ==
  /\ desk = Empty
  /\ \E names \in Addresses, path \in {<<>>, <<"jobs", "x1">>} :
       desk' = [desk EXCEPT !.at = "looked",
                            !.posting = <<[names |-> names, preview |-> PreviewApplication(names),
                                           capture |-> CaptureJobPosting(names, path),
                                           metadata |-> ExtractPlatformMetadata(names, path)]>>]

Classify ==
  /\ desk.at = "new"
  /\ desk' = [desk EXCEPT !.at = "classified", !.intent = ClassifySupportIntent(desk.text)]

Retrieve ==
  /\ desk.at = "classified"
  /\ desk' = [desk EXCEPT !.at = "retrieved",
                          !.policies = RetrieveSupportContext(desk.text, desk.intent.intent)]

\* The agent sums up what it found, perhaps in the customer's words.
Draft ==
  /\ desk.at = "retrieved"
  /\ \E summary \in SUBSET (desk.text \cap {"pii", "promise"}) :
       desk' = [desk EXCEPT !.at = "drafted", !.draft = DraftSupportReply(desk.text, summary)]

Redact ==
  /\ desk.at = "drafted"
  /\ \E mode \in ReplyModes :
       LET r == RedactSupportPii(desk.draft, mode) IN
         desk' = [desk EXCEPT !.at = "redacted", !.draft = r.text, !.findings = r.findings]

Validate ==
  /\ desk.at = "redacted"
  /\ desk' = [desk EXCEPT !.at = "validated",
                          !.verdict = IF ValidateSupportReply(desk.draft).valid
                                      THEN "valid" ELSE "invalid"]

DeskNext == LookAtPosting \/ Classify \/ Retrieve \/ Draft \/ Redact \/ Validate

-----------------------------------------------------------------------------
(* Properties *)

\* What a strategy can apply to is offered the automated preview.  (The converse is not so:
\* the strategies look for more of an address than detectPlatform does, and in an address
\* with two names they may find the other one.)
AppliedIsPreviewed ==
  desk.at = "looked" /\ Strategy(desk.posting[1].names) # "none" => desk.posting[1].metadata.preview

\* A ticket that the first tool calls a matter of money or of identity is
\* grounded by the second in the policy for it, whatever words the customer used.
IntentIsGrounded ==
  desk.at = "retrieved" =>
    /\ desk.intent.intent = "billing_and_refund" =>
         "refund-approval-threshold-policy" \in desk.policies
    /\ desk.intent.intent = "account_access" =>
         "identity-verification-policy" \in desk.policies

\* Who asks for his money back is always escalated, whatever else he writes.
RefundIsEscalated ==
  desk.at = "classified" /\ "refund" \in desk.text => desk.intent.requiresEscalation

\* A reply that is called valid holds no personal data in any mode of the
\* redactor, the mode that only detects included.
ValidReplyIsClean ==
  desk.at = "validated" /\ desk.verdict = "valid" => "pii" \notin desk.draft

-----------------------------------------------------------------------------
CONSTANTS
  Ids,       \* names of actions and of tools
  BuiltIn,   \* those of the tools that registerTools makes
  Handlers   \* handlers that a program may register

RegistryAssumption == BuiltIn \subseteq Ids /\ {"none", "simulated"} \cap Handlers = {}

VARIABLES
  actions,   \* actions[id]: the definition in the registry
  tools,     \* tools[id]: the definition that the dynamic tool was made from
  reply      \* the last answer of a dynamic tool

registryVars == <<actions, tools, reply>>

Risks == {"low", "critical"}
NoAction == [handler |-> "none", risk |-> "low"]
NoReply == [id |-> "none", outcome |-> "none", answer |-> "none"]

TypeOK ==
  LET Known == [handler : Handlers \cup {"simulated"}, risk : Risks] \cup {NoAction} IN
    actions \in [Ids -> Known] /\ tools \in [Ids -> Known]

RegistryInit ==
  /\ actions = [id \in Ids |-> NoAction]
  /\ tools = [id \in Ids |-> NoAction]
  /\ reply = NoReply

\* The names of the built-in tools and of earlier dynamic tools are passed over.
RegisterActionTool(registry) ==
  tools' = [id \in Ids |-> IF id \in BuiltIn \/ tools[id] # NoAction THEN tools[id] ELSE registry[id]]

\* registerAction: the registry is written over; the tool is made if there is none.
RegisterAction(id, handler, risk) ==
  LET registry == [actions EXCEPT ![id] = [handler |-> handler, risk |-> risk]] IN
    /\ actions' = registry
    /\ RegisterActionTool([other \in Ids |-> IF other = id THEN registry[id] ELSE NoAction])
    /\ UNCHANGED reply

\* A mistaken FromIR: the compiled capability replaces the whole definition.
FromIRReplaces(old, risk) == [handler |-> "simulated", risk |-> risk]

\* A capability of the IR keeps the handler that the name has.
FromIR(old, risk) ==
  [handler |-> IF old.handler = "none" THEN "simulated" ELSE old.handler, risk |-> risk]

\* registerDynamicTools: every capability of kind tool, then a tool for every
\* action of the registry.
RegisterDynamicTools(capabilities) ==
  LET registry == [id \in Ids |-> IF id \in DOMAIN capabilities
                                  THEN FromIR(actions[id], capabilities[id]) ELSE actions[id]]
  IN /\ actions' = registry
     /\ RegisterActionTool(registry)
     /\ UNCHANGED reply

\* What a handler comes to: an ActionResult that says success, one that says not
\* (a violated contract among others), or an exception.
Outcomes == {"success", "unsuccessful", "throws"}

\* The dynamic tool answers createToolSuccess unless the handler throws.
CallTool(id) ==
  /\ tools[id] # NoAction
  /\ \E outcome \in Outcomes :
       reply' = [id |-> id, outcome |-> outcome,
                 answer |-> IF outcome = "throws" THEN "failure" ELSE "success"]
  /\ UNCHANGED <<actions, tools>>

\* ActionRegistry.execute: an unknown action, a violated contract of the input or
\* of the output and an unsuccessful result are all answered as not successful.
Execute(id) ==
  /\ \E outcome \in Outcomes :
       reply' = [id |-> id, outcome |-> outcome,
                 answer |-> IF actions[id] # NoAction /\ outcome = "success"
                            THEN "success" ELSE "failure"]
  /\ UNCHANGED <<actions, tools>>

RegistryNext ==
  \/ \E id \in Ids, handler \in Handlers, risk \in Risks : RegisterAction(id, handler, risk)
  \/ \E some \in SUBSET Ids : \E capabilities \in [some -> Risks] : RegisterDynamicTools(capabilities)
  \/ \E id \in Ids : CallTool(id) \/ Execute(id)

-----------------------------------------------------------------------------
(* Properties *)

\* No compiled capability, in whatever order the IR and the program's own actions
\* come, takes the name of a built-in tool: preparing and confirming stay theirs.
BuiltInsStay == \A id \in BuiltIn : tools[id] = NoAction

\* A handler that a program registered is never replaced by the simulation of a
\* capability that the IR names alike.
HandlerIsKept ==
  [][\A id \in Ids : actions[id].handler \in Handlers => actions'[id].handler \in Handlers]_registryVars

\* A tool runs the handler that the registry has for its name.  (It does not: the
\* IR is registered first, in the constructor, and the handler comes too late.)
ToolRunsHandler == \A id \in Ids \ BuiltIn : tools[id].handler = actions[id].handler

=================================================================================
