---------------------------- MODULE DashboardServer ----------------------------
(***************************************************************************)
(* The server of the dashboard (dashboard/server): a window of requests    *)
(* for each client, the check of the form of a request, authentication,    *)
(* and routes that read files or call the tools of the profile and the     *)
(* automation server, which are started one after the other.               *)
(***************************************************************************)
EXTENDS Naturals, FiniteSets

CONSTANTS
  Callers,       \* by x-forwarded-for or address
  Users,
  WindowMs, MaxRequests,
  DemoMode,      \* no secret is configured and DASHBOARD_DEMO_MODE is set
  MaxTime        \* a bound

WindowAssumption == WindowMs \in Nat /\ MaxRequests \in Nat \ {0}

VARIABLES
  clock,
  windows,              \* count and resetAt of each client
  profile, automation,  \* "null", "starting", "connected" or "failed"
  passed,               \* requests that the limiter let pass: who, when, and as which of the window
  forwarded,            \* the last call of a tool: route, identity and what is known of the request
  status                \* of the last request
vars == <<clock, windows, profile, automation, passed, forwarded, status>>

None == "nobody"

\* of: what a route needs; named: whether the user stands in where the body names nobody;
\* default: what stands in for a file that is nowhere.
Route(method, of) == [method |-> method, of |-> of, named |-> FALSE, default |-> FALSE]
Routes ==
  [graph |-> Route("GET", "file"), policies |-> [Route("GET", "file") EXCEPT !.default = TRUE],
   validate |-> Route("POST", "profile"), approvals |-> Route("GET", "automation"),
   approve |-> [Route("POST", "automation") EXCEPT !.named = TRUE],
   revoke |-> Route("POST", "automation")]

NoWindow == [count |-> 0, resetAt |-> 0]
Nobody == [user |-> None, good |-> FALSE]
Bearers == {Nobody} \cup [user : Users, good : BOOLEAN]

Init ==
  /\ clock = 1 /\ windows = [c \in Callers |-> NoWindow]
  /\ profile = "null" /\ automation = "null"
  /\ passed = {} /\ forwarded = {} /\ status = 200

Tick ==
  /\ clock < MaxTime /\ clock' = clock + 1
  /\ UNCHANGED <<windows, profile, automation, passed, forwarded, status>>

\* startMCPClients: a variable is set before its client is connected, and what fails ends
\* the start.
StartMCPClients ==
  /\ \/ profile = "null" /\ profile' = "starting" /\ UNCHANGED automation
     \/ profile = "starting" /\ profile' \in {"connected", "failed"} /\ UNCHANGED automation
     \/ profile = "connected" /\ automation = "null" /\ automation' = "starting" /\ UNCHANGED profile
     \/ automation = "starting" /\ automation' \in {"connected", "failed"} /\ UNCHANGED profile
  /\ UNCHANGED <<clock, windows, passed, forwarded, status>>

\* createRateLimitMiddleware: the window after a request, the same one if it is refused.
Limit(c) ==
  LET w == windows[c]
  IN IF clock > w.resetAt THEN [count |-> 1, resetAt |-> clock + WindowMs]
     ELSE IF w.count >= MaxRequests THEN w
     ELSE [w EXCEPT !.count = @ + 1]

\* createCsrfMiddleware: a safe method, or what a plain form cannot send.
FormPasses(route, json) == Routes[route].method = "GET" \/ json

\* createAuthMiddleware: who the bearer is, if anybody: a user whose token is good, or in
\* demo mode whoever is named.
Identity(bearer) ==
  IF DemoMode THEN {IF bearer = Nobody THEN "anonymous" ELSE bearer.user}
  ELSE IF bearer.good THEN {bearer.user} ELSE {}

\* The first candidate there is, of a build that wrote it or not.
ReadFile(route) ==
  \E file \in {"absent", "good", "bad"} :
    status' = CASE file = "bad" -> 500
                [] file = "absent" /\ ~Routes[route].default -> 404
                [] OTHER -> 200

\* callTool: what is not connected throws.  approve takes the name in the body before
\* that of the user, revoke takes none but that in the body.
CallTool(route, json, bearer, body) ==
  LET client == IF Routes[route].of = "profile" THEN profile ELSE automation
      name == IF body # None \/ ~Routes[route].named THEN {body} ELSE Identity(bearer)
  IN IF client # "connected"
       THEN status' = (IF client = "null" THEN 503 ELSE 500) /\ UNCHANGED forwarded
       ELSE /\ status' \in {200, 500}
            /\ forwarded' =
                 {[route |-> route, as |-> n, known |-> Identity(bearer), json |-> json] : n \in name}

\* express.json(), before the limiter: a body that does not parse counts for no client.
RefuseBody == status' = 400 /\ UNCHANGED <<clock, windows, profile, automation, passed, forwarded>>

\* The middlewares in their order, and the route.
Request(c, route, json, bearer, body) ==
  /\ windows' = [windows EXCEPT ![c] = Limit(c)]
  /\ IF Limit(c) = windows[c]
       THEN status' = 429 /\ UNCHANGED <<passed, forwarded>>
       ELSE /\ passed' = passed \cup {<<c, clock, Limit(c).count>>}
            /\ IF ~FormPasses(route, json) THEN status' = 403 /\ UNCHANGED forwarded
               ELSE IF Identity(bearer) = {} THEN status' = 401 /\ UNCHANGED forwarded
               ELSE IF Routes[route].of = "file" THEN ReadFile(route) /\ UNCHANGED forwarded
               ELSE CallTool(route, json, bearer, body)
  /\ UNCHANGED <<clock, profile, automation>>

Next ==
  \/ Tick \/ StartMCPClients \/ RefuseBody
  \/ \E c \in Callers, r \in DOMAIN Routes, json \in BOOLEAN, b \in Bearers, n \in Users \cup {None} :
       Request(c, r, json, b, n)

-----------------------------------------------------------------------------
(* Properties *)

\* What a client gets through in a window's length.
GotThrough(c, t) == {p \in passed : p[1] = c /\ p[2] \in t .. t + WindowMs}

\* A client gets no more than two windows' worth of requests through in any time of one
\* window's length.
WindowsBound ==
  \A c \in Callers, t \in 0 .. clock : Cardinality(GotThrough(c, t)) <= 2 * MaxRequests

\* A tool is called only for a request in proper form of a known user, and the automation
\* server only once the profile server is connected.
ForwardedWasChecked ==
  /\ \A f \in forwarded : f.known # {} /\ (Routes[f.route].method = "POST" => f.json)
  /\ (\E f \in forwarded : Routes[f.route].of = "automation") => profile = "connected"
================================================================================
