------------------------- MODULE AutomationAdapters -----------------------------
(***************************************************************************)
(* The governed actions on a cluster (mcp-automation-server/src/adapters/  *)
(* k8s-adapter.ts): restart, scale, roll back and read, within namespaces, *)
(* replica bounds and change windows. Operators change the cluster too.    *)
(* And the dispatch of a signed webhook (webhook-adapter.ts beside it):    *)
(* attempts at one target with growing delays, while requests and replies  *)
(* are lost and the clock goes on. An agent calls the action again if it   *)
(* wants to.                                                               *)
(***************************************************************************)
EXTENDS Integers, Sequences

CONSTANTS
  Namespaces,     \* what a call may name
  WellFormed,     \* those that match SAFE_K8S_NAME_RE
  Allowed,        \* allowedNamespaces
  MaxReplicas,
  MaxRevision     \* a bound: restarts and operators add revisions up to it

VARIABLES
  kube,    \* how the adapter was constructed
  cluster,   \* the deployment of each namespace
  open,      \* isChangeWindowOpen
  actor,     \* who took the last step, and what the adapter was called with
  kubeAnswer
kubeVars == <<kube, cluster, open, actor, kubeAnswer>>

Protected == {"kube-system", "kube-public"}
KubeConfigs == [zero : BOOLEAN, window : BOOLEAN, dry : BOOLEAN, runner : BOOLEAN]
Deployments == [replicas : 0 .. MaxReplicas + 1, revision : 1 .. MaxRevision]

Failure == [success |-> FALSE, mode |-> "none"]
Success(mode) == [success |-> TRUE, mode |-> mode]

KubeInit ==
  /\ kube \in KubeConfigs
  /\ cluster = [n \in Namespaces |-> [replicas |-> 1, revision |-> 1]]
  /\ open = TRUE /\ actor = [who |-> "operator", token |-> FALSE] /\ kubeAnswer = Failure

\* validateNamespaceAndName
Admissible(n) == n \in WellFormed /\ n \notin Protected /\ n \in Allowed

\* checkChangeWindow; any token counts as an approval.
Timely(token) == kube.window => open \/ token

MinReplicas == IF kube.zero THEN 0 ELSE 1

\* executeKubectl: without a runner nothing is done and success is answered; a runner that
\* fails has done it or not.
Execute(n, deployment) ==
  IF ~kube.runner
    THEN /\ kubeAnswer' = Success(IF kube.dry THEN "dry-run" ELSE "simulated")
         /\ UNCHANGED cluster
    ELSE LET effect == IF kube.dry THEN cluster ELSE [cluster EXCEPT ![n] = deployment] IN
           \/ kubeAnswer' = Success(IF kube.dry THEN "dry-run" ELSE "live") /\ cluster' = effect
           \/ kubeAnswer' = Failure /\ cluster' \in {cluster, effect}

Refuse == kubeAnswer' = Failure /\ UNCHANGED cluster
Called(token) == actor' = [who |-> "adapter", token |-> token] /\ UNCHANGED <<kube, open>>

RolloutRestart(n, token) ==
  /\ Called(token) /\ cluster[n].revision < MaxRevision
  /\ IF Admissible(n) /\ Timely(token)
       THEN Execute(n, [cluster[n] EXCEPT !.revision = @ + 1])
       ELSE Refuse

ScaleDeployment(n, replicas, token) ==
  /\ Called(token)
  /\ IF Admissible(n) /\ replicas \in MinReplicas .. MaxReplicas /\ Timely(token)
       THEN Execute(n, [cluster[n] EXCEPT !.replicas = replicas])
       ELSE Refuse

\* rollbackDeployment to an earlier revision, the one before by default.
RollbackDeployment(n, revision, token) ==
  /\ Called(token)
  /\ IF Admissible(n) /\ Timely(token)
       THEN Execute(n, [cluster[n] EXCEPT !.revision = revision])
       ELSE Refuse

\* getPodLogs: not a change, and so neither dry nor bound to a window.
GetPodLogs(n) ==
  /\ Called(FALSE) /\ UNCHANGED cluster
  /\ kubeAnswer' \in IF ~Admissible(n) THEN {Failure}
                ELSE IF kube.runner THEN {Failure, Success("read")} ELSE {Success("simulated")}

\* Operators change the deployments that the adapter works on by their own means, and the
\* window opens and closes.
Operate ==
  /\ actor' = [who |-> "operator", token |-> FALSE]
  /\ \/ \E n \in Allowed \ Protected, d \in Deployments : cluster' = [cluster EXCEPT ![n] = d] /\ UNCHANGED open
     \/ open' = ~open /\ UNCHANGED cluster
  /\ UNCHANGED <<kube, kubeAnswer>>

KubeNext ==
  \/ Operate
  \/ \E n \in Namespaces :
       \/ GetPodLogs(n)
       \/ \E token \in BOOLEAN :
            \/ RolloutRestart(n, token)
            \/ \E r \in -1 .. MaxReplicas + 1 : ScaleDeployment(n, r, token)
            \/ \E v \in 1 .. cluster[n].revision - 1 : RollbackDeployment(n, v, token)

-----------------------------------------------------------------------------
(* Properties *)

\* Whatever operators leave behind, a call changes a deployment only where, when and as
\* far as the adapter was constructed for, and not at all if it runs dry or on nothing.
ChangesAreGoverned ==
  [][actor'.who = "adapter" =>
       /\ kubeAnswer'.mode = "live" => kube.runner /\ ~kube.dry
       /\ \A n \in Namespaces : cluster'[n] # cluster[n] =>
         /\ n \in (WellFormed \cap Allowed) \ Protected /\ kube.runner /\ ~kube.dry
         /\ kube.window /\ ~open => actor'.token
         /\ cluster'[n].replicas # cluster[n].replicas =>
              cluster'[n].replicas \in (IF kube.zero THEN 0 ELSE 1) .. MaxReplicas]_kubeVars

-----------------------------------------------------------------------------
CONSTANTS
  Hosts,          \* kinds of targets
  MaxRetries,
  MaxDispatches   \* a bound: calls of the action

VARIABLES
  hook,      \* allowedHosts, if any, and allowLocalhostForTesting
  now,         \* in units of the base delay
  delivery,    \* deliveryId: the number of the dispatch
  at,          \* where the dispatch is: idle, sending or waiting
  attempt, envelope,
  inbox,       \* what the target got, and how it answered
  answers      \* of the dispatches that ended
hookVars == <<hook, now, delivery, at, attempt, envelope, inbox, answers>>

HookConfigs == [local : BOOLEAN, allowed : {<<>>, <<{"public"}>>}]

\* computeWebhookSignature over timestamp and body, under the one secret.
Signature(body, timestamp) == <<"hmac", body, timestamp>>
Envelope(id) == [id |-> id, timestamp |-> now, signature |-> Signature(id, now)]

\* validateWebhookTargetUrl, by the kind of the host.
ValidTarget(host) ==
  /\ host \notin {"malformed", "ftp", "metadata"}
  /\ host \in {"loopback", "private"} => hook.local
  /\ hook.allowed # <<>> => host \in hook.allowed[1]

HookInit ==
  /\ hook \in HookConfigs
  /\ now = 0 /\ delivery = 0 /\ at = "idle" /\ attempt = 0 /\ envelope = <<>>
  /\ inbox = {} /\ answers = <<>>

Answer(success) ==
  /\ at' = "idle" /\ answers' = Append(answers, success)

\* dispatch up to its first request: the envelope is made and signed once.
Dispatch(host) ==
  /\ at = "idle" /\ delivery < MaxDispatches
  /\ delivery' = delivery + 1 /\ attempt' = 0
  /\ IF ValidTarget(host)
       THEN at' = "sending" /\ envelope' = <<Envelope(delivery')>> /\ UNCHANGED answers
       ELSE Answer("failed") /\ UNCHANGED envelope
  /\ UNCHANGED <<hook, now, inbox>>

\* After an attempt that may be repeated: the delay, or the end.
Again ==
  IF attempt < MaxRetries THEN at' = "waiting" /\ UNCHANGED answers ELSE Answer("failed")

\* One turn of the loop: the target answers 2xx, 4xx or otherwise, or the request or the
\* reply is lost, which fetch reports alike.
Send(reply) ==
  /\ at = "sending"
  /\ inbox' = IF reply = "lost" THEN inbox ELSE inbox \cup {[envelope |-> envelope[1], reply |-> reply]}
  /\ CASE reply = "ok" -> Answer("ok")
       [] reply = "client" -> Answer("failed")
       [] OTHER -> Again
  /\ UNCHANGED <<hook, now, delivery, attempt, envelope>>

Wait ==
  /\ at = "waiting" /\ now' = now + 2 ^ attempt
  /\ at' = "sending" /\ attempt' = attempt + 1
  /\ UNCHANGED <<hook, delivery, envelope, inbox, answers>>

Replies == {"ok", "client", "server", "lost", "silent"}
HookNext ==
  \/ \E h \in Hosts : Dispatch(h)
  \/ \E r \in Replies : Send(r)
  \/ Wait

-----------------------------------------------------------------------------
(* Properties *)

Got(d) == {m \in inbox : m.envelope.id = d}

\* However often a dispatch is repeated, the target gets one envelope, which verifies, so
\* that it can tell a repetition; success was received, and nothing follows a refusal.
RepetitionsAreAlike ==
  \A d \in 1 .. delivery :
    /\ \A m, n \in Got(d) : m.envelope = n.envelope
    /\ \A m \in Got(d) : m.envelope.signature = Signature(m.envelope.id, m.envelope.timestamp)
    /\ d \in DOMAIN answers /\ answers[d] = "ok" => \E m \in Got(d) : m.reply = "ok"
    /\ (\E m \in Got(d) : m.reply = "client") => d \in DOMAIN answers /\ answers[d] = "failed"

=================================================================================
