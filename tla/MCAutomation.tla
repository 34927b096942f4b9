---------------------------- MODULE MCAutomation ----------------------------
(***************************************************************************)
(* The automation server for TLC: two confirmations in flight over two     *)
(* postings of one company and two tokens; or the desk of the support      *)
(* tools; or the registry of dynamic actions; or the actions on a cluster; *)
(* or the dispatch of webhooks.  They share no state, so a behaviour       *)
(* exercises one of them.                                                  *)
(***************************************************************************)
EXTENDS AutomationServer, TLC

CONSTANTS
  ReplyModes, Ids, BuiltIn, Handlers,
  Namespaces, WellFormed, Allowed, MaxReplicas, MaxRevision,
  Hosts, MaxRetries, MaxDispatches

VARIABLES part, desk, actions, tools, reply
VARIABLES kube, cluster, open, actor, kubeAnswer
VARIABLES hook, now, delivery, at, attempt, envelope, inbox, answers

Tool == INSTANCE AutomationTools
Adapter == INSTANCE AutomationAdapters

ASSUME MCAssumption == Tool!RegistryAssumption

MCCompany == [u \in Urls |-> "acme"]
MCPlatform == [u \in Urls |-> IF u = "u1" THEN "LinkedIn" ELSE "Gupy"]
MCPages == [u \in Urls |-> IF u = "u1" THEN 9 ELSE 4]
Symmetry == Permutations(Tokens) \cup Permutations(Slots)

toolVars == <<desk, actions, tools, reply>>
kubeVars == <<kube, cluster, open, actor, kubeAnswer>>
hookVars == <<hook, now, delivery, at, attempt, envelope, inbox, answers>>
others == <<part, toolVars, kubeVars, hookVars>>
mcVars == <<vars, others>>

MCInit ==
  /\ part \in {"server", "desk", "registry", "kubernetes", "webhook"}
  /\ Init
  /\ IF part = "desk" THEN Tool!DeskInit ELSE desk = Tool!Empty
  /\ Tool!RegistryInit
  /\ part # "kubernetes" => kube = [zero |-> FALSE, window |-> FALSE, dry |-> TRUE, runner |-> FALSE]
  /\ Adapter!KubeInit
  /\ part # "webhook" => hook = [local |-> FALSE, allowed |-> <<>>]
  /\ Adapter!HookInit

MCNext ==
  \/ part = "server" /\ Next /\ UNCHANGED others
  \/ part = "desk" /\ Tool!DeskNext /\ UNCHANGED <<vars, part, actions, tools, reply, kubeVars, hookVars>>
  \/ part = "registry" /\ Tool!RegistryNext /\ UNCHANGED <<vars, part, desk, kubeVars, hookVars>>
  \/ part = "kubernetes" /\ Adapter!KubeNext /\ UNCHANGED <<vars, part, toolVars, hookVars>>
  \/ part = "webhook" /\ Adapter!HookNext /\ UNCHANGED <<vars, part, toolVars, kubeVars>>

MCSpec == MCInit /\ [][MCNext]_mcVars

\* What an agent gets by a tool is what the tool was made for: built-in tools and
\* handlers are not replaced (registerActionTool, fromIR), the desk grounds intents,
\* escalates refunds and lets only clean replies pass, a posting that can be applied to can be
\* previewed, a cluster is changed only where and when its adapter may, and a webhook that
\* is repeated is the same webhook.
ToolsAreGoverned ==
  /\ []Tool!BuiltInsStay /\ Tool!HandlerIsKept
  /\ Adapter!ChangesAreGoverned /\ [](part = "webhook" => Adapter!RepetitionsAreAlike)
  /\ [](Tool!IntentIsGrounded /\ Tool!RefundIsEscalated /\ Tool!ValidReplyIsClean
        /\ Tool!AppliedIsPreviewed)
=============================================================================
