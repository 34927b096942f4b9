-------------------------- MODULE ApprovalLifecycle -----------------------------
(***************************************************************************)
(* What every approval store promises its callers, whatever it keeps the   *)
(* tokens in: the interface IApprovalStore of core/src/capabilities/       *)
(* approval-store.ts.  A key is a token held by one store.  The stores of  *)
(* the repository (quorum, SQLite, Redis) are compared with this module    *)
(* by a refinement mapping.                                                *)
(*                                                                         *)
(*   none     the store does not know the token                            *)
(*   waiting  asked for, a human has not granted it yet                    *)
(*   granted  validateAndConsume will honour it                            *)
(*   closed   used, expired or revoked: never honoured again               *)
(***************************************************************************)
EXTENDS Naturals

CONSTANT Keys

VARIABLES
  phase,   \* phase[k]: where the token is in its life
  uses     \* uses[k]: how often validateAndConsume answered true for it

vars == <<phase, uses>>

Phases == {"none", "waiting", "granted", "closed"}

TypeOK ==
  /\ phase \in [Keys -> Phases]
  /\ uses \in [Keys -> Nat]

Init ==
  /\ phase = [k \in Keys |-> "none"]
  /\ uses = [k \in Keys |-> 0]

\* generateToken, or a store that hears of a token of another store, which
\* may have come any way by then.
Learn(k) ==
  /\ phase[k] = "none"
  /\ phase'[k] # "none"
  /\ uses'[k] = uses[k]

\* approveToken, or the replication of the votes that complete a quorum.
Grant(k) ==
  /\ phase[k] = "waiting"
  /\ phase'[k] = "granted"
  /\ uses'[k] = uses[k]

\* validateAndConsume answering true.
Use(k) ==
  /\ phase[k] = "granted"
  /\ phase'[k] = "closed"
  /\ uses'[k] = uses[k] + 1

\* revokeToken, expiry, or hearing that the token was closed elsewhere.
Close(k) ==
  /\ phase[k] \in {"waiting", "granted"}
  /\ phase'[k] = "closed"
  /\ uses'[k] = uses[k]

Idle(k) == phase'[k] = phase[k] /\ uses'[k] = uses[k]

\* One call may move many tokens (a merge, a sweep of expired ones), each by
\* one step of its own life.
Next ==
  /\ phase' \in [Keys -> Phases]
  /\ uses' \in [Keys -> Nat]
  /\ \A k \in Keys : Learn(k) \/ Grant(k) \/ Use(k) \/ Close(k) \/ Idle(k)

Spec == Init /\ [][Next]_vars

(***************************************************************************)
(* Properties                                                              *)
(***************************************************************************)

\* A token is honoured at most once, and one that was honoured is closed: the
\* "single-use" of README.md and docs/security/hitl.md.
SingleUse ==
  \A k \in Keys :
    /\ uses[k] <= 1
    /\ uses[k] = 1 => phase[k] = "closed"

=================================================================================
