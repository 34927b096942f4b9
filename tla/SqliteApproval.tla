---------------------------- MODULE SqliteApproval ----------------------------
(***************************************************************************)
(* ApprovalStore (mcp-automation-server/src/approval/approval-store.ts):   *)
(* approval tokens in a SQLite file.  A call is synchronous, so a process  *)
(* makes one at a time; but each SQL statement is a transaction of its     *)
(* own, and the statements of the processes that opened the same file (the *)
(* default path is the bundle's, and a stdio client spawns its own server) *)
(* interleave.  A process can die, or a statement fail, between two.       *)
(*                                                                         *)
(* Left out: audit_logs, which no decision reads, and the calls that are   *)
(* refused after their SELECT, which change nothing further.               *)
(***************************************************************************)
EXTENDS Integers

CONSTANTS
  Processes,  \* server processes that opened the file
  Tokens,
  TTL,        \* ttlMs
  MaxTime     \* bound: the clock stops here

ASSUME ConstantsAssumption ==
  /\ TTL \in Nat
  /\ MaxTime \in Nat

VARIABLES
  status,     \* status[t]: that of the row of t, or "absent"
  expiresAt,  \* expiresAt[t]; Unborn until t is generated
  call,       \* call[p]: the next statement of p's call, its token, its now
  clock,
  uses        \* uses[t]: how often validateAndConsume answered true

vars == <<status, expiresAt, call, clock, uses>>

Statuses == {"PENDING", "APPROVED", "CONSUMED", "REVOKED"}

Unborn == -1

Idle == [next |-> "none"]

Free(p) == call[p] = Idle

At(p, statement) == call[p].next = statement

Go(p, c) == call' = [call EXCEPT ![p] = c]

\* A caller knows t: generateToken returned it.
Handed(t) == expiresAt[t] # Unborn

Init ==
  /\ status = [t \in Tokens |-> "absent"]
  /\ expiresAt = [t \in Tokens |-> Unborn]
  /\ call = [p \in Processes |-> Idle]
  /\ clock = 0
  /\ uses = [t \in Tokens |-> 0]

-----------------------------------------------------------------------------
(* The statements *)

\* A mistaken Update that writes the row back whether or not it is there.
UpdateOrInsert(t, to) == status' = [status EXCEPT ![t] = to]

\* UPDATE ... WHERE token = t: no row, no effect.
Update(t, to) ==
  status' = [status EXCEPT ![t] = IF @ = "absent" THEN @ ELSE to]

\* A mistaken sweep, of rows that expired one tick ago.
SweepLate ==
  status' = [t \in Tokens |-> IF expiresAt[t] + 1 < clock THEN "absent" ELSE status[t]]

\* DELETE FROM pending_approvals WHERE expiresAt < now
Sweep ==
  status' = [t \in Tokens |-> IF expiresAt[t] < clock THEN "absent" ELSE status[t]]

-----------------------------------------------------------------------------
(* The calls *)

\* A mistaken GenerateToken: the row has no expiry.
GenerateTokenNoExpiry(p, t) ==
  /\ Free(p)
  /\ ~Handed(t)
  /\ status' = [status EXCEPT ![t] = "PENDING"]
  /\ UNCHANGED <<expiresAt, call, clock, uses>>

\* generateToken, one INSERT.
GenerateToken(p, t) ==
  /\ Free(p)
  /\ ~Handed(t)
  /\ status' = [status EXCEPT ![t] = "PENDING"]
  /\ expiresAt' = [expiresAt EXCEPT ![t] = clock + TTL]
  /\ UNCHANGED <<call, clock, uses>>

\* getPendingApprovals; its SELECT changes nothing.
GetPendingApprovals(p) ==
  /\ Free(p)
  /\ Sweep
  /\ UNCHANGED <<expiresAt, call, clock, uses>>

\* validateAndConsume: DELETE of the expired, SELECT, UPDATE.
ConsumeSweep(p, t) ==
  /\ Free(p)
  /\ Handed(t)
  /\ Sweep
  /\ Go(p, [next |-> "consumeSelect", tok |-> t, now |-> clock])
  /\ UNCHANGED <<expiresAt, clock, uses>>

ConsumeSelect(p) ==
  /\ At(p, "consumeSelect")
  /\ Go(p, IF status[call[p].tok] = "APPROVED"
           THEN [call[p] EXCEPT !.next = "consumeUpdate"]
           ELSE Idle)
  /\ UNCHANGED <<status, expiresAt, clock, uses>>

ConsumeUpdate(p) ==
  /\ At(p, "consumeUpdate")
  /\ Update(call[p].tok, "CONSUMED")
  /\ uses' = [uses EXCEPT ![call[p].tok] = @ + 1]
  /\ Go(p, Idle)
  /\ UNCHANGED <<expiresAt, clock>>

\* approveToken: SELECT of a pending row, UPDATE.
ApproveSelect(p, t) ==
  /\ Free(p)
  /\ status[t] = "PENDING"
  /\ Go(p, [next |-> "approveUpdate", tok |-> t, now |-> clock])
  /\ UNCHANGED <<status, expiresAt, clock, uses>>

ApproveUpdate(p) ==
  /\ At(p, "approveUpdate")
  /\ Update(call[p].tok, "APPROVED")
  /\ Go(p, Idle)
  /\ UNCHANGED <<expiresAt, clock, uses>>

\* revokeToken: SELECT of a pending row, UPDATE.
RevokeSelect(p, t) ==
  /\ Free(p)
  /\ status[t] = "PENDING"
  /\ Go(p, [next |-> "revokeUpdate", tok |-> t, now |-> clock])
  /\ UNCHANGED <<status, expiresAt, clock, uses>>

RevokeUpdate(p) ==
  /\ At(p, "revokeUpdate")
  /\ Update(call[p].tok, "REVOKED")
  /\ Go(p, Idle)
  /\ UNCHANGED <<expiresAt, clock, uses>>

\* The process dies, or the statement throws, in the middle of a call.
Crash(p) ==
  /\ ~Free(p)
  /\ Go(p, Idle)
  /\ UNCHANGED <<status, expiresAt, clock, uses>>

\* MaxTime bounds the clock.
Tick ==
  /\ clock < MaxTime
  /\ clock' = clock + 1
  /\ UNCHANGED <<status, expiresAt, call, uses>>

Next ==
  \/ Tick
  \/ \E p \in Processes :
       \/ GetPendingApprovals(p) \/ ConsumeSelect(p) \/ ConsumeUpdate(p)
       \/ ApproveUpdate(p) \/ RevokeUpdate(p) \/ Crash(p)
       \/ \E t \in Tokens :
            \/ GenerateToken(p, t) \/ ConsumeSweep(p, t)
            \/ ApproveSelect(p, t) \/ RevokeSelect(p, t)

Spec == Init /\ [][Next]_vars

(***************************************************************************)
(* Properties                                                              *)
(***************************************************************************)

Calls ==
  {Idle} \cup
  [next : {"consumeSelect", "consumeUpdate", "approveUpdate", "revokeUpdate"},
   tok : Tokens, now : 0 .. MaxTime]

\* The types, and: a row is there only after its token was generated.
TypeOK ==
  /\ status \in [Tokens -> Statuses \cup {"absent"}]
  /\ expiresAt \in [Tokens -> Nat \cup {Unborn}]
  /\ call \in [Processes -> Calls]
  /\ clock \in 0 .. MaxTime
  /\ uses \in [Tokens -> Nat]
  /\ \A t \in Tokens : ~Handed(t) => status[t] = "absent"

\* A token is honoured only by a call that began inside its window, whichever
\* process swept and whichever approved it meanwhile: the DELETE at the start
\* of validateAndConsume (lines 118-123) is what enforces expiry.
HonouredInWindow ==
  [][\A p \in Processes, t \in Tokens :
       (At(p, "consumeUpdate") /\ call[p].tok = t /\ uses'[t] > uses[t] /\ call'[p] = Idle)
         => call[p].now <= expiresAt[t]]_vars

\* A deleted row never comes back, although an approval or a revocation that
\* read it may still be on its way.
SweptStaysSwept ==
  [][\A t \in Tokens : Handed(t) /\ status[t] = "absent" => status'[t] = "absent"]_vars

(***************************************************************************)
(* The store seen as an approval lifecycle                                 *)
(***************************************************************************)

Phase(t) ==
  IF status[t] = "PENDING" THEN "waiting"
  ELSE IF status[t] = "APPROVED" THEN "granted"
  ELSE IF Handed(t) THEN "closed" ELSE "none"

Lifecycle == INSTANCE ApprovalLifecycle
  WITH Keys <- Tokens, phase <- [t \in Tokens |-> Phase(t)], uses <- uses

\* A single process keeps the promise of IApprovalStore, through expiry,
\* revocation and failures between its statements.
ImplementsLifecycle == Lifecycle!Spec

==============================================================================
