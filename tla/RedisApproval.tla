---------------------------- MODULE RedisApproval ----------------------------
(***************************************************************************)
(* RedisApprovalStore (mcp-automation-server/src/approval/redis-store.ts): *)
(* approval tokens in one Redis shared by the calls of any number of       *)
(* server processes.  Redis runs a command atomically and a call awaits    *)
(* each command, so a call is a chain of actions, one per command, and the *)
(* calls interleave between them.  A call can stop at any await: its       *)
(* connection or its process may fail.                                     *)
(*                                                                         *)
(* A call that is refused after its first GET changes nothing and is left  *)
(* out; so is the audit stream, which no decision reads.                   *)
(***************************************************************************)
EXTENDS Integers, FiniteSets

CONSTANTS
  Tokens,
  Requesters,   \* calls of generateToken that may be in flight together
  Approvers,    \* ... of approveToken
  Executors,    \* ... of validateAndConsume
  Admins,       \* ... of revokeToken
  Listers,      \* ... of getPendingApprovals
  NoKey,        \* the reply to a GET of a missing key
  Never,        \* the expiry of a key set without one
  TTL,          \* ttlMs in seconds
  MaxTime       \* bound: the clock stops here

ASSUME ConstantsAssumption ==
  /\ TTL \in Nat \ {0}
  /\ MaxTime \in Nat
  /\ Never \notin Int
  /\ NoKey \notin [status : {"PENDING", "APPROVED"}, expires : Int \cup {Never}]

\* Each call is of one kind.
ASSUME RolesAssumption ==
  /\ Approvers \cap (Requesters \cup Executors \cup Admins \cup Listers) = {}
  /\ Executors \cap (Requesters \cup Admins \cup Listers) = {}
  /\ Requesters \cap (Admins \cup Listers) = {}
  /\ Admins \cap Listers = {}

ASSUME CallsFinite == IsFiniteSet(Approvers) /\ IsFiniteSet(Executors)

Callers == Requesters \cup Approvers \cup Executors \cup Admins \cup Listers

VARIABLES
  db,        \* db[t]: the value and the expiry of the key of token t
  index,     \* the set of tokens at pending:index
  call,      \* call[p]: what call p awaits, the token it is about, the TTL it read
  listing,   \* listing[p]: the tokens a listing call holds
  clock,     \* seconds
  deadline,  \* deadline[t]: expiresAt of the record of t
  taken,     \* taken[t]: how many DELs of validateAndConsume removed the key
  uses,      \* uses[t]: how often validateAndConsume answered true
  writes,    \* writes[t]: how often approveToken wrote t approved
  handed     \* the tokens that generateToken returned

vars == <<db, index, call, listing, clock, deadline, taken, uses, writes, handed>>

Idle == [awaits |-> "nothing"]

Present(t) == db[t] # NoKey

Approved(t) == Present(t) /\ db[t].status = "APPROVED"

Pending(t) == Present(t) /\ db[t].status = "PENDING"

Entry(status, expires) == [status |-> status, expires |-> expires]

Awaits(p, what) == call[p].awaits = what

Go(p, next) == call' = [call EXCEPT ![p] = next]

Init ==
  /\ db = [t \in Tokens |-> NoKey]
  /\ index = {}
  /\ call = [p \in Callers |-> Idle]
  /\ listing = [p \in Listers |-> {}]
  /\ clock = 0
  /\ deadline = [t \in Tokens |-> 0]
  /\ taken = [t \in Tokens |-> 0]
  /\ uses = [t \in Tokens |-> 0]
  /\ writes = [t \in Tokens |-> 0]
  /\ handed = {}

-----------------------------------------------------------------------------
(* generateToken: SETEX, then SADD.  The token is 32 random bytes. *)

\* A mistaken GenerateSetex: the token follows from the request, so a repeated
\* request sets the key again.
GenerateSetexAgain(p, t) ==
  /\ Awaits(p, "nothing")
  /\ deadline' = [deadline EXCEPT ![t] = clock + TTL]
  /\ db' = [db EXCEPT ![t] = Entry("PENDING", clock + TTL)]
  /\ Go(p, [awaits |-> "sadd", tok |-> t])
  /\ UNCHANGED <<index, listing, clock, taken, uses, writes, handed>>

GenerateSetex(p, t) ==
  /\ Awaits(p, "nothing")
  /\ deadline[t] = 0
  /\ deadline' = [deadline EXCEPT ![t] = clock + TTL]
  /\ db' = [db EXCEPT ![t] = Entry("PENDING", clock + TTL)]
  /\ Go(p, [awaits |-> "sadd", tok |-> t])
  /\ UNCHANGED <<index, listing, clock, taken, uses, writes, handed>>

GenerateSadd(p) ==
  /\ Awaits(p, "sadd")
  /\ index' = index \cup {call[p].tok}
  /\ handed' = handed \cup {call[p].tok}
  /\ Go(p, Idle)
  /\ UNCHANGED <<db, listing, clock, deadline, taken, uses, writes>>

-----------------------------------------------------------------------------
(* validateAndConsume: GET, DEL, SREM *)

\* The record is approved and matches the call.
ConsumeGet(p, t) ==
  /\ Awaits(p, "nothing")
  /\ t \in handed
  /\ Approved(t)
  /\ Go(p, [awaits |-> "del", tok |-> t])
  /\ UNCHANGED <<db, index, listing, clock, deadline, taken, uses, writes, handed>>

\* A mistaken ConsumeDel: the count is not looked at.
ConsumeDelUncounted(p) ==
  /\ Awaits(p, "del")
  /\ taken' = [taken EXCEPT ![call[p].tok] = @ + 1]
  /\ db' = [db EXCEPT ![call[p].tok] = NoKey]
  /\ Go(p, [awaits |-> "srem", tok |-> call[p].tok, answer |-> TRUE])
  /\ UNCHANGED <<index, listing, clock, deadline, uses, writes, handed>>

\* The count that DEL returns decides the answer.
ConsumeDel(p) ==
  /\ Awaits(p, "del")
  /\ LET t == call[p].tok IN
       /\ taken' = [taken EXCEPT ![t] = IF Present(t) THEN @ + 1 ELSE @]
       /\ db' = [db EXCEPT ![t] = NoKey]
       /\ Go(p, [awaits |-> "srem", tok |-> t, answer |-> Present(t)])
  /\ UNCHANGED <<index, listing, clock, deadline, uses, writes, handed>>

ConsumeSrem(p) ==
  /\ Awaits(p, "srem")
  /\ LET t == call[p].tok IN
       /\ index' = index \ {t}
       /\ uses' = [uses EXCEPT ![t] = IF call[p].answer THEN @ + 1 ELSE @]
  /\ Go(p, Idle)
  /\ UNCHANGED <<db, listing, clock, deadline, taken, writes, handed>>

-----------------------------------------------------------------------------
(* approveToken: GET, TTL, and SETEX or SET *)

\* A mistaken ApproveGet: a record of any status is approved again.
ApproveGetPresent(p, t) ==
  /\ Awaits(p, "nothing")
  /\ t \in handed
  /\ Present(t)
  /\ Go(p, [awaits |-> "ttl", tok |-> t])
  /\ UNCHANGED <<db, index, listing, clock, deadline, taken, uses, writes, handed>>

ApproveGet(p, t) ==
  /\ Awaits(p, "nothing")
  /\ t \in handed
  /\ Pending(t)
  /\ Go(p, [awaits |-> "ttl", tok |-> t])
  /\ UNCHANGED <<db, index, listing, clock, deadline, taken, uses, writes, handed>>

\* What TTL replies: the remaining time rounded to a second, -1 for a key
\* without expiry, -2 for a missing one.
TtlReplies(t) ==
  IF ~Present(t) THEN {-2}
  ELSE IF db[t].expires = Never THEN {-1}
  ELSE {db[t].expires - clock, db[t].expires - clock - 1}

ApproveTtl(p) ==
  /\ Awaits(p, "ttl")
  /\ \E ttl \in TtlReplies(call[p].tok) :
       Go(p, [awaits |-> "set", tok |-> call[p].tok, ttl |-> ttl])
  /\ UNCHANGED <<db, index, listing, clock, deadline, taken, uses, writes, handed>>

\* A mistaken ApproveSet: the reply to TTL is not looked at.
ApproveSetAnyTtl(p) ==
  /\ Awaits(p, "set")
  /\ LET t == call[p].tok IN
       /\ db' = [db EXCEPT ![t] = Entry("APPROVED", clock + call[p].ttl)]
       /\ writes' = [writes EXCEPT ![t] = @ + 1]
  /\ Go(p, Idle)
  /\ UNCHANGED <<index, listing, clock, deadline, taken, uses, handed>>

\* The record read by the GET is written back approved, over whatever the key
\* holds by now.
ApproveSet(p) ==
  /\ Awaits(p, "set")
  /\ LET t == call[p].tok IN
       /\ db' = [db EXCEPT ![t] = Entry("APPROVED",
                   IF call[p].ttl > 0 THEN clock + call[p].ttl ELSE Never)]
       /\ writes' = [writes EXCEPT ![t] = @ + 1]
  /\ Go(p, Idle)
  /\ UNCHANGED <<index, listing, clock, deadline, taken, uses, handed>>

-----------------------------------------------------------------------------
(* revokeToken: GET, DEL, SREM, whatever the status *)

RevokeGet(p, t) ==
  /\ Awaits(p, "nothing")
  /\ t \in handed
  /\ Present(t)
  /\ Go(p, [awaits |-> "del", tok |-> t])
  /\ UNCHANGED <<db, index, listing, clock, deadline, taken, uses, writes, handed>>

RevokeDel(p) ==
  /\ Awaits(p, "del")
  /\ db' = [db EXCEPT ![call[p].tok] = NoKey]
  /\ Go(p, [awaits |-> "srem", tok |-> call[p].tok])
  /\ UNCHANGED <<index, listing, clock, deadline, taken, uses, writes, handed>>

RevokeSrem(p) ==
  /\ Awaits(p, "srem")
  /\ index' = index \ {call[p].tok}
  /\ Go(p, Idle)
  /\ UNCHANGED <<db, listing, clock, deadline, taken, uses, writes, handed>>

-----------------------------------------------------------------------------
(* getPendingApprovals: SMEMBERS, MGET, and SREM of what is not pending *)

ListSmembers(p) ==
  /\ Awaits(p, "nothing")
  /\ index # {}
  /\ listing' = [listing EXCEPT ![p] = index]
  /\ Go(p, [awaits |-> "mget"])
  /\ UNCHANGED <<db, index, clock, deadline, taken, uses, writes, handed>>

\* A mistaken ListMget: every listed token is dropped.
ListMgetDropsAll(p) ==
  /\ Awaits(p, "mget")
  /\ Go(p, [awaits |-> "srem"])
  /\ UNCHANGED <<db, index, listing, clock, deadline, taken, uses, writes, handed>>

\* What is left in listing is what SREM will drop.
ListMget(p) ==
  /\ Awaits(p, "mget")
  /\ LET stale == {t \in listing[p] : ~Pending(t)} IN
       /\ listing' = [listing EXCEPT ![p] = stale]
       /\ Go(p, IF stale = {} THEN Idle ELSE [awaits |-> "srem"])
  /\ UNCHANGED <<db, index, clock, deadline, taken, uses, writes, handed>>

ListSrem(p) ==
  /\ Awaits(p, "srem")
  /\ index' = index \ listing[p]
  /\ listing' = [listing EXCEPT ![p] = {}]
  /\ Go(p, Idle)
  /\ UNCHANGED <<db, clock, deadline, taken, uses, writes, handed>>

-----------------------------------------------------------------------------
(* The environment *)

\* A call stops at an await and is never resumed; another may take its place.
Crash(p) ==
  /\ ~Awaits(p, "nothing")
  /\ Go(p, Idle)
  /\ listing' = [q \in Listers |-> IF q = p THEN {} ELSE listing[q]]
  /\ UNCHANGED <<db, index, clock, deadline, taken, uses, writes, handed>>

\* Redis drops a key when its time has come.  MaxTime bounds the clock.
Tick ==
  /\ clock < MaxTime
  /\ clock' = clock + 1
  /\ db' = [t \in Tokens |->
              IF Present(t) /\ db[t].expires # Never /\ db[t].expires <= clock + 1
              THEN NoKey ELSE db[t]]
  /\ UNCHANGED <<index, call, listing, deadline, taken, uses, writes, handed>>

Next ==
  \/ Tick
  \/ \E p \in Callers : Crash(p)
  \/ \E p \in Requesters : GenerateSadd(p) \/ \E t \in Tokens : GenerateSetex(p, t)
  \/ \E p \in Executors : ConsumeDel(p) \/ ConsumeSrem(p) \/ \E t \in Tokens : ConsumeGet(p, t)
  \/ \E p \in Approvers : ApproveTtl(p) \/ ApproveSet(p) \/ \E t \in Tokens : ApproveGet(p, t)
  \/ \E p \in Admins : RevokeDel(p) \/ RevokeSrem(p) \/ \E t \in Tokens : RevokeGet(p, t)
  \/ \E p \in Listers : ListSmembers(p) \/ ListMget(p) \/ ListSrem(p)

Spec == Init /\ [][Next]_vars

(***************************************************************************)
(* Properties                                                              *)
(***************************************************************************)

\* approveToken calls that will write token t approved, whatever happens to
\* its key meanwhile.
Writers(t) == {p \in Approvers : call[p].awaits \in {"ttl", "set"} /\ call[p].tok = t}

\* What a call of each kind may await, with what it holds then.
Shapes(p) ==
  {Idle}
  \cup (IF p \in Requesters THEN [awaits : {"sadd"}, tok : Tokens] ELSE {})
  \cup (IF p \in Approvers
        THEN [awaits : {"ttl"}, tok : Tokens] \cup [awaits : {"set"}, tok : Tokens, ttl : Int]
        ELSE {})
  \cup (IF p \in Executors
        THEN [awaits : {"del"}, tok : Tokens] \cup [awaits : {"srem"}, tok : Tokens, answer : BOOLEAN]
        ELSE {})
  \cup (IF p \in Admins THEN [awaits : {"del", "srem"}, tok : Tokens] ELSE {})
  \cup (IF p \in Listers THEN [awaits : {"mget", "srem"}] ELSE {})

\* The types, and: a key that is there was generated and its time, if it has one,
\* is yet to come.
TypeOK ==
  /\ db \in [Tokens -> [status : {"PENDING", "APPROVED"}, expires : Int \cup {Never}] \cup {NoKey}]
  /\ index \subseteq Tokens
  /\ call = [p \in Callers |-> call[p]]
  /\ \A p \in Callers : call[p] \in Shapes(p)
  /\ listing \in [Listers -> SUBSET Tokens]
  /\ clock \in 0 .. MaxTime
  /\ deadline \in [Tokens -> Nat]
  /\ taken \in [Tokens -> Nat]
  /\ uses \in [Tokens -> Nat]
  /\ writes \in [Tokens -> Nat]
  /\ handed \subseteq Tokens
  /\ \A t \in Tokens : Present(t) =>
       deadline[t] # 0 /\ (db[t].expires = Never \/ db[t].expires > clock)

\* validateAndConsume calls whose DEL removed the key of t.
Winners(t) ==
  {p \in Executors : Awaits(p, "srem") /\ call[p].tok = t /\ call[p].answer}

\* Every time a token is honoured was paid for by a write of its own by an
\* approver: validateAndConsume calls that race on one approved record (lines
\* 166-170) have a single winner between them.
ApprovalBackedUse ==
  \A t \in Tokens :
    /\ uses[t] + Cardinality(Winners(t)) <= taken[t]
    /\ taken[t] + (IF Approved(t) THEN 1 ELSE 0) <= writes[t]

\* approveToken writes without a condition (lines 195-200), so a token may be
\* approved again after it was used.  How often is bounded by the calls that
\* overlap: one that starts after the first write does not write.
OverlapBoundsUse ==
  \A t \in Tokens : taken[t] + Cardinality(Writers(t)) <= Cardinality(Approvers)

\* A token that was handed out and waits for approval is found by
\* getPendingApprovals, although a listing removes index entries on what it
\* read two commands earlier (lines 61-88).
PendingIndexed ==
  \A t \in handed : Pending(t) => t \in index

\* Without an approver between its GET and its SETEX, a token whose key is gone
\* (used, revoked or expired) never comes back.
DeadStaysDead ==
  [][\A t \in Tokens :
       (deadline[t] # 0 /\ ~Present(t) /\ Writers(t) = {}) => ~Present(t)']_vars

\* README.md: approval tokens are single-use.
SingleUse == \A t \in Tokens : uses[t] <= 1

(***************************************************************************)
(* The store seen as an approval lifecycle                                 *)
(***************************************************************************)

Phase(t) ==
  IF Pending(t) THEN "waiting"
  ELSE IF Approved(t) THEN "granted"
  ELSE IF deadline[t] = 0 THEN "none" ELSE "closed"

Lifecycle == INSTANCE ApprovalLifecycle
  WITH Keys <- Tokens, phase <- [t \in Tokens |-> Phase(t)], uses <- taken

\* The store keeps the promise of IApprovalStore.  It does when one call of
\* approveToken is in flight at a time, no token is revoked meanwhile and none
\* expires.
ImplementsLifecycle == Lifecycle!Spec

==============================================================================
