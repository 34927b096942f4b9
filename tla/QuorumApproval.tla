---------------------------- MODULE QuorumApproval ----------------------------
(***************************************************************************)
(* QuorumApprovalStore (core/src/capabilities/quorum-approval-store.ts):   *)
(* M-of-N approval of a token by distinct humans, kept by one store per    *)
(* cluster and replicated by exporting and merging whole snapshots.        *)
(*                                                                         *)
(* Every method runs to its end without an await, so a method is one       *)
(* action.  What the clusters do between calls is free: snapshots are      *)
(* exported at any time and merged late, twice, in any order or never.     *)
(* All clusters read one clock.                                            *)
(***************************************************************************)
EXTENDS Integers, FiniteSets

CONSTANTS
  Clusters,              \* the stores
  Tokens,                \* the random tokens the stores may draw
  Actors,                \* requesters and approvers
  Bindings,              \* the pairs (capabilityId, payloadHash) of a call
  Risks,                 \* risk levels
  QuorumOf,              \* riskQuorumMap, completed by defaultRequiredApprovals
  DisallowSelfApproval,  \* the option of the same name
  TTL,                   \* defaultTtlMs
  MaxTime,               \* bound: the clock stops here
  MaxSnapshots           \* bound: snapshots ever exported

ASSUME ConstantsAssumption ==
  /\ IsFiniteSet(Actors)
  /\ QuorumOf \in [Risks -> Int]
  /\ DisallowSelfApproval \in BOOLEAN
  /\ TTL \in Nat
  /\ MaxTime \in Nat
  /\ MaxSnapshots \in Nat

VARIABLES
  records,    \* records[c]: the Map from token to record of cluster c
  snapshots,  \* the snapshots exported so far, wherever they travel
  clock,      \* Date.now()
  uses        \* uses[c][t][b]: how often cluster c answered true to
              \* validateAndConsume for token t and call b

vars == <<records, snapshots, clock, uses>>

Statuses == {"PENDING", "APPROVED", "EXPIRED", "CONSUMED", "REVOKED"}

\* The statuses in which a token can never be honoured again.
Terminal == {"EXPIRED", "CONSUMED", "REVOKED"}

Rank ==
  [PENDING |-> 1, APPROVED |-> 2, EXPIRED |-> 3, CONSUMED |-> 4, REVOKED |-> 5]

Vote == [approver : Actors, cluster : Clusters, at : Nat]

Record ==
  [binding : Bindings, requester : Actors, required : Nat \ {0},
   expiresAt : Nat, status : Statuses, votes : SUBSET Vote]

\* A Map from tokens to records.
IsStore(store) ==
  /\ DOMAIN store \subseteq Tokens
  /\ store \in [DOMAIN store -> Record]

\* Map.set
Put(store, t, rec) ==
  [u \in DOMAIN store \cup {t} |-> IF u = t THEN rec ELSE store[u]]

Known(c, t) == t \in DOMAIN records[c]

Voters(votes) == {v.approver : v \in votes}

Expired(rec) == clock > rec.expiresAt

HasQuorum(rec) == Cardinality(rec.votes) >= rec.required

SetStatus(c, t, status) ==
  records' = [records EXCEPT ![c] = Put(@, t, [@[t] EXCEPT !.status = status])]

Init ==
  /\ records = [c \in Clusters |-> [t \in {} |-> 0]]
  /\ snapshots = {}
  /\ clock = 0
  /\ uses = [c \in Clusters |-> [t \in Tokens |-> [b \in Bindings |-> 0]]]

-----------------------------------------------------------------------------
(* The methods of the store *)

\* Mistake: no floor of one under a configured quorum of zero.
RequiredApprovalsUnfloored(risk) == QuorumOf[risk]

RequiredApprovals(risk) == IF QuorumOf[risk] < 1 THEN 1 ELSE QuorumOf[risk]

\* Mistake: a token that depends on nothing random, drawn by two clusters.
GenerateTokenTwice(c, t, b, risk, a) ==
  /\ ~Known(c, t)
  /\ records' = [records EXCEPT ![c] = Put(@, t,
       [binding |-> b, requester |-> a, required |-> RequiredApprovals(risk),
        expiresAt |-> clock + TTL, status |-> "PENDING", votes |-> {}])]
  /\ UNCHANGED <<snapshots, clock, uses>>

\* The token is 16 random bytes hashed: no cluster has drawn it before.
GenerateToken(c, t, b, risk, a) ==
  /\ \A d \in Clusters : ~Known(d, t)
  /\ records' = [records EXCEPT ![c] = Put(@, t,
       [binding |-> b, requester |-> a, required |-> RequiredApprovals(risk),
        expiresAt |-> clock + TTL, status |-> "PENDING", votes |-> {}])]
  /\ UNCHANGED <<snapshots, clock, uses>>

\* Listing the pending tokens expires the late ones as it goes.
GetPendingApprovals(c) ==
  /\ records' = [records EXCEPT ![c] = [t \in DOMAIN @ |->
       IF @[t].status = "PENDING" /\ Expired(@[t])
       THEN [@[t] EXCEPT !.status = "EXPIRED"] ELSE @[t]]]
  /\ UNCHANGED <<snapshots, clock, uses>>

\* A late call expires a pending token ...
ApproveTooLate(c, t) ==
  /\ Known(c, t)
  /\ records[c][t].status = "PENDING"
  /\ Expired(records[c][t])
  /\ SetStatus(c, t, "EXPIRED")
  /\ UNCHANGED <<snapshots, clock, uses>>

\* Mistake: the same approver counted again.
AddVoteAgain(rec, c, a) ==
  LET votes == rec.votes \cup {[approver |-> a, cluster |-> c, at |-> clock]}
  IN  [rec EXCEPT !.votes = votes,
                  !.status = IF Cardinality(votes) >= rec.required
                             THEN "APPROVED" ELSE @]

\* The record after a's vote: one vote an approver, approved at the quorum.
AddVote(rec, c, a) ==
  LET votes == IF a \in Voters(rec.votes) THEN rec.votes
               ELSE rec.votes \cup {[approver |-> a, cluster |-> c, at |-> clock]}
  IN  [rec EXCEPT !.votes = votes,
                  !.status = IF Cardinality(votes) >= rec.required
                             THEN "APPROVED" ELSE @]

\* Mistake: a vote accepted whatever the status.
ApproveTokenAnyStatus(c, t, a) ==
  /\ Known(c, t)
  /\ ~(DisallowSelfApproval /\ a = records[c][t].requester)
  /\ records' = [records EXCEPT ![c] = Put(@, t, AddVote(@[t], c, a))]
  /\ UNCHANGED <<snapshots, clock, uses>>

\* ... any other call that is not refused counts the vote.
ApproveToken(c, t, a) ==
  /\ Known(c, t)
  /\ LET rec == records[c][t] IN
       /\ ~(rec.status = "PENDING" /\ Expired(rec))
       /\ rec.status \in {"PENDING", "APPROVED"}
       /\ ~(DisallowSelfApproval /\ a = rec.requester)
       /\ records' = [records EXCEPT ![c] = Put(@, t, AddVote(rec, c, a))]
  /\ UNCHANGED <<snapshots, clock, uses>>

\* validateAndConsume overwrites the status of a late token, whatever it is.
ValidateTooLate(c, t) ==
  /\ Known(c, t)
  /\ Expired(records[c][t])
  /\ SetStatus(c, t, "EXPIRED")
  /\ UNCHANGED <<snapshots, clock, uses>>

\* Mistake: the token is honoured and left approved.
ValidateOnly(c, t, b) ==
  /\ Known(c, t)
  /\ ~Expired(records[c][t])
  /\ records[c][t].status = "APPROVED"
  /\ HasQuorum(records[c][t])
  /\ records[c][t].binding = b
  /\ uses' = [uses EXCEPT ![c][t][b] = @ + 1]
  /\ UNCHANGED <<records, snapshots, clock>>

\* validateAndConsume answers true.
ValidateAndConsume(c, t, b) ==
  /\ Known(c, t)
  /\ LET rec == records[c][t] IN
       /\ ~Expired(rec)
       /\ rec.status = "APPROVED"
       /\ HasQuorum(rec)
       /\ rec.binding = b
  /\ SetStatus(c, t, "CONSUMED")
  /\ uses' = [uses EXCEPT ![c][t][b] = @ + 1]
  /\ UNCHANGED <<snapshots, clock>>

RevokeToken(c, t) ==
  /\ Known(c, t)
  /\ records[c][t].status # "CONSUMED"
  /\ SetStatus(c, t, "REVOKED")
  /\ UNCHANGED <<snapshots, clock, uses>>

-----------------------------------------------------------------------------
(* Replication *)

\* Bound: at most MaxSnapshots different snapshots.
ExportStateSnapshot(c) ==
  /\ Cardinality(snapshots) < MaxSnapshots
  /\ snapshots' = snapshots \cup {records[c]}
  /\ UNCHANGED <<records, clock, uses>>

\* Mistake: the remote votes replace the local ones.
MergeVotesReplace(local, remote) == remote

\* One vote an approver: the remote one where it is the only one or earlier.
MergeVotes(local, remote) ==
  LET taken == {r \in remote :
                  \A l \in local : l.approver = r.approver => r.at < l.at}
  IN  taken \cup {l \in local : l.approver \notin Voters(taken)}

\* Mistake: the last writer wins.
JoinStatusLastWriter(local, remote) == remote

\* Mistake: only a pending status is joined.
JoinStatusPendingOnly(local, remote) ==
  IF local = "PENDING" THEN remote ELSE local

JoinStatus(local, remote) ==
  IF Rank[remote] > Rank[local] THEN remote ELSE local

MergeRecord(local, remote) ==
  LET votes == MergeVotes(local.votes, remote.votes)
      joined == JoinStatus(local.status, remote.status)
  IN  [local EXCEPT !.votes = votes,
                    !.status = IF /\ joined = "PENDING"
                                  /\ Cardinality(votes) >= local.required
                               THEN "APPROVED" ELSE joined]

MergeStore(local, remote) ==
  [t \in DOMAIN local \cup DOMAIN remote |->
     IF t \notin DOMAIN local THEN remote[t]
     ELSE IF t \notin DOMAIN remote THEN local[t]
     ELSE MergeRecord(local[t], remote[t])]

MergeRemoteSnapshot(c, s) ==
  /\ records' = [records EXCEPT ![c] = MergeStore(@, s)]
  /\ UNCHANGED <<snapshots, clock, uses>>

\* Time passes; MaxTime bounds it.
Tick ==
  /\ clock < MaxTime
  /\ clock' = clock + 1
  /\ UNCHANGED <<records, snapshots, uses>>

Next ==
  \/ Tick
  \/ \E c \in Clusters :
       \/ GetPendingApprovals(c)
       \/ ExportStateSnapshot(c)
       \/ \E s \in snapshots : MergeRemoteSnapshot(c, s)
       \/ \E t \in Tokens :
            \/ \E b \in Bindings, risk \in Risks, a \in Actors :
                 GenerateToken(c, t, b, risk, a)
            \/ ApproveTooLate(c, t)
            \/ \E a \in Actors : ApproveToken(c, t, a)
            \/ ValidateTooLate(c, t)
            \/ \E b \in Bindings : ValidateAndConsume(c, t, b)
            \/ RevokeToken(c, t)

Spec == Init /\ [][Next]_vars

-----------------------------------------------------------------------------
(* Properties *)

\* Every copy of a store, held by a cluster or on its way to one.
Copies == {records[c] : c \in Clusters} \cup snapshots

TypeOK ==
  /\ records = [c \in Clusters |-> records[c]]
  /\ \A copy \in Copies : IsStore(copy)
  /\ clock \in Nat
  /\ uses \in [Clusters -> [Tokens -> [Bindings -> Nat]]]

SameRequest(r, q) ==
  /\ r.binding = q.binding
  /\ r.requester = q.requester
  /\ r.required = q.required
  /\ r.expiresAt = q.expiresAt

OneVoteEach(votes) == \A v, w \in votes : v.approver = w.approver => v = w

\* M-of-N with distinct approvers, whatever was merged in which order: a token
\* that any copy shows approved or used carries the votes of its quorum, one an
\* approver, none of the requester (approveToken:174-199 and the merge that
\* promotes a token, mergeRemoteSnapshot:320-348).
QuorumBacked ==
  \A copy \in Copies : \A t \in DOMAIN copy :
    LET rec == copy[t] IN
      /\ OneVoteEach(rec.votes)
      /\ DisallowSelfApproval => rec.requester \notin Voters(rec.votes)
      /\ rec.status \in {"APPROVED", "CONSUMED"} => HasQuorum(rec)

\* All copies of a token agree on what was asked for, so a vote replicated to
\* another cluster can never be spent on another call (GenerateToken draws a
\* fresh token; mergeRemoteSnapshot:304-316 copies the request with it).
CopiesAgree ==
  \A x, y \in Copies : \A t \in DOMAIN x \cap DOMAIN y : SameRequest(x[t], y[t])

\* validateAndConsume answers true at most once a cluster, only for the call
\* that the token was requested for, and a token so used is closed there: no
\* merge of an old snapshot reopens it (validateAndConsume:215-252,
\* mergeRemoteSnapshot:336-340).
GrantSound ==
  \A c \in Clusters, t \in Tokens, b \in Bindings :
    uses[c][t][b] > 0 =>
      /\ uses[c][t][b] = 1
      /\ Known(c, t)
      /\ records[c][t].binding = b
      /\ records[c][t].status \in Terminal

\* A cluster never takes a token back from expired, consumed or revoked to a
\* status that can be approved or spent, by any call or merge.
TerminalAbsorbing ==
  [][\A c \in Clusters, t \in Tokens :
       (Known(c, t) /\ records[c][t].status \in Terminal) =>
         (Known(c, t)' /\ records'[c][t].status \in Terminal)]_vars

\* Until a token expires, its status at a cluster only climbs the precedence
\* order of STATUS_PRECEDENCE (33-39), and no vote on it is forgotten.
MonotoneWhileLive ==
  [][\A c \in Clusters, t \in Tokens :
       (Known(c, t) /\ ~Expired(records[c][t])) =>
         /\ Rank[records'[c][t].status] >= Rank[records[c][t].status]
         /\ Voters(records[c][t].votes) \subseteq Voters(records'[c][t].votes)]_vars

\* What the join keeps of a record: its status and who approved it.
Essence(rec) == [status |-> rec.status, approvers |-> Voters(rec.votes)]

\* Merging is a join on status and approvers: the copies of a token that can
\* meet give the same result whichever is local, in whichever order and
\* however often they are merged (289-294).
JoinConverges ==
  \A x, y, z \in Copies : \A t \in DOMAIN x \cap DOMAIN y \cap DOMAIN z :
    LET j(p, q) == MergeRecord(p, q) IN
      /\ Essence(j(x[t], x[t])) = Essence(x[t])
      /\ Essence(j(x[t], y[t])) = Essence(j(y[t], x[t]))
      /\ Essence(j(j(x[t], y[t]), z[t])) = Essence(j(x[t], j(y[t], z[t])))

-----------------------------------------------------------------------------
(* Each store on its own keeps the promise of ApprovalLifecycle. *)

PhaseOf(c, t, b) ==
  IF ~Known(c, t) THEN "none"
  ELSE IF records[c][t].binding # b THEN "none"
  ELSE IF records[c][t].status \in Terminal THEN "closed"
  ELSE IF records[c][t].status = "APPROVED" THEN "granted"
  ELSE "waiting"

Lifecycle == INSTANCE ApprovalLifecycle WITH
  Keys  <- Clusters \X Tokens \X Bindings,
  phase <- [k \in Clusters \X Tokens \X Bindings |-> PhaseOf(k[1], k[2], k[3])],
  uses  <- [k \in Clusters \X Tokens \X Bindings |-> uses[k[1]][k[2]][k[3]]]

\* Every call and every merge of a cluster is a step in the lives of its tokens
\* that IApprovalStore allows, or no step at all.
ImplementsLifecycle == Lifecycle!Spec

==============================================================================
