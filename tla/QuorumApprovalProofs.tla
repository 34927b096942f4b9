------------------------- MODULE QuorumApprovalProofs -------------------------
(***************************************************************************)
(* Proofs about QuorumApproval: its types, its invariants, the action      *)
(* properties and the refinement of ApprovalLifecycle, for any number of   *)
(* clusters, tokens and approvers, any quorum map, and snapshots merged in *)
(* any order.                                                              *)
(***************************************************************************)
EXTENDS QuorumApproval, FiniteSetTheorems, FunctionTheorems, TLAPS

(* The inductive invariant *)

\* A record that the store can hold: typed, its votes finite and one an
\* approver, its status backed by its quorum, and promoted as soon as it is reached.
GoodRecord(rec) ==
  /\ rec \in Record
  /\ IsFiniteSet(rec.votes)
  /\ OneVoteEach(rec.votes)
  /\ DisallowSelfApproval => rec.requester \notin Voters(rec.votes)
  /\ rec.status \in {"APPROVED", "CONSUMED"} => HasQuorum(rec)
  /\ rec.status = "PENDING" => ~HasQuorum(rec)

GoodStore(store) ==
  /\ DOMAIN store \subseteq Tokens
  /\ store = [t \in DOMAIN store |-> store[t]]
  /\ \A t \in DOMAIN store : GoodRecord(store[t])

Agree(x, y) == \A t \in DOMAIN x \cap DOMAIN y : SameRequest(x[t], y[t])

\* A token in a snapshot is known to a cluster: a token no cluster knows is fresh.
SnapshotsKnown ==
  \A s \in snapshots : \A t \in DOMAIN s : \E c \in Clusters : Known(c, t)

IInv ==
  /\ TypeOK
  /\ \A copy \in Copies : GoodStore(copy)
  /\ \A x, y \in Copies : Agree(x, y)
  /\ SnapshotsKnown
  /\ GrantSound

-----------------------------------------------------------------------------
(* The merge of two sets of votes *)

\* A set of votes with one vote an approver is no larger than any finite set
\* of votes that holds a vote of each of its approvers.
LEMMA VotersCovered ==
  ASSUME NEW S, NEW T, IsFiniteSet(T), OneVoteEach(S),
         \A v \in S : \E w \in T : w.approver = v.approver
  PROVE  Cardinality(S) <= Cardinality(T)
<1> DEFINE f == [v \in S |-> CHOOSE w \in T : w.approver = v.approver]
<1>1. \A v \in S : f[v] \in T /\ f[v].approver = v.approver
  OBVIOUS
<1>2. f \in [S -> T]
  BY <1>1
<1>3. \A a, b \in S : f[a] = f[b] => a = b
  BY <1>1 DEF OneVoteEach
<1>4. f \in Injection(S, T)
  BY <1>2, <1>3, Zenon DEF Injection, IsInjective
<1> HIDE DEF f
<1> QED
  BY <1>4, FS_Injection

\* MergeVotes keeps one vote for each approver of either side, and so is at
\* least as large as each.
LEMMA MergeVotesJoins ==
  ASSUME NEW local, NEW remote, IsFiniteSet(local), IsFiniteSet(remote),
         local \subseteq Vote, remote \subseteq Vote,
         OneVoteEach(local), OneVoteEach(remote)
  PROVE  LET m == MergeVotes(local, remote) IN
           /\ m \subseteq Vote
           /\ IsFiniteSet(m)
           /\ OneVoteEach(m)
           /\ Voters(m) = Voters(local) \cup Voters(remote)
           /\ Cardinality(local) <= Cardinality(m)
           /\ Cardinality(remote) <= Cardinality(m)
<1> DEFINE taken == {r \in remote :
                       \A l \in local : l.approver = r.approver => r.at < l.at}
           kept == {l \in local : l.approver \notin Voters(taken)}
           m == MergeVotes(local, remote)
<1>1. m = taken \cup kept
  BY DEF MergeVotes
<1>2. taken \subseteq remote /\ kept \subseteq local
  OBVIOUS
<1>3. IsFiniteSet(m)
  BY <1>1, <1>2, FS_Subset, FS_Union
<1>4. OneVoteEach(m)
  BY <1>1 DEF OneVoteEach, Voters
<1>5. \A l \in local : \E w \in m : w.approver = l.approver
  BY <1>1 DEF Voters
<1>6. \A r \in remote : \E w \in m : w.approver = r.approver
  <2> SUFFICES ASSUME NEW r \in remote
               PROVE  \E w \in m : w.approver = r.approver
    OBVIOUS
  <2>1. CASE r \in taken
    BY <2>1, <1>1
  <2>2. CASE r \notin taken
    BY <2>2, <1>5
  <2> QED BY <2>1, <2>2
<1>7. Voters(m) = Voters(local) \cup Voters(remote)
  BY <1>1, <1>2, <1>5, <1>6 DEF Voters
<1>8. m \subseteq Vote
  BY <1>1, <1>2
<1>9. Cardinality(local) <= Cardinality(m) /\ Cardinality(remote) <= Cardinality(m)
  BY <1>3, <1>5, <1>6, VotersCovered
<1> QED
  BY <1>3, <1>4, <1>7, <1>8, <1>9

-----------------------------------------------------------------------------
(* Records and stores *)

\* The status st may follow old in a record: nothing closed is reopened and
\* nothing approved is pending again.
Forward(old, st) ==
  /\ old \in Terminal => st \in Terminal
  /\ old = "APPROVED" => st # "PENDING"

\* What replaces a record forgets no vote and, before the token expires, leaves the
\* status no lower.
Climbs(old, new) ==
  /\ Voters(old.votes) \subseteq Voters(new.votes)
  /\ ~Expired(old) => Rank[new.status] >= Rank[old.status]

\* Changing the status of a record to one that claims no quorum keeps it good.
LEMMA GoodWithStatus ==
  ASSUME NEW rec, GoodRecord(rec), NEW st \in Statuses,
         st # "PENDING", st \in {"APPROVED", "CONSUMED"} => HasQuorum(rec)
  PROVE  LET new == [rec EXCEPT !.status = st] IN
           GoodRecord(new) /\ SameRequest(new, rec) /\ new.votes = rec.votes /\ new.status = st
BY DEF GoodRecord, Record, HasQuorum, SameRequest

\* A counted vote of an actor that may vote keeps a record good.
LEMMA GoodWithVote ==
  ASSUME NEW rec, GoodRecord(rec), NEW c \in Clusters, NEW a \in Actors,
         clock \in Nat, rec.status \in {"PENDING", "APPROVED"},
         ~(DisallowSelfApproval /\ a = rec.requester)
  PROVE  LET new == AddVote(rec, c, a) IN
           GoodRecord(new) /\ SameRequest(new, rec) /\ Climbs(rec, new)
<1> DEFINE vote == [approver |-> a, cluster |-> c, at |-> clock]
           votes == IF a \in Voters(rec.votes) THEN rec.votes
                    ELSE rec.votes \cup {vote}
           new == AddVote(rec, c, a)
<1>1. new = [rec EXCEPT !.votes = votes,
                        !.status = IF Cardinality(votes) >= rec.required
                                   THEN "APPROVED" ELSE @]
  BY DEF AddVote
<1>2. votes \subseteq Vote
  BY DEF GoodRecord, Record, Vote
<1>3. IsFiniteSet(votes) /\ Cardinality(rec.votes) <= Cardinality(votes)
  <2>1. IsFiniteSet(rec.votes)
    BY DEF GoodRecord
  <2>2. IsFiniteSet(rec.votes \cup {vote})
    BY <2>1, FS_AddElement
  <2>3. IsFiniteSet(votes) /\ rec.votes \subseteq votes
    BY <2>1, <2>2
  <2> QED BY <2>3, FS_Subset
<1>4. OneVoteEach(votes)
  BY DEF GoodRecord, OneVoteEach, Voters
<1>5. DisallowSelfApproval => rec.requester \notin Voters(votes)
  BY DEF GoodRecord, Voters
<1>6. Cardinality(votes) \in Nat /\ Cardinality(rec.votes) \in Nat
  BY <1>3, FS_CardinalityType DEF GoodRecord
<1>7. new \in Record /\ new.votes = votes /\ SameRequest(new, rec)
  BY <1>1, <1>2 DEF GoodRecord, Record, Statuses, SameRequest
<1>8. new.status \in {"APPROVED", "CONSUMED"} => HasQuorum(new)
  <2>1. new.required = rec.required /\ rec.required \in Nat
    BY <1>7 DEF SameRequest, GoodRecord, Record
  <2>2. CASE Cardinality(votes) >= rec.required
    BY <2>1, <2>2, <1>7 DEF HasQuorum
  <2>3. CASE ~(Cardinality(votes) >= rec.required)
    <3>1. new.status = rec.status
      BY <2>3, <1>1 DEF GoodRecord, Record
    <3>2. ~HasQuorum(rec)
      BY <2>3, <2>1, <1>3, <1>6 DEF HasQuorum
    <3> QED BY <3>1, <3>2 DEF GoodRecord
  <2> QED BY <2>2, <2>3
<1>9. new.requester = rec.requester
  BY <1>7 DEF SameRequest
<1>10. new.status = "PENDING" => ~HasQuorum(new)
  BY <1>1, <1>7 DEF GoodRecord, Record, HasQuorum, SameRequest
<1>11. Climbs(rec, new)
  <2>1. Voters(rec.votes) \subseteq Voters(votes)
    BY DEF Voters
  <2>2. new.status \in {rec.status, "APPROVED"}
    BY <1>1 DEF GoodRecord, Record
  <2>3. Rank[new.status] >= Rank[rec.status]
    BY <2>2 DEF Rank
  <2> QED BY <1>7, <2>1, <2>3 DEF Climbs
<1> QED
  BY <1>3, <1>4, <1>5, <1>7, <1>8, <1>9, <1>10, <1>11 DEF GoodRecord

\* Merging two good records of the same request gives a good record of it,
\* whose status is not behind the local one.
LEMMA GoodMerge ==
  ASSUME NEW l, NEW r, GoodRecord(l), GoodRecord(r), SameRequest(l, r)
  PROVE  LET new == MergeRecord(l, r) IN
           /\ GoodRecord(new)
           /\ SameRequest(new, l)
           /\ Forward(l.status, new.status)
           /\ Climbs(l, new)
<1> DEFINE votes == MergeVotes(l.votes, r.votes)
           joined == JoinStatus(l.status, r.status)
           new == MergeRecord(l, r)
<1>1. /\ votes \subseteq Vote
      /\ IsFiniteSet(votes)
      /\ OneVoteEach(votes)
      /\ Voters(votes) = Voters(l.votes) \cup Voters(r.votes)
      /\ Cardinality(l.votes) <= Cardinality(votes)
      /\ Cardinality(r.votes) <= Cardinality(votes)
  BY MergeVotesJoins DEF GoodRecord, Record
<1>2. new = [l EXCEPT !.votes = votes,
                      !.status = IF joined = "PENDING"
                                    /\ Cardinality(votes) >= l.required
                                 THEN "APPROVED" ELSE joined]
  BY DEF MergeRecord
<1>3. joined \in {l.status, r.status} /\ joined \in Statuses
  BY DEF JoinStatus, GoodRecord, Record
<1>4. /\ new \in Record
      /\ new.votes = votes
      /\ SameRequest(new, l)
      /\ new.status = IF joined = "PENDING" /\ Cardinality(votes) >= l.required
                      THEN "APPROVED" ELSE joined
  BY <1>1, <1>2, <1>3 DEF GoodRecord, Record, Statuses, SameRequest
<1>5. DisallowSelfApproval => new.requester \notin Voters(new.votes)
  BY <1>1, <1>4 DEF GoodRecord, SameRequest
<1>6. new.status \in {"APPROVED", "CONSUMED"} => HasQuorum(new)
  <2>1. /\ Cardinality(votes) \in Nat
        /\ Cardinality(l.votes) \in Nat
        /\ Cardinality(r.votes) \in Nat
    BY <1>1, FS_CardinalityType DEF GoodRecord
  <2>2. /\ new.required = l.required
        /\ r.required = l.required
        /\ l.required \in Nat
    BY <1>4 DEF SameRequest, GoodRecord, Record
  <2>3. HasQuorum(l) \/ HasQuorum(r) => HasQuorum(new)
    BY <1>1, <1>4, <2>1, <2>2 DEF HasQuorum
  <2>4. CASE Cardinality(votes) >= l.required
    BY <2>4, <2>2, <1>4 DEF HasQuorum
  <2>5. CASE ~(Cardinality(votes) >= l.required)
    <3>1. new.status = l.status \/ new.status = r.status
      BY <2>5, <1>3, <1>4
    <3> QED BY <3>1, <2>3 DEF GoodRecord
  <2> QED BY <2>4, <2>5
<1>7. Forward(l.status, new.status)
  BY <1>4 DEF Forward, Terminal, JoinStatus, Rank, GoodRecord, Record, Statuses
<1>8. new.status = "PENDING" => ~HasQuorum(new)
  BY <1>4 DEF HasQuorum, SameRequest
<1>9. Climbs(l, new)
  <2>1. Rank[new.status] >= Rank[l.status]
    BY <1>4 DEF JoinStatus, Rank, GoodRecord, Record, Statuses
  <2> QED BY <1>1, <1>4, <2>1 DEF Climbs
<1> QED
  BY <1>1, <1>4, <1>5, <1>6, <1>7, <1>8, <1>9 DEF GoodRecord

\* Map.set of a good record keeps a store good.
LEMMA GoodPut ==
  ASSUME NEW store, GoodStore(store), NEW t \in Tokens, NEW rec, GoodRecord(rec)
  PROVE  /\ GoodStore(Put(store, t, rec))
         /\ DOMAIN Put(store, t, rec) = DOMAIN store \cup {t}
         /\ Put(store, t, rec)[t] = rec
         /\ \A u \in DOMAIN store : u # t => Put(store, t, rec)[u] = store[u]
BY DEF GoodStore, Put

-----------------------------------------------------------------------------
(* Steps of one store *)

\* The new contents of a store keep its tokens and what was asked for, and
\* move each status forward.
Supersedes(new, old) ==
  /\ DOMAIN old \subseteq DOMAIN new
  /\ \A t \in DOMAIN old :
       /\ SameRequest(new[t], old[t])
       /\ Forward(old[t].status, new[t].status)
       /\ Climbs(old[t], new[t])

\* A record that stays as it is does not fall back.
LEMMA ClimbsItself ==
  ASSUME NEW rec, GoodRecord(rec)
  PROVE  Climbs(rec, rec)
BY DEF Climbs, GoodRecord, Record, Statuses, Rank

\* Cluster c replaces its store by a good one; the copies stay in agreement.
Advance(c, new) ==
  /\ records' = [records EXCEPT ![c] = new]
  /\ UNCHANGED <<snapshots, clock>>
  /\ GoodStore(new)
  /\ Supersedes(new, records[c])
  /\ \A y \in Copies : Agree(new, y)

\* Agreement is symmetric.
LEMMA AgreeSymmetric ==
  ASSUME NEW x, NEW y, Agree(x, y)
  PROVE  Agree(y, x)
BY DEF Agree, SameRequest

\* A good store is a well-typed Map.
LEMMA GoodIsStore ==
  ASSUME NEW store, GoodStore(store)
  PROVE  IsStore(store)
BY DEF GoodStore, GoodRecord, IsStore

\* An advance preserves all of the invariant that does not speak of uses.
LEMMA AdvanceKeeps ==
  ASSUME IInv, NEW c \in Clusters, NEW new, Advance(c, new),
         uses' \in [Clusters -> [Tokens -> [Bindings -> Nat]]], GrantSound'
  PROVE  IInv'
<1>1. /\ records' = [d \in Clusters |-> IF d = c THEN new ELSE records[d]]
      /\ snapshots' = snapshots
      /\ clock' = clock
  BY DEF IInv, TypeOK, Advance
<1>2. Copies' \subseteq Copies \cup {new}
  BY <1>1 DEF Copies
<1>3. \A copy \in Copies' : GoodStore(copy)
  BY <1>2 DEF IInv, Advance
<1>4. \A x, y \in Copies' : Agree(x, y)
  <2>1. Agree(new, new)
    BY DEF Agree, SameRequest
  <2>2. \A y \in Copies : Agree(new, y) /\ Agree(y, new)
    BY AgreeSymmetric DEF Advance
  <2> QED BY <1>2, <2>1, <2>2 DEF IInv
<1>5. TypeOK'
  <2>1. \A copy \in Copies' : IsStore(copy)
    BY <1>3, GoodIsStore
  <2>2. records' = [d \in Clusters |-> records'[d]]
    BY <1>1
  <2>3. clock' \in Nat
    BY <1>1 DEF IInv, TypeOK
  <2> QED BY <2>1, <2>2, <2>3 DEF TypeOK
<1>6. SnapshotsKnown'
  <2> SUFFICES ASSUME NEW s \in snapshots, NEW t \in DOMAIN s
               PROVE  \E d \in Clusters : t \in DOMAIN records'[d]
    BY <1>1 DEF SnapshotsKnown, Known
  <2>1. PICK d \in Clusters : t \in DOMAIN records[d]
    BY DEF IInv, SnapshotsKnown, Known
  <2>2. t \in DOMAIN records'[d]
    BY <1>1, <2>1 DEF Advance, Supersedes
  <2> QED BY <2>2
<1> QED
  BY <1>3, <1>4, <1>5, <1>6 DEF IInv

\* An advance in which validateAndConsume did not answer true.
LEMMA QuietAdvance ==
  ASSUME IInv, NEW c \in Clusters, NEW new, Advance(c, new), uses' = uses
  PROVE  IInv'
<1>1. records' = [d \in Clusters |-> IF d = c THEN new ELSE records[d]]
  BY DEF IInv, TypeOK, Advance
<1>2. GrantSound'
  <2> SUFFICES ASSUME NEW d \in Clusters, NEW t \in Tokens, NEW b \in Bindings,
                      uses[d][t][b] > 0
               PROVE  /\ uses[d][t][b] = 1
                      /\ t \in DOMAIN records'[d]
                      /\ records'[d][t].binding = b
                      /\ records'[d][t].status \in Terminal
    BY DEF GrantSound, Known
  <2>1. /\ uses[d][t][b] = 1
        /\ t \in DOMAIN records[d]
        /\ records[d][t].binding = b
        /\ records[d][t].status \in Terminal
    BY DEF IInv, GrantSound, Known
  <2>2. CASE d = c
    BY <2>1, <2>2, <1>1 DEF Advance, Supersedes, SameRequest, Forward
  <2>3. CASE d # c
    BY <2>1, <2>3, <1>1
  <2> QED BY <2>1, <2>2, <2>3
<1>3. uses' \in [Clusters -> [Tokens -> [Bindings -> Nat]]]
  BY DEF IInv, TypeOK
<1> QED
  BY <1>2, <1>3, AdvanceKeeps

\* Replacing one record by a good one of the same request is an advance.
LEMMA RecordAdvance ==
  ASSUME IInv, NEW c \in Clusters, NEW t \in Tokens, Known(c, t),
         NEW rec, GoodRecord(rec), SameRequest(rec, records[c][t]),
         Forward(records[c][t].status, rec.status), Climbs(records[c][t], rec),
         records' = [records EXCEPT ![c] = Put(@, t, rec)],
         UNCHANGED <<snapshots, clock>>
  PROVE  Advance(c, Put(records[c], t, rec))
<1> DEFINE old == records[c]
           new == Put(old, t, rec)
<1>1. old \in Copies /\ GoodStore(old) /\ t \in DOMAIN old
  BY DEF IInv, Copies, Known
<1>2. /\ GoodStore(new)
      /\ DOMAIN new = DOMAIN old
      /\ new[t] = rec
      /\ \A u \in DOMAIN old : u # t => new[u] = old[u]
  BY <1>1, GoodPut
<1>3. Supersedes(new, old)
  BY <1>1, <1>2, ClimbsItself DEF Supersedes, SameRequest, Forward, Terminal, GoodStore
<1>4. \A y \in Copies : Agree(new, y)
  BY <1>1, <1>2, <1>3 DEF IInv, Agree, Supersedes, SameRequest
<1> QED
  BY <1>2, <1>3, <1>4 DEF Advance

-----------------------------------------------------------------------------
(* The actions *)

\* A step that only writes a status that claims no new quorum.
LEMMA StatusAdvance ==
  ASSUME IInv, NEW c \in Clusters, NEW t \in Tokens, Known(c, t),
         NEW st \in Statuses, SetStatus(c, t, st), UNCHANGED <<snapshots, clock>>,
         st \in Terminal, Expired(records[c][t]) \/ Rank[st] >= Rank[records[c][t].status],
         st = "CONSUMED" => HasQuorum(records[c][t])
  PROVE  /\ Advance(c, Put(records[c], t, [records[c][t] EXCEPT !.status = st]))
         /\ records'[c] = Put(records[c], t, [records[c][t] EXCEPT !.status = st])
<1> DEFINE rec == [records[c][t] EXCEPT !.status = st]
<1>1. GoodRecord(records[c][t])
  BY DEF IInv, Copies, GoodStore, Known
<1>2. GoodRecord(rec) /\ SameRequest(rec, records[c][t])
  BY <1>1, GoodWithStatus DEF Terminal
<1>3. Forward(records[c][t].status, rec.status)
  BY <1>1 DEF GoodRecord, Record, Forward, Terminal
<1>4. records' = [records EXCEPT ![c] = Put(@, t, rec)]
  BY DEF SetStatus
<1>7. Climbs(records[c][t], rec)
  <2>1. rec.status = st /\ rec.votes = records[c][t].votes
    BY <1>1 DEF GoodRecord, Record
  <2> QED BY <2>1 DEF Climbs
<1> HIDE DEF rec
<1>5. Advance(c, Put(records[c], t, rec))
  BY <1>2, <1>3, <1>4, <1>7, RecordAdvance
<1>6. records'[c] = Put(records[c], t, rec)
  BY <1>4 DEF IInv, TypeOK
<1> QED
  BY <1>5, <1>6 DEF rec

LEMMA GenerateAdvance ==
  ASSUME IInv, NEW c \in Clusters, NEW t \in Tokens, NEW b \in Bindings,
         NEW risk \in Risks, NEW a \in Actors, GenerateToken(c, t, b, risk, a)
  PROVE  \E new : Advance(c, new)
<1> DEFINE rec == [binding |-> b, requester |-> a,
                   required |-> RequiredApprovals(risk),
                   expiresAt |-> clock + TTL, status |-> "PENDING", votes |-> {}]
           old == records[c]
           new == Put(old, t, rec)
<1>1. GoodRecord(rec)
  <2>1. RequiredApprovals(risk) \in Nat \ {0}
    BY ConstantsAssumption DEF RequiredApprovals
  <2>2. clock + TTL \in Nat
    BY ConstantsAssumption DEF IInv, TypeOK
  <2>3. rec \in Record
    BY <2>1, <2>2 DEF Record, Statuses
  <2>4. IsFiniteSet({}) /\ Cardinality({}) = 0
    BY FS_EmptySet
  <2>5. ~HasQuorum(rec)
    BY <2>1, <2>4 DEF HasQuorum
  <2> QED BY <2>3, <2>4, <2>5 DEF GoodRecord, OneVoteEach, Voters
<1>2. old \in Copies /\ GoodStore(old)
  BY DEF IInv, Copies
<1>3. \A y \in Copies : t \notin DOMAIN y
  BY DEF IInv, GenerateToken, Copies, SnapshotsKnown, Known
<1> HIDE DEF rec, old
<1>4. /\ GoodStore(new)
      /\ DOMAIN new = DOMAIN old \cup {t}
      /\ \A u \in DOMAIN old : u # t => new[u] = old[u]
  BY <1>1, <1>2, GoodPut, SMTT(30)
<1> HIDE DEF new
<1>5. \A u \in DOMAIN old : new[u] = old[u]
  BY <1>2, <1>3, <1>4
<1>6. Supersedes(new, old)
  BY <1>2, <1>4, <1>5, ClimbsItself DEF Supersedes, SameRequest, Forward, Terminal, GoodStore
<1>7. \A y \in Copies : Agree(new, y)
  BY <1>2, <1>3, <1>4, <1>5 DEF IInv, Agree
<1>8. Advance(c, new)
  BY <1>4, <1>6, <1>7 DEF GenerateToken, Advance, rec, old, new
<1> QED
  BY <1>8

LEMMA GetPendingAdvance ==
  ASSUME IInv, NEW c \in Clusters, GetPendingApprovals(c)
  PROVE  \E new : Advance(c, new)
<1> DEFINE old == records[c]
           new == [t \in DOMAIN old |->
                     IF old[t].status = "PENDING" /\ Expired(old[t])
                     THEN [old[t] EXCEPT !.status = "EXPIRED"] ELSE old[t]]
<1>1. old \in Copies /\ GoodStore(old)
  BY DEF IInv, Copies
<1>2. \A t \in DOMAIN old :
        /\ GoodRecord(new[t])
        /\ SameRequest(new[t], old[t])
        /\ Forward(old[t].status, new[t].status)
        /\ Climbs(old[t], new[t])
  <2> SUFFICES ASSUME NEW t \in DOMAIN old
               PROVE  /\ GoodRecord(new[t])
                      /\ SameRequest(new[t], old[t])
                      /\ Forward(old[t].status, new[t].status)
                      /\ Climbs(old[t], new[t])
    OBVIOUS
  <2>1. GoodRecord(old[t])
    BY <1>1 DEF GoodStore
  <2>2. "EXPIRED" \in Statuses /\ Forward("PENDING", "EXPIRED")
    BY DEF Statuses, Terminal, Forward
  <2>3. CASE old[t].status = "PENDING" /\ Expired(old[t])
    <3>1. new[t] = [old[t] EXCEPT !.status = "EXPIRED"]
      BY <2>3
    <3>2. new[t].status = "EXPIRED"
      BY <3>1, <2>1 DEF GoodRecord, Record
    <3>3. new[t].votes = old[t].votes
      BY <3>1, <2>1 DEF GoodRecord, Record
    <3>4. Climbs(old[t], new[t])
      BY <2>3, <3>3 DEF Climbs
    <3> QED BY <3>1, <3>2, <3>4, <2>1, <2>2, <2>3, GoodWithStatus
  <2>4. CASE ~(old[t].status = "PENDING" /\ Expired(old[t]))
    BY <2>1, <2>4, ClimbsItself DEF SameRequest, Forward, Terminal
  <2> QED BY <2>3, <2>4
<1>3. DOMAIN new = DOMAIN old
  OBVIOUS
<1>4. GoodStore(new) /\ Supersedes(new, old)
  BY <1>1, <1>2, <1>3 DEF GoodStore, Supersedes
<1>5. records' = [records EXCEPT ![c] = new] /\ UNCHANGED <<snapshots, clock, uses>>
  BY DEF GetPendingApprovals
<1> HIDE DEF new
<1>6. \A y \in Copies : Agree(new, y)
  BY <1>1, <1>3, <1>4 DEF IInv, Agree, Supersedes, SameRequest
<1>7. Advance(c, new)
  BY <1>4, <1>5, <1>6 DEF Advance
<1> QED
  BY <1>7

LEMMA ApproveAdvance ==
  ASSUME IInv, NEW c \in Clusters, NEW t \in Tokens, NEW a \in Actors,
         ApproveToken(c, t, a)
  PROVE  \E new : Advance(c, new)
<1> DEFINE old == records[c][t]
           rec == AddVote(old, c, a)
<1>1. GoodRecord(old) /\ clock \in Nat /\ Known(c, t)
  BY DEF IInv, TypeOK, Copies, GoodStore, Known, ApproveToken
<1>2. GoodRecord(rec) /\ SameRequest(rec, old) /\ Climbs(old, rec)
  BY <1>1, GoodWithVote DEF ApproveToken
<1>3. Forward(old.status, rec.status)
  BY <1>1 DEF ApproveToken, AddVote, Terminal, Forward, GoodRecord, Record
<1>4. records' = [records EXCEPT ![c] = Put(@, t, rec)]
  BY DEF ApproveToken
<1> HIDE DEF rec
<1>5. Advance(c, Put(records[c], t, rec))
  BY <1>1, <1>2, <1>3, <1>4, RecordAdvance DEF ApproveToken
<1> QED
  BY <1>5

LEMMA CloseAdvance ==
  ASSUME IInv, NEW c \in Clusters, NEW t \in Tokens,
         ApproveTooLate(c, t) \/ ValidateTooLate(c, t) \/ RevokeToken(c, t)
  PROVE  \E new : Advance(c, new)
<1>1. PICK st \in {"EXPIRED", "REVOKED"} :
        SetStatus(c, t, st) /\ (st = "REVOKED" \/ Expired(records[c][t]))
  BY DEF ApproveTooLate, ValidateTooLate, RevokeToken
<1>2. Known(c, t) /\ UNCHANGED <<snapshots, clock>>
  BY DEF ApproveTooLate, ValidateTooLate, RevokeToken
<1>3. st \in Statuses /\ st \in Terminal /\ st # "CONSUMED"
  BY DEF Statuses, Terminal
<1>4. Expired(records[c][t]) \/ Rank[st] >= Rank[records[c][t].status]
  <2>1. records[c][t].status \in Statuses
    BY <1>2 DEF IInv, Copies, GoodStore, GoodRecord, Record, Known
  <2> QED BY <1>1, <2>1 DEF Rank, Statuses
<1>5. Advance(c, Put(records[c], t, [records[c][t] EXCEPT !.status = st]))
  BY <1>1, <1>2, <1>3, <1>4, StatusAdvance
<1> QED
  BY <1>5

LEMMA ConsumeAdvance ==
  ASSUME IInv, NEW c \in Clusters, NEW t \in Tokens, NEW b \in Bindings,
         ValidateAndConsume(c, t, b)
  PROVE  /\ Advance(c, Put(records[c], t, [records[c][t] EXCEPT !.status = "CONSUMED"]))
         /\ records'[c] = Put(records[c], t, [records[c][t] EXCEPT !.status = "CONSUMED"])
<1>1. Rank["CONSUMED"] >= Rank["APPROVED"]
  BY DEF Rank
<1> QED BY <1>1, StatusAdvance DEF ValidateAndConsume, Statuses, Terminal

\* The one step that honours a token: it was approved, so it had never been
\* used at this cluster, and it is closed by the same step.
LEMMA ConsumeKeeps ==
  ASSUME IInv, NEW c \in Clusters, NEW t \in Tokens, NEW b \in Bindings,
         ValidateAndConsume(c, t, b)
  PROVE  IInv'
<1> DEFINE old == records[c][t]
           new == Put(records[c], t, [old EXCEPT !.status = "CONSUMED"])
<1>1. /\ Known(c, t)
      /\ old.status = "APPROVED"
      /\ HasQuorum(old)
      /\ old.binding = b
      /\ SetStatus(c, t, "CONSUMED")
      /\ UNCHANGED <<snapshots, clock>>
  BY DEF ValidateAndConsume
<1>2. Advance(c, new) /\ records'[c] = new
  BY ConsumeAdvance
<1>3. uses' = [uses EXCEPT ![c][t][b] = @ + 1]
  BY DEF ValidateAndConsume
<1>4. uses \in [Clusters -> [Tokens -> [Bindings -> Nat]]]
  BY DEF IInv, TypeOK
<1>5. uses' \in [Clusters -> [Tokens -> [Bindings -> Nat]]]
  BY <1>3, <1>4
<1>6. uses[c][t][b] = 0
  <2>1. ~(uses[c][t][b] > 0)
    BY <1>1 DEF IInv, GrantSound, Terminal
  <2> QED BY <2>1, <1>4
<1>7. GoodRecord(old) /\ GoodStore(records[c])
  BY <1>1 DEF IInv, Copies, GoodStore, Known
<1>8. [old EXCEPT !.status = "CONSUMED"].status = "CONSUMED"
  BY <1>7 DEF GoodRecord, Record
<1>9. new[t].status = "CONSUMED" /\ t \in DOMAIN new
  BY <1>8 DEF Put
<1> HIDE DEF new
<1>10. records' = [d \in Clusters |-> IF d = c THEN new ELSE records[d]]
  BY <1>2 DEF IInv, TypeOK, Advance
<1>11. GrantSound'
  <2> SUFFICES ASSUME NEW d \in Clusters, NEW u \in Tokens, NEW e \in Bindings,
                      uses'[d][u][e] > 0
               PROVE  /\ uses'[d][u][e] = 1
                      /\ u \in DOMAIN records'[d]
                      /\ records'[d][u].binding = e
                      /\ records'[d][u].status \in Terminal
    BY DEF GrantSound, Known
  <2>1. CASE d = c /\ u = t /\ e = b
    <3>1. uses'[d][u][e] = 1
      BY <2>1, <1>3, <1>4, <1>6
    <3>2. new[t].binding = b
      BY <1>1, <1>2 DEF Advance, Supersedes, SameRequest, Known
    <3> QED BY <2>1, <3>1, <3>2, <1>9, <1>10 DEF Terminal
  <2>2. CASE ~(d = c /\ u = t /\ e = b)
    <3>1. uses'[d][u][e] = uses[d][u][e]
      BY <2>2, <1>3, <1>4
    <3>2. /\ uses[d][u][e] = 1
          /\ u \in DOMAIN records[d]
          /\ records[d][u].binding = e
          /\ records[d][u].status \in Terminal
      BY <3>1 DEF IInv, GrantSound, Known
    <3>3. CASE d = c
      BY <3>1, <3>2, <3>3, <1>2, <1>10
          DEF Advance, Supersedes, SameRequest, Forward
    <3>4. CASE d # c
      BY <3>1, <3>2, <3>4, <1>10
    <3> QED BY <3>3, <3>4
  <2> QED BY <2>1, <2>2
<1> QED
  BY <1>2, <1>5, <1>11, AdvanceKeeps

\* A merge is an advance: a record known on one side only is copied, one known
\* on both sides is joined.
LEMMA MergeAdvance ==
  ASSUME IInv, NEW c \in Clusters, NEW s \in snapshots, MergeRemoteSnapshot(c, s)
  PROVE  Advance(c, MergeStore(records[c], s))
<1> DEFINE old == records[c]
           new == MergeStore(old, s)
<1>1. old \in Copies /\ s \in Copies
  BY DEF Copies
<1>2. GoodStore(old) /\ GoodStore(s) /\ Agree(old, s)
  BY <1>1 DEF IInv
<1>3. /\ DOMAIN new = DOMAIN old \cup DOMAIN s
      /\ new = [t \in DOMAIN new |-> new[t]]
      /\ \A t \in DOMAIN new :
           new[t] = IF t \notin DOMAIN old THEN s[t]
                    ELSE IF t \notin DOMAIN s THEN old[t]
                    ELSE MergeRecord(old[t], s[t])
  BY DEF MergeStore
<1> HIDE DEF new
<1>4. \A t \in DOMAIN old \cap DOMAIN s :
        /\ GoodRecord(new[t])
        /\ SameRequest(new[t], old[t])
        /\ Forward(old[t].status, new[t].status)
        /\ Climbs(old[t], new[t])
  <2> SUFFICES ASSUME NEW t \in DOMAIN old \cap DOMAIN s
               PROVE  /\ GoodRecord(new[t])
                      /\ SameRequest(new[t], old[t])
                      /\ Forward(old[t].status, new[t].status)
                      /\ Climbs(old[t], new[t])
    OBVIOUS
  <2>1. GoodRecord(old[t]) /\ GoodRecord(s[t]) /\ SameRequest(old[t], s[t])
    BY <1>2 DEF GoodStore, Agree
  <2>2. new[t] = MergeRecord(old[t], s[t])
    BY <1>3
  <2> QED BY <2>1, <2>2, GoodMerge
<1>5. \A t \in DOMAIN old \ DOMAIN s : new[t] = old[t]
  BY <1>3
<1>6. \A t \in DOMAIN s \ DOMAIN old : new[t] = s[t]
  BY <1>3
<1>7. GoodStore(new)
  BY <1>2, <1>3, <1>4, <1>5, <1>6 DEF GoodStore
<1>8. Supersedes(new, old)
  BY <1>2, <1>3, <1>4, <1>5, ClimbsItself DEF Supersedes, SameRequest, Forward, Terminal, GoodStore
<1>9. \A y \in Copies : Agree(new, y)
  <2> SUFFICES ASSUME NEW y \in Copies, NEW t \in DOMAIN new \cap DOMAIN y
               PROVE  SameRequest(new[t], y[t])
    BY DEF Agree
  <2>1. Agree(old, y) /\ Agree(s, y)
    BY <1>1 DEF IInv
  <2>2. CASE t \in DOMAIN old
    BY <2>1, <2>2, <1>8 DEF Agree, Supersedes, SameRequest
  <2>3. CASE t \notin DOMAIN old
    BY <2>1, <2>3, <1>3, <1>6 DEF Agree
  <2> QED BY <2>2, <2>3
<1>10. records' = [records EXCEPT ![c] = new] /\ UNCHANGED <<snapshots, clock>>
  BY DEF MergeRemoteSnapshot, new
<1> QED
  BY <1>7, <1>8, <1>9, <1>10 DEF Advance, new

LEMMA ExportKeeps ==
  ASSUME IInv, NEW c \in Clusters, ExportStateSnapshot(c)
  PROVE  IInv'
<1>1. /\ snapshots' = snapshots \cup {records[c]}
      /\ records' = records /\ clock' = clock /\ uses' = uses
  BY DEF ExportStateSnapshot
<1>2. Copies' = Copies
  BY <1>1 DEF Copies
<1>3. TypeOK' /\ GrantSound'
  BY <1>1, <1>2 DEF IInv, TypeOK, GrantSound, Known
<1>4. SnapshotsKnown'
  BY <1>1 DEF IInv, SnapshotsKnown, Known
<1> QED
  BY <1>2, <1>3, <1>4 DEF IInv

-----------------------------------------------------------------------------
(* The theorems *)

LEMMA InitIInv == Init => IInv
<1> SUFFICES ASSUME Init PROVE IInv
  OBVIOUS
<1> DEFINE empty == [t \in {} |-> 0]
<1>1. records = [c \in Clusters |-> empty] /\ snapshots = {} /\ clock = 0
  BY DEF Init
<1>2. DOMAIN empty = {}
  OBVIOUS
<1>3. \A copy \in Copies : copy = empty
  BY <1>1 DEF Copies
<1>4. \A copy \in Copies : IsStore(copy) /\ GoodStore(copy)
  BY <1>2, <1>3 DEF IsStore, GoodStore
<1>5. uses = [c \in Clusters |-> [t \in Tokens |-> [b \in Bindings |-> 0]]]
  BY DEF Init
<1>6. TypeOK
  BY <1>1, <1>4, <1>5 DEF TypeOK
<1>7. \A x, y \in Copies : Agree(x, y)
  BY <1>2, <1>3 DEF Agree
<1>8. SnapshotsKnown /\ GrantSound
  BY <1>1, <1>5 DEF SnapshotsKnown, GrantSound
<1> QED
  BY <1>4, <1>6, <1>7, <1>8 DEF IInv

\* A step leaves the stores alone, or replaces one by an advance; only an
\* advance by ValidateAndConsume touches uses.
LEMMA StepAdvances ==
  ASSUME IInv, [Next]_vars
  PROVE  \/ Tick \/ UNCHANGED vars
         \/ \E c \in Clusters : ExportStateSnapshot(c)
         \/ \E c \in Clusters : \E new : Advance(c, new) /\ uses' = uses
         \/ \E c \in Clusters, t \in Tokens, b \in Bindings : \E new :
              Advance(c, new) /\ ValidateAndConsume(c, t, b)
<1>1. CASE Tick \/ UNCHANGED vars \/ \E c \in Clusters : ExportStateSnapshot(c)
  BY <1>1
<1>2. CASE \E c \in Clusters : GetPendingApprovals(c)
  BY <1>2, GetPendingAdvance DEF GetPendingApprovals
<1>3. CASE \E c \in Clusters, s \in snapshots : MergeRemoteSnapshot(c, s)
  BY <1>3, MergeAdvance DEF MergeRemoteSnapshot
<1>4. CASE \E c \in Clusters, t \in Tokens, b \in Bindings, risk \in Risks, a \in Actors :
             GenerateToken(c, t, b, risk, a)
  BY <1>4, GenerateAdvance DEF GenerateToken
<1>5. CASE \E c \in Clusters, t \in Tokens :
             ApproveTooLate(c, t) \/ ValidateTooLate(c, t) \/ RevokeToken(c, t)
  <2>1. uses' = uses
    BY <1>5 DEF ApproveTooLate, ValidateTooLate, RevokeToken
  <2> QED BY <1>5, <2>1, CloseAdvance
<1>6. CASE \E c \in Clusters, t \in Tokens, a \in Actors : ApproveToken(c, t, a)
  BY <1>6, ApproveAdvance DEF ApproveToken
<1>7. CASE \E c \in Clusters, t \in Tokens, b \in Bindings : ValidateAndConsume(c, t, b)
  BY <1>7, ConsumeAdvance
<1> QED
  BY <1>1, <1>2, <1>3, <1>4, <1>5, <1>6, <1>7, Zenon DEF Next

LEMMA StepIInv == IInv /\ [Next]_vars => IInv'
<1> SUFFICES ASSUME IInv, [Next]_vars PROVE IInv'
  OBVIOUS
<1>1. CASE \E c \in Clusters : \E new : Advance(c, new) /\ uses' = uses
  BY <1>1, QuietAdvance
<1>2. CASE \E c \in Clusters, t \in Tokens, b \in Bindings : ValidateAndConsume(c, t, b)
  BY <1>2, ConsumeKeeps
<1>3. CASE \E c \in Clusters : ExportStateSnapshot(c)
  BY <1>3, ExportKeeps
<1>4. CASE Tick \/ UNCHANGED vars
  <2>1. /\ records' = records /\ snapshots' = snapshots /\ uses' = uses
        /\ clock' = clock \/ clock' = clock + 1
    BY <1>4 DEF Tick, vars
  <2>2. Copies' = Copies
    BY <2>1 DEF Copies
  <2> QED BY <2>1, <2>2 DEF IInv, TypeOK, SnapshotsKnown, GrantSound, Known
<1> QED
  BY <1>1, <1>2, <1>3, <1>4, StepAdvances

LEMMA Invariance == Spec => []IInv
BY InitIInv, StepIInv, PTL DEF Spec

\* The stores stay Maps from tokens to well-formed records, in every cluster and
\* every snapshot.
THEOREM TypeCorrect == Spec => []TypeOK
<1>1. IInv => TypeOK
  BY DEF IInv
<1> QED BY <1>1, Invariance, PTL

\* M-of-N: an approved or used token carries the votes of its quorum, one an
\* approver and none of its requester, whatever was merged in whatever order.
THEOREM QuorumAlwaysBacked == Spec => []QuorumBacked
<1>1. IInv => QuorumBacked
  BY DEF IInv, QuorumBacked, GoodStore, GoodRecord
<1> QED BY <1>1, Invariance, PTL

\* All copies of a token agree on the call and the quorum it was requested for.
THEOREM CopiesAlwaysAgree == Spec => []CopiesAgree
<1>1. IInv => CopiesAgree
  BY DEF IInv, CopiesAgree, Agree
<1> QED BY <1>1, Invariance, PTL

\* A cluster honours a token at most once and only for its own call, and what it
\* has honoured stays closed there.
THEOREM GrantsAlwaysSound == Spec => []GrantSound
<1>1. IInv => GrantSound
  BY DEF IInv
<1> QED BY <1>1, Invariance, PTL

\* No call and no merge takes a token of a cluster back from expired, consumed or
\* revoked to a status that can be approved or spent.
THEOREM TerminalAlwaysAbsorbing == Spec => TerminalAbsorbing
<1> DEFINE A == \A c \in Clusters, t \in Tokens :
                  (Known(c, t) /\ records[c][t].status \in Terminal) =>
                    (Known(c, t)' /\ records'[c][t].status \in Terminal)
<1>1. ASSUME IInv, [Next]_vars
      PROVE  A
  <2>1. CASE records' = records
    BY <2>1 DEF Known
  <2>2. CASE \E c \in Clusters : \E new : Advance(c, new)
    <3>0. PICK c \in Clusters : \E new : Advance(c, new)
      BY <2>2
    <3>1. PICK new : Advance(c, new)
      BY <3>0
    <3>2. records' = [d \in Clusters |-> IF d = c THEN new ELSE records[d]]
      BY <1>1, <3>1 DEF IInv, TypeOK, Advance
    <3> QED BY <3>1, <3>2 DEF Known, Advance, Supersedes, Forward
  <2> QED BY <1>1, <2>1, <2>2, StepAdvances DEF Tick, ExportStateSnapshot, vars
<1>2. IInv /\ [Next]_vars => [A]_vars
  BY <1>1
<1> HIDE DEF A
<1>3. Spec => [][A]_vars
  BY <1>2, Invariance, PTL DEF Spec
<1> QED
  BY <1>3 DEF A, TerminalAbsorbing

\* Until a token expires, its status at a cluster only climbs the precedence order and
\* no vote on it is forgotten, whatever is merged.
THEOREM StatusesClimb == Spec => MonotoneWhileLive
<1> DEFINE A == \A c \in Clusters, t \in Tokens :
                  (Known(c, t) /\ ~Expired(records[c][t])) =>
                    /\ Rank[records'[c][t].status] >= Rank[records[c][t].status]
                    /\ Voters(records[c][t].votes) \subseteq Voters(records'[c][t].votes)
<1>1. ASSUME IInv, [Next]_vars
      PROVE  A
  <2>0. \A c \in Clusters, t \in Tokens : Known(c, t) => Climbs(records[c][t], records[c][t])
    BY <1>1, ClimbsItself DEF IInv, Copies, GoodStore, Known
  <2>1. CASE records' = records
    BY <2>0, <2>1 DEF Climbs
  <2>2. CASE \E c \in Clusters : \E new : Advance(c, new)
    <3>0. PICK c \in Clusters : \E new : Advance(c, new)
      BY <2>2
    <3>1. PICK new : Advance(c, new)
      BY <3>0
    <3>2. records' = [d \in Clusters |-> IF d = c THEN new ELSE records[d]]
      BY <1>1, <3>1 DEF IInv, TypeOK, Advance
    <3> QED BY <2>0, <3>1, <3>2 DEF Known, Advance, Supersedes, Climbs
  <2> QED BY <1>1, <2>1, <2>2, StepAdvances DEF Tick, ExportStateSnapshot, vars
<1>2. IInv /\ [Next]_vars => [A]_vars
  BY <1>1
<1> HIDE DEF A
<1>3. Spec => [][A]_vars
  BY <1>2, Invariance, PTL DEF Spec
<1> QED
  BY <1>3 DEF A, MonotoneWhileLive

-----------------------------------------------------------------------------
(* The join *)

\* Enough humans have voted.
Quorate(voters, required) == Cardinality(voters) >= required

LEMMA VotesCounted ==
  ASSUME NEW rec, GoodRecord(rec)
  PROVE  /\ IsFiniteSet(Voters(rec.votes))
         /\ HasQuorum(rec) <=> Quorate(Voters(rec.votes), rec.required)
<1>1. IsFiniteSet(rec.votes) /\ OneVoteEach(rec.votes)
  BY DEF GoodRecord
<1> DEFINE f == [v \in rec.votes |-> v.approver]
<1>2. f \in Bijection(rec.votes, Voters(rec.votes))
  <2>1. f \in [rec.votes -> Voters(rec.votes)]
    BY DEF Voters
  <2>2. \A a, b \in rec.votes : f[a] = f[b] => a = b
    BY <1>1 DEF OneVoteEach
  <2>3. \A a \in Voters(rec.votes) : \E v \in rec.votes : f[v] = a
    BY DEF Voters
  <2> HIDE DEF f
  <2> QED BY <2>1, <2>2, <2>3 DEF Bijection, Injection, Surjection, IsInjective
<1> HIDE DEF f
<1>3. Cardinality(rec.votes) = Cardinality(Voters(rec.votes)) /\ IsFiniteSet(Voters(rec.votes))
  BY <1>1, <1>2, FS_Bijection DEF ExistsBijection
<1> QED BY <1>3 DEF HasQuorum, Quorate

\* What a merge keeps of two records of one request: all who voted, and the higher of
\* the two statuses unless the votes promote it.
LEMMA JoinOf ==
  ASSUME NEW l, NEW r, GoodRecord(l), GoodRecord(r), SameRequest(l, r)
  PROVE  LET new == MergeRecord(l, r) IN
           /\ GoodRecord(new) /\ SameRequest(new, l) /\ new.required = l.required
           /\ Voters(new.votes) = Voters(l.votes) \cup Voters(r.votes)
           /\ new.status = IF JoinStatus(l.status, r.status) = "PENDING" /\ Quorate(Voters(new.votes), l.required)
                           THEN "APPROVED" ELSE JoinStatus(l.status, r.status)
<1> DEFINE votes == MergeVotes(l.votes, r.votes)
           joined == JoinStatus(l.status, r.status)
           new == MergeRecord(l, r)
<1>1. Voters(votes) = Voters(l.votes) \cup Voters(r.votes)
  BY MergeVotesJoins DEF GoodRecord, Record
<1>2. GoodRecord(new) /\ SameRequest(new, l)
  BY GoodMerge
<1>3. new = [l EXCEPT !.votes = votes,
                      !.status = IF joined = "PENDING" /\ Cardinality(votes) >= l.required
                                 THEN "APPROVED" ELSE joined]
  BY DEF MergeRecord
<1>4. /\ new.votes = votes /\ new.required = l.required
      /\ new.status = IF joined = "PENDING" /\ Cardinality(votes) >= l.required
                      THEN "APPROVED" ELSE joined
  BY <1>3 DEF GoodRecord, Record
<1> HIDE DEF new, votes, joined
<1>5. Cardinality(votes) >= l.required <=> Quorate(Voters(votes), l.required)
  BY <1>2, <1>4, VotesCounted DEF HasQuorum
<1> QED BY <1>1, <1>2, <1>4, <1>5 DEF new, joined

\* The precedence order is total, so the higher status is a join.
LEMMA JoinOfStatuses ==
  ASSUME NEW x \in Statuses, NEW y \in Statuses, NEW z \in Statuses
  PROVE  /\ JoinStatus(x, y) \in Statuses
         /\ JoinStatus(x, x) = x
         /\ JoinStatus(x, y) = JoinStatus(y, x)
         /\ JoinStatus(JoinStatus(x, y), z) = JoinStatus(x, JoinStatus(y, z))
         /\ JoinStatus(x, y) = "PENDING" <=> x = "PENDING" /\ y = "PENDING"
         /\ JoinStatus("APPROVED", x) = IF x = "PENDING" THEN "APPROVED" ELSE x
<1>1. \A u \in Statuses : Rank[u] \in 1 .. 5 /\ (Rank[u] = 1 <=> u = "PENDING")
                           /\ (Rank[u] = 2 <=> u = "APPROVED")
  BY DEF Rank, Statuses
<1>2. \A u, v \in Statuses : Rank[u] = Rank[v] => u = v
  BY DEF Rank, Statuses
<1>3. "APPROVED" \in Statuses /\ "PENDING" \in Statuses
  BY DEF Statuses
<1> QED BY <1>1, <1>2, <1>3 DEF JoinStatus

\* Whoever voted on one of three copies voted on their merge.
LEMMA MoreVoters ==
  ASSUME NEW V, NEW W, IsFiniteSet(W), V \subseteq W, NEW n \in Nat, Quorate(V, n)
  PROVE  Quorate(W, n)
<1>1. Cardinality(V) <= Cardinality(W) /\ IsFiniteSet(V)
  BY FS_Subset
<1>2. Cardinality(V) \in Nat /\ Cardinality(W) \in Nat
  BY <1>1, FS_CardinalityType
<1> QED BY <1>1, <1>2 DEF Quorate

LEMMA JoinAssociative ==
  ASSUME NEW x, NEW y, NEW z, GoodRecord(x), GoodRecord(y), GoodRecord(z),
         SameRequest(x, y), SameRequest(y, z)
  PROVE  LET j(p, q) == MergeRecord(p, q) IN
           /\ Essence(j(x, x)) = Essence(x)
           /\ Essence(j(x, y)) = Essence(j(y, x))
           /\ Essence(j(j(x, y), z)) = Essence(j(x, j(y, z)))
<1> DEFINE xy == MergeRecord(x, y)
           yx == MergeRecord(y, x)
           yz == MergeRecord(y, z)
           xx == MergeRecord(x, x)
           l == MergeRecord(xy, z)
           r == MergeRecord(x, yz)
           n == x.required
           Vx == Voters(x.votes)
           Vy == Voters(y.votes)
           Vz == Voters(z.votes)
           J(s, t) == JoinStatus(s, t)
           O(s, V) == IF s = "PENDING" /\ Quorate(V, n) THEN "APPROVED" ELSE s
<1>1. /\ SameRequest(x, x) /\ SameRequest(y, x) /\ x.required = n /\ y.required = n /\ z.required = n
      /\ x.status \in Statuses /\ y.status \in Statuses /\ z.status \in Statuses /\ n \in Nat
  BY DEF SameRequest, GoodRecord, Record
<1>2. GoodRecord(xy) /\ SameRequest(xy, x) /\ Voters(xy.votes) = Vx \cup Vy
      /\ xy.status = O(J(x.status, y.status), Voters(xy.votes))
  BY <1>1, JoinOf
<1>3. GoodRecord(yz) /\ SameRequest(yz, y) /\ Voters(yz.votes) = Vy \cup Vz
      /\ yz.status = O(J(y.status, z.status), Voters(yz.votes))
  BY <1>1, JoinOf
<1>4. SameRequest(xy, z) /\ SameRequest(x, yz) /\ xy.required = n
  BY <1>1, <1>2, <1>3 DEF SameRequest
<1>5. GoodRecord(l) /\ Voters(l.votes) = (Vx \cup Vy) \cup Vz /\ l.status = O(J(xy.status, z.status), Voters(l.votes))
  BY <1>1, <1>2, <1>4, JoinOf
<1>6. GoodRecord(r) /\ Voters(r.votes) = Vx \cup (Vy \cup Vz) /\ r.status = O(J(x.status, yz.status), Voters(r.votes))
  BY <1>1, <1>3, <1>4, JoinOf
<1>7. Voters(yx.votes) = Vy \cup Vx /\ yx.status = O(J(y.status, x.status), Voters(yx.votes))
  BY <1>1, JoinOf
<1>8. Voters(xx.votes) = Vx \cup Vx /\ xx.status = O(J(x.status, x.status), Voters(xx.votes))
  BY <1>1, JoinOf
<1>9. x.status = "PENDING" => ~Quorate(Vx, n)
  BY VotesCounted DEF GoodRecord
<1> HIDE DEF xy, yx, yz, xx, l, r, n
<1>10. Essence(xx) = Essence(x)
  <2>1. Voters(xx.votes) = Vx /\ J(x.status, x.status) = x.status
    BY <1>1, <1>8, JoinOfStatuses
  <2> QED BY <1>8, <1>9, <2>1 DEF Essence
<1>11. Essence(xy) = Essence(yx)
  <2>1. Voters(xy.votes) = Voters(yx.votes) /\ J(x.status, y.status) = J(y.status, x.status)
    BY <1>1, <1>2, <1>7, JoinOfStatuses
  <2> QED BY <1>2, <1>7, <2>1 DEF Essence
<1>12. Essence(l) = Essence(r)
  <2> DEFINE V == Voters(l.votes)
             s == J(J(x.status, y.status), z.status)
  <2>1. V = Voters(r.votes) /\ IsFiniteSet(V) /\ Voters(xy.votes) \subseteq V /\ Voters(yz.votes) \subseteq V
    BY <1>2, <1>3, <1>5, <1>6, VotesCounted
  <2>2. (Quorate(Voters(xy.votes), n) => Quorate(V, n)) /\ (Quorate(Voters(yz.votes), n) => Quorate(V, n))
    BY <1>1, <2>1, MoreVoters
  <2>3. J(x.status, J(y.status, z.status)) = s
    BY <1>1, JoinOfStatuses
  <2>4. l.status = O(s, V)
    <3>1. CASE xy.status = J(x.status, y.status)
      BY <1>5, <3>1
    <3>2. CASE xy.status # J(x.status, y.status)
      <4>1. xy.status = "APPROVED" /\ J(x.status, y.status) = "PENDING" /\ Quorate(V, n)
        BY <1>2, <2>2, <3>2
      <4>2. J("APPROVED", z.status) = IF z.status = "PENDING" THEN "APPROVED" ELSE z.status
        BY <1>1, JoinOfStatuses
      <4>3. J("PENDING", z.status) = z.status
        BY <1>1 DEF JoinStatus, Rank, Statuses
      <4> QED BY <1>5, <4>1, <4>2, <4>3
    <3> QED BY <3>1, <3>2
  <2>5. r.status = O(s, V)
    <3>1. CASE yz.status = J(y.status, z.status)
      BY <1>6, <2>1, <2>3, <3>1
    <3>2. CASE yz.status # J(y.status, z.status)
      <4>1. yz.status = "APPROVED" /\ J(y.status, z.status) = "PENDING" /\ Quorate(V, n)
        BY <1>3, <2>2, <3>2
      <4>2. J(x.status, "APPROVED") = IF x.status = "PENDING" THEN "APPROVED" ELSE x.status
        BY <1>1, JoinOfStatuses DEF Statuses
      <4>3. J(x.status, "PENDING") = x.status
        BY <1>1 DEF JoinStatus, Rank, Statuses
      <4> QED BY <1>6, <2>1, <2>3, <4>1, <4>2, <4>3
    <3> QED BY <3>1, <3>2
  <2> QED BY <2>1, <2>4, <2>5 DEF Essence
<1> QED BY <1>10, <1>11, <1>12 DEF xx, xy, yx, yz, l, r

\* Merging is a join on status and approvers: any three copies that can meet, in the
\* clusters or on their way, give one result in whatever order and however often they
\* are merged.
THEOREM JoinAlwaysConverges == Spec => []JoinConverges
<1>1. ASSUME IInv PROVE JoinConverges
  <2> SUFFICES ASSUME NEW x \in Copies, NEW y \in Copies, NEW z \in Copies,
                      NEW t \in DOMAIN x \cap DOMAIN y \cap DOMAIN z
               PROVE  LET j(p, q) == MergeRecord(p, q) IN
                        /\ Essence(j(x[t], x[t])) = Essence(x[t])
                        /\ Essence(j(x[t], y[t])) = Essence(j(y[t], x[t]))
                        /\ Essence(j(j(x[t], y[t]), z[t])) = Essence(j(x[t], j(y[t], z[t])))
    BY DEF JoinConverges
  <2>1. GoodRecord(x[t]) /\ GoodRecord(y[t]) /\ GoodRecord(z[t])
    BY <1>1 DEF IInv, GoodStore
  <2>2. SameRequest(x[t], y[t]) /\ SameRequest(y[t], z[t])
    BY <1>1 DEF IInv, Agree
  <2> QED BY <2>1, <2>2, JoinAssociative
<1>2. IInv => JoinConverges
  BY <1>1
<1> QED BY <1>2, Invariance, PTL

-----------------------------------------------------------------------------
(* The refinement *)

TokenUses == Clusters \X Tokens \X Bindings

LEMMA PhaseTyped == \A c, t, b : PhaseOf(c, t, b) \in {"none", "waiting", "granted", "closed"}
BY DEF PhaseOf

\* In an advance, each token of the cluster takes a step of its life.
LEMMA PhaseMoves ==
  ASSUME IInv, IInv', NEW c \in Clusters, NEW new, Advance(c, new),
         NEW d \in Clusters, NEW t \in Tokens, NEW b \in Bindings
  PROVE  \/ PhaseOf(d, t, b) = "none"
         \/ PhaseOf(d, t, b)' = PhaseOf(d, t, b)
         \/ PhaseOf(d, t, b) = "waiting" /\ PhaseOf(d, t, b)' = "granted"
         \/ PhaseOf(d, t, b) \in {"waiting", "granted"} /\ PhaseOf(d, t, b)' = "closed"
<1>1. records' = [e \in Clusters |-> IF e = c THEN new ELSE records[e]]
  BY DEF IInv, TypeOK, Advance
<1>2. CASE d # c
  BY <1>1, <1>2 DEF PhaseOf, Known
<1>3. CASE d = c /\ Known(d, t)
  <2>1. /\ t \in DOMAIN records[d] /\ t \in DOMAIN records'[d]
        /\ records'[d][t].binding = records[d][t].binding
        /\ Forward(records[d][t].status, records'[d][t].status)
    BY <1>1, <1>3 DEF Known, Advance, Supersedes, SameRequest
  <2>2. records[d][t].status \in Statuses /\ records'[d][t].status \in Statuses
    <3>1. GoodRecord(records[d][t])
      BY <2>1 DEF IInv, Copies, GoodStore
    <3>2. GoodRecord(records'[d][t])
      BY <2>1, <1>1, <1>3 DEF Advance, GoodStore
    <3> QED BY <3>1, <3>2 DEF GoodRecord, Record
  <2> QED BY <2>1, <2>2 DEF PhaseOf, Known, Forward, Terminal, Statuses
<1>4. CASE ~Known(d, t)
  BY <1>4 DEF PhaseOf
<1> QED
  BY <1>2, <1>3, <1>4

LEMMA InitLifecycle == Init => Lifecycle!Init
BY DEF Init, Lifecycle!Init, PhaseOf, Known

LEMMA StepLifecycle ==
  ASSUME IInv, IInv', [Next]_vars
  PROVE  [Lifecycle!Next]_(Lifecycle!vars)
<1> DEFINE ph == [k \in TokenUses |-> PhaseOf(k[1], k[2], k[3])]
           us == [k \in TokenUses |-> uses[k[1]][k[2]][k[3]]]
<1>1. CASE Tick \/ UNCHANGED vars \/ \E c \in Clusters : ExportStateSnapshot(c)
  <2>1. records' = records /\ uses' = uses
    BY <1>1 DEF Tick, ExportStateSnapshot, vars
  <2> QED BY <2>1 DEF Lifecycle!vars, PhaseOf, Known
<1>2. ph' \in [TokenUses -> {"none", "waiting", "granted", "closed"}]
  BY PhaseTyped DEF PhaseOf
<1>3. us' \in [TokenUses -> Nat]
  <2> SUFFICES ASSUME NEW c \in Clusters, NEW t \in Tokens, NEW b \in Bindings
               PROVE  uses'[c][t][b] \in Nat
    BY DEF TokenUses
  <2> QED BY DEF IInv, TypeOK
<1>4. ASSUME NEW c \in Clusters, NEW new, Advance(c, new),
             \/ uses' = uses
             \/ \E t \in Tokens, b \in Bindings : ValidateAndConsume(c, t, b)
      PROVE  \A k \in TokenUses :
               \/ us'[k] = us[k] /\
                    \/ ph[k] = "none"
                    \/ ph'[k] = ph[k]
                    \/ ph[k] = "waiting" /\ ph'[k] = "granted"
                    \/ ph[k] \in {"waiting", "granted"} /\ ph'[k] = "closed"
               \/ us'[k] = us[k] + 1 /\ ph[k] = "granted" /\ ph'[k] = "closed"
  <2> SUFFICES ASSUME NEW d \in Clusters, NEW u \in Tokens, NEW e \in Bindings
               PROVE  \/ /\ uses'[d][u][e] = uses[d][u][e]
                         /\ \/ PhaseOf(d, u, e) = "none"
                            \/ PhaseOf(d, u, e)' = PhaseOf(d, u, e)
                            \/ PhaseOf(d, u, e) = "waiting" /\ PhaseOf(d, u, e)' = "granted"
                            \/ /\ PhaseOf(d, u, e) \in {"waiting", "granted"}
                               /\ PhaseOf(d, u, e)' = "closed"
                      \/ /\ uses'[d][u][e] = uses[d][u][e] + 1
                         /\ PhaseOf(d, u, e) = "granted"
                         /\ PhaseOf(d, u, e)' = "closed"
    BY DEF TokenUses, PhaseOf, Known
  <2>1. \/ PhaseOf(d, u, e) = "none"
        \/ PhaseOf(d, u, e)' = PhaseOf(d, u, e)
        \/ PhaseOf(d, u, e) = "waiting" /\ PhaseOf(d, u, e)' = "granted"
        \/ PhaseOf(d, u, e) \in {"waiting", "granted"} /\ PhaseOf(d, u, e)' = "closed"
    BY <1>4, PhaseMoves
  <2>2. CASE uses'[d][u][e] = uses[d][u][e]
    BY <2>1, <2>2
  <2>3. CASE uses'[d][u][e] # uses[d][u][e]
    <3>1. PICK t \in Tokens, b \in Bindings : ValidateAndConsume(c, t, b)
      BY <1>4, <2>3
    <3>2. d = c /\ u = t /\ e = b /\ uses'[d][u][e] = uses[d][u][e] + 1
      BY <2>3, <3>1 DEF ValidateAndConsume, IInv, TypeOK
    <3>3. PhaseOf(d, u, e) = "granted"
      BY <3>1, <3>2 DEF ValidateAndConsume, PhaseOf, Terminal
    <3>4. uses[d][u][e] \in Nat
      BY DEF IInv, TypeOK
    <3>5. uses'[d][u][e] > 0
      BY <3>2, <3>4
    <3>6. PhaseOf(d, u, e)' = "closed"
      BY <3>5 DEF IInv, GrantSound, PhaseOf
    <3> QED BY <3>2, <3>3, <3>6
  <2> QED BY <2>2, <2>3
<1>5. CASE \E c \in Clusters : \E new :
             /\ Advance(c, new)
             /\ uses' = uses \/ \E t \in Tokens, b \in Bindings : ValidateAndConsume(c, t, b)
  <2> HIDE DEF ph, us
  <2>1. \A k \in TokenUses :
          \/ us'[k] = us[k] /\
               \/ ph[k] = "none"
               \/ ph'[k] = ph[k]
               \/ ph[k] = "waiting" /\ ph'[k] = "granted"
               \/ ph[k] \in {"waiting", "granted"} /\ ph'[k] = "closed"
          \/ us'[k] = us[k] + 1 /\ ph[k] = "granted" /\ ph'[k] = "closed"
    BY <1>4, <1>5
  <2>2. \A k \in TokenUses :
          \/ ph[k] = "none" /\ ph'[k] # "none" /\ us'[k] = us[k]
          \/ ph[k] = "waiting" /\ ph'[k] = "granted" /\ us'[k] = us[k]
          \/ ph[k] = "granted" /\ ph'[k] = "closed" /\ us'[k] = us[k] + 1
          \/ ph[k] \in {"waiting", "granted"} /\ ph'[k] = "closed" /\ us'[k] = us[k]
          \/ ph'[k] = ph[k] /\ us'[k] = us[k]
    BY <2>1
  <2> QED BY <1>2, <1>3, <2>2 DEF ph, us, TokenUses, Lifecycle!Next, Lifecycle!Phases,
          Lifecycle!Learn, Lifecycle!Grant, Lifecycle!Use, Lifecycle!Close, Lifecycle!Idle
<1> QED
  BY <1>1, <1>5, StepAdvances

\* The store of each cluster keeps the promise of IApprovalStore, seen through
\* the phases of its tokens.
THEOREM Refinement == Spec => ImplementsLifecycle
<1>1. IInv /\ IInv' /\ [Next]_vars => [Lifecycle!Next]_(Lifecycle!vars)
  BY StepLifecycle
<1> QED
  BY <1>1, InitLifecycle, Invariance, PTL DEF Spec, ImplementsLifecycle, Lifecycle!Spec

==============================================================================
