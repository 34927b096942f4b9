-------------------------- MODULE RedisApprovalProofs --------------------------
(* What the Redis store keeps for any number of racing calls, and its promise  *)
(* when approvals do not overlap.                                              *)
EXTENDS RedisApproval, FiniteSetTheorems, TLAPS

Values == [status : {"PENDING", "APPROVED"}, expires : Int \cup {Never}]

\* What the keys need of db, clock and deadline.
KeysOK ==
  /\ db \in [Tokens -> Values \cup {NoKey}]
  /\ clock \in 0 .. MaxTime
  /\ deadline \in [Tokens -> Nat]
  /\ \A t \in Tokens : Present(t) =>
       deadline[t] # 0 /\ (db[t].expires = Never \/ db[t].expires > clock)

CallsOK ==
  /\ call = [p \in Callers |-> call[p]]
  /\ \A p \in Callers : call[p] \in Shapes(p)

CountsOK ==
  /\ taken \in [Tokens -> Nat]
  /\ uses \in [Tokens -> Nat]
  /\ writes \in [Tokens -> Nat]

SetsOK ==
  /\ index \subseteq Tokens
  /\ listing \in [Listers -> SUBSET Tokens]
  /\ handed \subseteq Tokens

LEMMA TypeParts == TypeOK <=> KeysOK /\ CallsOK /\ CountsOK /\ SetsOK
BY DEF TypeOK, KeysOK, CallsOK, CountsOK, SetsOK, Values

\* A call that goes on to a state of its kind, and no other call moves.
LEMMA GoOn ==
  ASSUME CallsOK, NEW p \in Callers, NEW c, c \in Shapes(p), Go(p, c)
  PROVE  CallsOK' /\ call'[p] = c /\ \A q \in Callers \ {p} : call'[q] = call[q]
<1>1. call' = [q \in Callers |-> IF q = p THEN c ELSE call[q]]
  BY DEF CallsOK, Go
<1>2. \A q \in Callers : call'[q] = IF q = p THEN c ELSE call[q]
  BY <1>1
<1>3. \A q \in Callers : call'[q] \in Shapes(q)
  BY <1>2 DEF CallsOK
<1>4. call' = [q \in Callers |-> call'[q]]
  BY <1>1
<1> QED BY <1>2, <1>3, <1>4 DEF CallsOK

LEMMA StepCallsOK == TypeOK /\ [Next]_vars => CallsOK'
<1> SUFFICES ASSUME TypeOK, CallsOK, [Next]_vars PROVE CallsOK'
  BY TypeParts
<1>1. CASE UNCHANGED vars \/ Tick
  BY <1>1 DEF CallsOK, vars, Tick, Shapes
<1>2. ASSUME NEW p \in Callers, Crash(p)
      PROVE  CallsOK'
  <2>1. Idle \in Shapes(p)
    BY DEF Shapes
  <2> QED BY <1>2, <2>1, GoOn DEF Crash
<1>3. ASSUME NEW p \in Requesters, GenerateSadd(p) \/ \E t \in Tokens : GenerateSetex(p, t)
      PROVE  CallsOK'
  <2>1. PICK c \in {Idle} \cup [awaits : {"sadd"}, tok : Tokens] : Go(p, c)
    BY <1>3 DEF GenerateSadd, GenerateSetex
  <2>2. p \in Callers /\ c \in Shapes(p)
    BY DEF Callers, Shapes
  <2> QED BY <2>1, <2>2, GoOn
<1>4. ASSUME NEW p \in Executors,
             ConsumeDel(p) \/ ConsumeSrem(p) \/ \E t \in Tokens : ConsumeGet(p, t)
      PROVE  CallsOK'
  <2>0. p \in Callers
    BY DEF Callers
  <2>1. Awaits(p, "del") => call[p].tok \in Tokens
    BY <2>0, RolesAssumption DEF CallsOK, Shapes, Awaits, Idle
  <2>2. PICK c \in {Idle} \cup [awaits : {"del"}, tok : Tokens]
                  \cup [awaits : {"srem"}, tok : Tokens, answer : BOOLEAN] : Go(p, c)
    <3>1. CASE ConsumeDel(p)
      BY <2>1, <3>1 DEF ConsumeDel, Present
    <3>2. CASE ConsumeSrem(p)
      BY <3>2 DEF ConsumeSrem
    <3>3. CASE \E t \in Tokens : ConsumeGet(p, t)
      BY <3>3 DEF ConsumeGet
    <3> QED BY <1>4, <3>1, <3>2, <3>3
  <2>3. c \in Shapes(p)
    BY DEF Shapes
  <2> QED BY <2>0, <2>2, <2>3, GoOn
<1>5. ASSUME NEW p \in Approvers,
             ApproveTtl(p) \/ ApproveSet(p) \/ \E t \in Tokens : ApproveGet(p, t)
      PROVE  CallsOK'
  <2>0. p \in Callers
    BY DEF Callers
  <2>1. Awaits(p, "ttl") => call[p].tok \in Tokens
    BY <2>0, RolesAssumption DEF CallsOK, Shapes, Awaits, Idle
  <2>2. PICK c \in {Idle} \cup [awaits : {"ttl"}, tok : Tokens]
                  \cup [awaits : {"set"}, tok : Tokens, ttl : Int] : Go(p, c)
    <3>1. CASE ApproveTtl(p)
      <4>1. TtlReplies(call[p].tok) \subseteq Int
        BY <2>1, <3>1, TypeParts DEF ApproveTtl, TtlReplies, KeysOK, Values, Present
      <4> QED BY <2>1, <3>1, <4>1 DEF ApproveTtl
    <3>2. CASE ApproveSet(p)
      BY <3>2 DEF ApproveSet
    <3>3. CASE \E t \in Tokens : ApproveGet(p, t)
      BY <3>3 DEF ApproveGet
    <3> QED BY <1>5, <3>1, <3>2, <3>3
  <2>3. c \in Shapes(p)
    BY DEF Shapes
  <2> QED BY <2>0, <2>2, <2>3, GoOn
<1>6. ASSUME NEW p \in Admins,
             RevokeDel(p) \/ RevokeSrem(p) \/ \E t \in Tokens : RevokeGet(p, t)
      PROVE  CallsOK'
  <2>0. p \in Callers
    BY DEF Callers
  <2>1. Awaits(p, "del") => call[p].tok \in Tokens
    BY <2>0, RolesAssumption DEF CallsOK, Shapes, Awaits, Idle
  <2>2. PICK c \in {Idle} \cup [awaits : {"del", "srem"}, tok : Tokens] : Go(p, c)
    BY <1>6, <2>1 DEF RevokeDel, RevokeSrem, RevokeGet
  <2>3. c \in Shapes(p)
    BY DEF Shapes
  <2> QED BY <2>0, <2>2, <2>3, GoOn
<1>7. ASSUME NEW p \in Listers, ListSmembers(p) \/ ListMget(p) \/ ListSrem(p)
      PROVE  CallsOK'
  <2>0. p \in Callers
    BY DEF Callers
  <2>1. PICK c \in {Idle} \cup [awaits : {"mget", "srem"}] : Go(p, c)
    BY <1>7 DEF ListSmembers, ListMget, ListSrem
  <2>2. c \in Shapes(p)
    BY DEF Shapes
  <2> QED BY <2>0, <2>1, <2>2, GoOn
<1> QED
  BY <1>1, <1>2, <1>3, <1>4, <1>5, <1>6, <1>7, Zenon DEF Next

-----------------------------------------------------------------------------
(* The keys, the counts and the sets keep their types *)

\* The calls that are about one token.
Holders == Callers \ Listers

LEMMA Held ==
  ASSUME CallsOK
  PROVE  /\ \A p \in Holders : ~Awaits(p, "nothing") => call[p].tok \in Tokens
         /\ \A p \in Executors : Awaits(p, "srem") => call[p].answer \in BOOLEAN
         /\ \A p \in Approvers : Awaits(p, "set") => call[p].ttl \in Int
<1>1. ASSUME NEW p \in Holders, ~Awaits(p, "nothing")
      PROVE  call[p].tok \in Tokens
  <2>1. call[p] \in Shapes(p) /\ call[p] # Idle /\ p \notin Listers
    BY <1>1 DEF CallsOK, Holders, Awaits, Idle
  <2>2. \/ call[p] \in [awaits : {"sadd"}, tok : Tokens]
        \/ call[p] \in [awaits : {"ttl"}, tok : Tokens]
        \/ call[p] \in [awaits : {"set"}, tok : Tokens, ttl : Int]
        \/ call[p] \in [awaits : {"del"}, tok : Tokens]
        \/ call[p] \in [awaits : {"srem"}, tok : Tokens, answer : BOOLEAN]
        \/ call[p] \in [awaits : {"del", "srem"}, tok : Tokens]
    BY <2>1, Zenon DEF Shapes
  <2> QED BY <2>2
<1>2. \A p \in Executors : Awaits(p, "srem") => call[p].answer \in BOOLEAN
  BY RolesAssumption DEF CallsOK, Shapes, Awaits, Idle, Callers
<1>3. ASSUME NEW p \in Approvers, Awaits(p, "set")
      PROVE  call[p].ttl \in Int
  <2>1. /\ call[p] \in Shapes(p)
        /\ p \notin Requesters /\ p \notin Executors /\ p \notin Admins /\ p \notin Listers
    BY RolesAssumption DEF CallsOK, Callers
  <2>2. \/ call[p] = Idle
        \/ call[p] \in [awaits : {"ttl"}, tok : Tokens]
        \/ call[p] \in [awaits : {"set"}, tok : Tokens, ttl : Int]
    BY <2>1, Zenon DEF Shapes
  <2> QED BY <1>3, <2>2 DEF Awaits, Idle
<1> QED BY <1>1, <1>2, <1>3

LEMMA Roles ==
  Requesters \cup Approvers \cup Executors \cup Admins = Holders
BY RolesAssumption DEF Holders, Callers

\* Every call in flight about a token, and every token handed out, is about a
\* token that was generated.
Begun ==
  /\ \A p \in Holders : ~Awaits(p, "nothing") => deadline[call[p].tok] # 0
  /\ \A t \in handed : deadline[t] # 0

LEMMA StepKeysOK == TypeOK /\ Begun /\ [Next]_vars => KeysOK'
<1> SUFFICES ASSUME KeysOK, CallsOK, Begun, [Next]_vars PROVE KeysOK'
  BY TypeParts
<1> USE ConstantsAssumption DEF Present, Entry
<1>1. CASE UNCHANGED <<db, clock, deadline>>
  BY <1>1 DEF KeysOK
<1>2. CASE Tick
  BY <1>2 DEF KeysOK, Tick, Values
<1>3. ASSUME NEW p \in Requesters, NEW t \in Tokens, GenerateSetex(p, t)
      PROVE  KeysOK'
  BY <1>3 DEF KeysOK, GenerateSetex, Values
<1>4. ASSUME NEW p \in Holders, NEW v, call[p].tok \in Tokens,
             deadline[call[p].tok] # 0,
             \/ v = NoKey
             \/ v \in Values /\ (v.expires = Never \/ v.expires > clock),
             db' = [db EXCEPT ![call[p].tok] = v], UNCHANGED <<clock, deadline>>
      PROVE  KeysOK'
  BY <1>4 DEF KeysOK
<1>5. ASSUME NEW p \in Executors, ConsumeDel(p)
      PROVE  KeysOK'
  <2>1. p \in Holders /\ ~Awaits(p, "nothing")
    BY <1>5, Roles DEF ConsumeDel, Awaits
  <2> QED BY <1>4, <1>5, <2>1, Held DEF ConsumeDel, Begun
<1>6. ASSUME NEW p \in Admins, RevokeDel(p)
      PROVE  KeysOK'
  <2>1. p \in Holders /\ ~Awaits(p, "nothing")
    BY <1>6, Roles DEF RevokeDel, Awaits
  <2> QED BY <1>4, <1>6, <2>1, Held DEF RevokeDel, Begun
<1>7. ASSUME NEW p \in Approvers, ApproveSet(p)
      PROVE  KeysOK'
  <2>1. p \in Holders /\ ~Awaits(p, "nothing") /\ Awaits(p, "set")
    BY <1>7, Roles DEF ApproveSet, Awaits
  <2>2. call[p].tok \in Tokens /\ deadline[call[p].tok] # 0 /\ call[p].ttl \in Int
    BY <2>1, Held DEF Begun
  <2> DEFINE v == Entry("APPROVED", IF call[p].ttl > 0 THEN clock + call[p].ttl ELSE Never)
  <2>3. v \in Values /\ (v.expires = Never \/ v.expires > clock)
    BY <2>2 DEF KeysOK, Values
  <2>4. db' = [db EXCEPT ![call[p].tok] = v] /\ UNCHANGED <<clock, deadline>>
    BY <1>7 DEF ApproveSet
  <2> HIDE DEF v
  <2> QED BY <1>4, <2>1, <2>2, <2>3, <2>4
<1>8. (UNCHANGED vars \/ \E p \in Callers : Crash(p)) => UNCHANGED <<db, clock, deadline>>
  BY DEF vars, Crash
<1>9. ASSUME NEW p, NEW t,
             \/ GenerateSadd(p) \/ ConsumeSrem(p) \/ ConsumeGet(p, t)
             \/ ApproveTtl(p) \/ ApproveGet(p, t) \/ RevokeSrem(p) \/ RevokeGet(p, t)
             \/ ListSmembers(p) \/ ListMget(p) \/ ListSrem(p)
      PROVE  UNCHANGED <<db, clock, deadline>>
  BY <1>9 DEF GenerateSadd, ConsumeSrem, ConsumeGet, ApproveTtl, ApproveGet,
              RevokeSrem, RevokeGet, ListSmembers, ListMget, ListSrem
<1> QED
  BY <1>1, <1>2, <1>3, <1>5, <1>6, <1>7, <1>8, <1>9, Zenon DEF Next

LEMMA StepCountsOK == TypeOK /\ [Next]_vars => CountsOK'
<1> SUFFICES ASSUME CountsOK, CallsOK, [Next]_vars PROVE CountsOK'
  BY TypeParts
<1>1. ASSUME NEW p \in Executors, ConsumeDel(p)
      PROVE  CountsOK'
  <2>1. call[p].tok \in Tokens
    BY <1>1, Held, Roles DEF ConsumeDel, Awaits
  <2> QED BY <1>1, <2>1 DEF CountsOK, ConsumeDel
<1>2. ASSUME NEW p \in Executors, ConsumeSrem(p)
      PROVE  CountsOK'
  <2>1. call[p].tok \in Tokens
    BY <1>2, Held, Roles DEF ConsumeSrem, Awaits
  <2> QED BY <1>2, <2>1 DEF CountsOK, ConsumeSrem
<1>3. ASSUME NEW p \in Approvers, ApproveSet(p)
      PROVE  CountsOK'
  <2>1. call[p].tok \in Tokens
    BY <1>3, Held, Roles DEF ApproveSet, Awaits
  <2> QED BY <1>3, <2>1 DEF CountsOK, ApproveSet
<1>4. UNCHANGED <<taken, uses, writes>> => CountsOK'
  BY DEF CountsOK
<1>5. (UNCHANGED vars \/ Tick \/ \E p \in Callers : Crash(p)) => UNCHANGED <<taken, uses, writes>>
  BY DEF vars, Tick, Crash
<1>6. ASSUME NEW p, NEW t,
             \/ GenerateSadd(p) \/ GenerateSetex(p, t) \/ ConsumeGet(p, t)
             \/ ApproveTtl(p) \/ ApproveGet(p, t)
             \/ RevokeDel(p) \/ RevokeSrem(p) \/ RevokeGet(p, t)
             \/ ListSmembers(p) \/ ListMget(p) \/ ListSrem(p)
      PROVE  UNCHANGED <<taken, uses, writes>>
  BY <1>6 DEF GenerateSadd, GenerateSetex, ConsumeGet, ApproveTtl, ApproveGet, RevokeDel,
              RevokeSrem, RevokeGet, ListSmembers, ListMget, ListSrem
<1> QED
  BY <1>1, <1>2, <1>3, <1>4, <1>5, <1>6, Zenon DEF Next

LEMMA StepSetsOK == TypeOK /\ [Next]_vars => SetsOK'
<1> SUFFICES ASSUME SetsOK, CallsOK, [Next]_vars PROVE SetsOK'
  BY TypeParts
<1>1. ASSUME NEW p \in Requesters, GenerateSadd(p)
      PROVE  SetsOK'
  <2>1. call[p].tok \in Tokens
    BY <1>1, Held, Roles DEF GenerateSadd, Awaits
  <2> QED BY <1>1, <2>1 DEF SetsOK, GenerateSadd
<1>2. ASSUME NEW p, ConsumeSrem(p) \/ RevokeSrem(p)
      PROVE  SetsOK'
  BY <1>2 DEF SetsOK, ConsumeSrem, RevokeSrem
<1>3. ASSUME NEW p \in Callers, Crash(p)
      PROVE  SetsOK'
  BY <1>3 DEF SetsOK, Crash
<1>4. ASSUME NEW p \in Listers, ListSmembers(p) \/ ListSrem(p)
      PROVE  SetsOK'
  BY <1>4 DEF SetsOK, ListSmembers, ListSrem
<1>5. ASSUME NEW p \in Listers, ListMget(p)
      PROVE  SetsOK'
  BY <1>5 DEF SetsOK, ListMget
<1>6. UNCHANGED <<index, listing, handed>> => SetsOK'
  BY DEF SetsOK
<1>7. (UNCHANGED vars \/ Tick) => UNCHANGED <<index, listing, handed>>
  BY DEF vars, Tick
<1>8. ASSUME NEW p, NEW t,
             \/ GenerateSetex(p, t) \/ ConsumeGet(p, t) \/ ConsumeDel(p)
             \/ ApproveTtl(p) \/ ApproveGet(p, t) \/ ApproveSet(p)
             \/ RevokeDel(p) \/ RevokeGet(p, t)
      PROVE  UNCHANGED <<index, listing, handed>>
  BY <1>8 DEF GenerateSetex, ConsumeGet, ConsumeDel, ApproveTtl, ApproveGet, ApproveSet,
              RevokeDel, RevokeGet
<1> QED
  BY <1>1, <1>2, <1>3, <1>4, <1>5, <1>6, <1>7, <1>8, Zenon DEF Next

-----------------------------------------------------------------------------
(* Calls are about generated tokens *)

\* A deadline is set once.
LEMMA StepDeadline ==
  ASSUME TypeOK, [Next]_vars, NEW t \in Tokens, deadline[t] # 0
  PROVE  deadline'[t] = deadline[t]
<1>1. ASSUME NEW p, NEW u \in Tokens, GenerateSetex(p, u)
      PROVE  deadline'[t] = deadline[t]
  BY <1>1 DEF GenerateSetex, TypeOK
<1>2. (UNCHANGED vars \/ Tick \/ \E p \in Callers : Crash(p)) => UNCHANGED deadline
  BY DEF vars, Tick, Crash
<1>3. ASSUME NEW p, NEW u,
             \/ GenerateSadd(p) \/ ConsumeGet(p, u) \/ ConsumeDel(p) \/ ConsumeSrem(p)
             \/ ApproveTtl(p) \/ ApproveGet(p, u) \/ ApproveSet(p)
             \/ RevokeDel(p) \/ RevokeSrem(p) \/ RevokeGet(p, u)
             \/ ListSmembers(p) \/ ListMget(p) \/ ListSrem(p)
      PROVE  UNCHANGED deadline
  BY <1>3 DEF GenerateSadd, ConsumeGet, ConsumeDel, ConsumeSrem, ApproveTtl, ApproveGet,
              ApproveSet, RevokeDel, RevokeSrem, RevokeGet, ListSmembers, ListMget, ListSrem
<1> QED
  BY <1>1, <1>2, <1>3, Zenon DEF Next

\* A call moves on to a token it held before, or to one that was generated.
LEMMA BegunKept ==
  ASSUME TypeOK, Begun, [Next]_vars, NEW p \in Callers, NEW c, Go(p, c),
         handed' \subseteq handed \cup {t \in Tokens : deadline[t] # 0},
         \/ c = Idle
         \/ p \in Listers
         \/ c.tok \in Tokens /\ deadline'[c.tok] # 0
         \/ p \in Holders /\ ~Awaits(p, "nothing") /\ c.tok = call[p].tok
  PROVE  Begun'
<1>1. \A t \in Tokens : deadline[t] # 0 => deadline'[t] # 0
  BY StepDeadline
<1>2. handed \subseteq Tokens /\ CallsOK
  BY TypeParts DEF SetsOK
<1>3. \A t \in handed' : deadline'[t] # 0
  BY <1>1, <1>2 DEF Begun
<1>4. \A q \in Callers : call'[q] = IF q = p THEN c ELSE call[q]
  BY <1>2 DEF CallsOK, Go
<1>5. ASSUME NEW q \in Holders, q # p, ~(call'[q].awaits = "nothing")
      PROVE  deadline'[call'[q].tok] # 0
  BY <1>1, <1>2, <1>4, <1>5, Held DEF Begun, Awaits, Holders
<1>6. ASSUME p \in Holders, ~(call'[p].awaits = "nothing")
      PROVE  deadline'[call'[p].tok] # 0
  <2>1. c # Idle /\ call'[p] = c /\ p \notin Listers
    BY <1>4, <1>6 DEF Idle, Holders
  <2>2. CASE c.tok \in Tokens /\ deadline'[c.tok] # 0
    BY <2>1, <2>2
  <2>3. CASE ~Awaits(p, "nothing") /\ c.tok = call[p].tok
    <3>1. call[p].tok \in Tokens /\ deadline[call[p].tok] # 0
      BY <1>2, <1>6, <2>3, Held DEF Begun
    <3> QED BY <1>1, <2>1, <2>3, <3>1
  <2> QED BY <2>1, <2>2, <2>3
<1> QED BY <1>3, <1>5, <1>6 DEF Begun, Awaits

LEMMA StepBegun == TypeOK /\ Begun /\ [Next]_vars => Begun'
<1> SUFFICES ASSUME TypeOK, Begun, [Next]_vars PROVE Begun'
  OBVIOUS
<1>0. CallsOK /\ handed \subseteq Tokens /\ clock \in Nat /\ deadline \in [Tokens -> Nat]
  BY TypeParts, ConstantsAssumption DEF KeysOK, SetsOK
<1>1. CASE UNCHANGED vars \/ Tick
  BY <1>1 DEF Begun, vars, Tick, Awaits
<1>2. ASSUME NEW p \in Callers, Crash(p)
      PROVE  Begun'
  BY <1>2, BegunKept, Zenon DEF Crash
<1>3. ASSUME NEW p \in Requesters, NEW t \in Tokens, GenerateSetex(p, t)
      PROVE  Begun'
  <2> DEFINE c == [awaits |-> "sadd", tok |-> t]
  <2>1. p \in Callers /\ handed' = handed /\ Go(p, c) /\ c.tok \in Tokens /\ deadline'[c.tok] # 0
    BY <1>0, <1>3, ConstantsAssumption DEF GenerateSetex, Callers
  <2> HIDE DEF c
  <2> QED BY <2>1, BegunKept
<1>4. ASSUME NEW p \in Requesters, GenerateSadd(p)
      PROVE  Begun'
  <2>1. call[p].tok \in Tokens /\ deadline[call[p].tok] # 0
    BY <1>0, <1>4, Held, Roles DEF GenerateSadd, Awaits, Begun
  <2>2. p \in Callers /\ Go(p, Idle)
    BY <1>4 DEF GenerateSadd, Callers
  <2>3. handed' \subseteq handed \cup {t \in Tokens : deadline[t] # 0}
    BY <1>4, <2>1 DEF GenerateSadd
  <2> QED BY <2>2, <2>3, BegunKept
<1>5. ASSUME NEW p \in Executors \cup Approvers \cup Admins, NEW c, Go(p, c), handed' = handed,
             \/ c = Idle
             \/ \E t \in handed : c.tok = t
             \/ ~Awaits(p, "nothing") /\ c.tok = call[p].tok
      PROVE  Begun'
  <2>1. p \in Callers /\ p \in Holders
    BY Roles DEF Callers
  <2>2. \A t \in handed : t \in Tokens /\ deadline'[t] # 0
    BY <1>0, StepDeadline DEF Begun
  <2> QED BY <1>5, <2>1, <2>2, BegunKept
<1>6. ASSUME NEW p \in Executors,
             ConsumeDel(p) \/ ConsumeSrem(p) \/ \E t \in Tokens : ConsumeGet(p, t)
      PROVE  Begun'
  <2>1. CASE ConsumeDel(p)
    <3> DEFINE c == [awaits |-> "srem", tok |-> call[p].tok, answer |-> Present(call[p].tok)]
    <3>1. Go(p, c) /\ handed' = handed /\ ~Awaits(p, "nothing") /\ c.tok = call[p].tok
      BY <2>1 DEF ConsumeDel, Awaits
    <3> HIDE DEF c
    <3> QED BY <1>5, <3>1
  <2>2. CASE ConsumeSrem(p)
    BY <1>5, <2>2, Zenon DEF ConsumeSrem
  <2>3. ASSUME NEW t \in Tokens, ConsumeGet(p, t)
        PROVE  Begun'
    <3> DEFINE c == [awaits |-> "del", tok |-> t]
    <3>1. Go(p, c) /\ handed' = handed /\ t \in handed /\ c.tok = t
      BY <2>3 DEF ConsumeGet
    <3> HIDE DEF c
    <3> QED BY <1>5, <3>1
  <2> QED BY <1>6, <2>1, <2>2, <2>3
<1>7. ASSUME NEW p \in Approvers,
             ApproveTtl(p) \/ ApproveSet(p) \/ \E t \in Tokens : ApproveGet(p, t)
      PROVE  Begun'
  <2>1. CASE ApproveTtl(p)
    <3>1. PICK ttl : Go(p, [awaits |-> "set", tok |-> call[p].tok, ttl |-> ttl])
      BY <2>1 DEF ApproveTtl
    <3> DEFINE c == [awaits |-> "set", tok |-> call[p].tok, ttl |-> ttl]
    <3>2. Go(p, c) /\ handed' = handed /\ ~Awaits(p, "nothing") /\ c.tok = call[p].tok
      BY <2>1, <3>1 DEF ApproveTtl, Awaits
    <3> HIDE DEF c
    <3> QED BY <1>5, <3>2
  <2>2. CASE ApproveSet(p)
    BY <1>5, <2>2, Zenon DEF ApproveSet
  <2>3. ASSUME NEW t \in Tokens, ApproveGet(p, t)
        PROVE  Begun'
    <3> DEFINE c == [awaits |-> "ttl", tok |-> t]
    <3>1. Go(p, c) /\ handed' = handed /\ t \in handed /\ c.tok = t
      BY <2>3 DEF ApproveGet
    <3> HIDE DEF c
    <3> QED BY <1>5, <3>1
  <2> QED BY <1>7, <2>1, <2>2, <2>3
<1>8. ASSUME NEW p \in Admins,
             RevokeDel(p) \/ RevokeSrem(p) \/ \E t \in Tokens : RevokeGet(p, t)
      PROVE  Begun'
  <2>1. CASE RevokeDel(p)
    <3> DEFINE c == [awaits |-> "srem", tok |-> call[p].tok]
    <3>1. Go(p, c) /\ handed' = handed /\ ~Awaits(p, "nothing") /\ c.tok = call[p].tok
      BY <2>1 DEF RevokeDel, Awaits
    <3> HIDE DEF c
    <3> QED BY <1>5, <3>1
  <2>2. CASE RevokeSrem(p)
    BY <1>5, <2>2, Zenon DEF RevokeSrem
  <2>3. ASSUME NEW t \in Tokens, RevokeGet(p, t)
        PROVE  Begun'
    <3> DEFINE c == [awaits |-> "del", tok |-> t]
    <3>1. Go(p, c) /\ handed' = handed /\ t \in handed /\ c.tok = t
      BY <2>3 DEF RevokeGet
    <3> HIDE DEF c
    <3> QED BY <1>5, <3>1
  <2> QED BY <1>8, <2>1, <2>2, <2>3
<1>9. ASSUME NEW p \in Listers, ListSmembers(p) \/ ListMget(p) \/ ListSrem(p)
      PROVE  Begun'
  <2>1. p \in Callers
    BY DEF Callers
  <2>2. \E c : Go(p, c) /\ handed' = handed
    BY <1>9, Zenon DEF ListSmembers, ListMget, ListSrem
  <2> QED BY <2>1, <2>2, BegunKept, Zenon
<1> QED
  BY <1>1, <1>2, <1>3, <1>4, <1>6, <1>7, <1>8, <1>9, Zenon DEF Next

LEMMA TypeBegun == Spec => [](TypeOK /\ Begun)
<1>1. Init => TypeOK /\ Begun
  <2> SUFFICES ASSUME Init PROVE TypeOK /\ Begun
    OBVIOUS
  <2> USE ConstantsAssumption
  <2>1. KeysOK
    BY DEF Init, KeysOK, Present
  <2>2. CallsOK
    BY DEF Init, CallsOK, Shapes
  <2>3. CountsOK /\ SetsOK
    BY DEF Init, CountsOK, SetsOK
  <2>4. Begun
    BY DEF Init, Begun, Holders, Awaits, Idle
  <2> QED BY <2>1, <2>2, <2>3, <2>4, TypeParts
<1>2. TypeOK /\ Begun /\ [Next]_vars => (TypeOK /\ Begun)'
  <2> SUFFICES ASSUME TypeOK, Begun, [Next]_vars PROVE TypeOK' /\ Begun'
    OBVIOUS
  <2>1. KeysOK' /\ CallsOK' /\ CountsOK' /\ SetsOK' /\ Begun'
    BY StepKeysOK, StepCallsOK, StepCountsOK, StepSetsOK, StepBegun
  <2>2. (KeysOK' /\ CallsOK' /\ CountsOK' /\ SetsOK') => TypeOK'
    BY DEF TypeOK, KeysOK, CallsOK, CountsOK, SetsOK, Values, Present
  <2> QED BY <2>1, <2>2
<1> QED BY <1>1, <1>2, PTL DEF Spec

\* Every call awaits what its kind can await, about a token of the store, and a
\* key that is there was generated and is not past its expiry.
THEOREM TypeCorrect == Spec => []TypeOK
BY TypeBegun, PTL

-----------------------------------------------------------------------------
(* A dead token *)

\* How a key can come back: generateToken of a new token, or approveToken.
LEMMA Reborn ==
  ASSUME TypeOK, [Next]_vars, NEW t \in Tokens, ~Present(t), deadline[t] # 0, Writers(t) = {}
  PROVE  ~Present(t)'
<1> USE DEF Present
<1>0. /\ db \in [Tokens -> Values \cup {NoKey}]
      /\ CallsOK
  BY TypeParts DEF KeysOK
<1>1. CASE Tick
  BY <1>1 DEF Tick
<1>2. ASSUME NEW p, NEW u \in Tokens, GenerateSetex(p, u)
      PROVE  ~Present(t)'
  BY <1>0, <1>2 DEF GenerateSetex
<1>3. ASSUME NEW p \in Approvers, ApproveSet(p)
      PROVE  ~Present(t)'
  <2>1. call[p].tok # t
    BY <1>3 DEF ApproveSet, Writers, Awaits
  <2> QED BY <1>0, <1>3, <2>1 DEF ApproveSet
<1>4. ASSUME NEW p, ConsumeDel(p) \/ RevokeDel(p)
      PROVE  ~Present(t)'
  BY <1>0, <1>4 DEF ConsumeDel, RevokeDel
<1>5. (UNCHANGED vars \/ \E p \in Callers : Crash(p)) => UNCHANGED db
  BY DEF vars, Crash
<1>6. ASSUME NEW p, NEW u,
             \/ GenerateSadd(p) \/ ConsumeGet(p, u) \/ ConsumeSrem(p)
             \/ ApproveTtl(p) \/ ApproveGet(p, u) \/ RevokeSrem(p) \/ RevokeGet(p, u)
             \/ ListSmembers(p) \/ ListMget(p) \/ ListSrem(p)
      PROVE  UNCHANGED db
  BY <1>6 DEF GenerateSadd, ConsumeGet, ConsumeSrem, ApproveTtl, ApproveGet,
              RevokeSrem, RevokeGet, ListSmembers, ListMget, ListSrem
<1> QED
  BY <1>1, <1>2, <1>3, <1>4, <1>5, <1>6, Zenon DEF Next

\* A token whose key is gone stays gone unless a call of approveToken is between
\* its GET and its SETEX, for any number of calls of every kind.
THEOREM DeadAlwaysStays == Spec => DeadStaysDead
<1>1. TypeOK /\ [Next]_vars =>
        [\A t \in Tokens :
           (deadline[t] # 0 /\ ~Present(t) /\ Writers(t) = {}) => ~Present(t)']_vars
  BY Reborn
<1> QED BY <1>1, TypeCorrect, PTL DEF Spec, DeadStaysDead

-----------------------------------------------------------------------------
(* Uses are paid for by approvals *)

Weight(t) == IF Approved(t) THEN 1 ELSE 0

\* The record that a DEL of validateAndConsume removes is approved: only a
\* record that was approved is removed, and no record waits again.
Ledger ==
  /\ \A t \in Tokens : deadline[t] = 0 => taken[t] = 0 /\ writes[t] = 0
  /\ \A t \in Tokens : Pending(t) => taken[t] = 0
  /\ \A p \in Executors : Awaits(p, "del") => ~Pending(call[p].tok)
  /\ \A t \in Tokens : taken[t] + Weight(t) <= writes[t]

\* What a step does to the key and the counts of a token.
LEMMA Effect ==
  ASSUME TypeOK, Begun, Ledger, [Next]_vars, NEW t \in Tokens
  PROVE  \* nothing, or the key is dropped
         \/ /\ taken'[t] = taken[t] /\ writes'[t] = writes[t]
            /\ db'[t] \in {db[t], NoKey}
         \* generateToken
         \/ /\ deadline[t] = 0 /\ deadline'[t] # 0
            /\ taken'[t] = taken[t] /\ writes'[t] = writes[t]
            /\ db'[t] # NoKey /\ db'[t].status = "PENDING"
         \* validateAndConsume
         \/ /\ deadline[t] # 0 /\ Approved(t)
            /\ taken'[t] = taken[t] + 1 /\ writes'[t] = writes[t]
            /\ db'[t] = NoKey
         \* approveToken
         \/ /\ deadline[t] # 0
            /\ taken'[t] = taken[t] /\ writes'[t] = writes[t] + 1
            /\ db'[t] # NoKey /\ db'[t].status = "APPROVED"
<1>0. /\ db \in [Tokens -> Values \cup {NoKey}] /\ deadline \in [Tokens -> Nat]
      /\ CallsOK /\ taken \in [Tokens -> Nat] /\ writes \in [Tokens -> Nat] /\ clock \in Nat
  BY TypeParts, ConstantsAssumption DEF KeysOK, CountsOK
<1>1. CASE Tick
  BY <1>0, <1>1 DEF Tick
<1>2. ASSUME NEW p \in Requesters, NEW u \in Tokens, GenerateSetex(p, u)
      PROVE  \/ UNCHANGED <<taken, writes>> /\ db'[t] = db[t]
             \/ /\ deadline[t] = 0 /\ deadline'[t] # 0 /\ UNCHANGED <<taken, writes>>
                /\ db'[t] # NoKey /\ db'[t].status = "PENDING"
  BY <1>0, <1>2, ConstantsAssumption DEF GenerateSetex, Entry
<1>3. ASSUME NEW p \in Executors, ConsumeDel(p)
      PROVE  \/ taken'[t] = taken[t] /\ writes' = writes /\ db'[t] \in {db[t], NoKey}
             \/ /\ deadline[t] # 0 /\ Approved(t) /\ taken'[t] = taken[t] + 1
                /\ writes' = writes /\ db'[t] = NoKey
  <2>1. call[p].tok \in Tokens /\ deadline[call[p].tok] # 0 /\ ~Pending(call[p].tok)
    BY <1>0, <1>3, Held, Roles DEF ConsumeDel, Awaits, Begun, Ledger
  <2>2. Present(call[p].tok) => Approved(call[p].tok)
    BY <1>0, <2>1 DEF Present, Approved, Pending, Values
  <2> QED BY <1>0, <1>3, <2>1, <2>2 DEF ConsumeDel
<1>4. ASSUME NEW p \in Approvers, ApproveSet(p)
      PROVE  \/ taken' = taken /\ writes'[t] = writes[t] /\ db'[t] = db[t]
             \/ /\ deadline[t] # 0 /\ taken' = taken /\ writes'[t] = writes[t] + 1
                /\ db'[t] # NoKey /\ db'[t].status = "APPROVED"
  <2>1. /\ call[p].tok \in Tokens /\ deadline[call[p].tok] # 0
        /\ call[p].ttl \in Int
    BY <1>0, <1>4, Held, Roles DEF ApproveSet, Awaits, Begun
  <2> DEFINE v == Entry("APPROVED", IF call[p].ttl > 0 THEN clock + call[p].ttl ELSE Never)
  <2>2. v \in Values /\ v.status = "APPROVED"
    BY <1>0, <2>1 DEF Values, Entry
  <2>3. v # NoKey
    BY <2>2, ConstantsAssumption DEF Values
  <2>4. /\ db' = [db EXCEPT ![call[p].tok] = v] /\ taken' = taken
        /\ writes' = [writes EXCEPT ![call[p].tok] = @ + 1]
    BY <1>4 DEF ApproveSet
  <2> HIDE DEF v
  <2> QED BY <1>0, <2>1, <2>2, <2>3, <2>4
<1>5. ASSUME NEW p \in Admins, RevokeDel(p)
      PROVE  UNCHANGED <<taken, writes>> /\ db'[t] \in {db[t], NoKey}
  BY <1>0, <1>5 DEF RevokeDel
<1>6. (UNCHANGED vars \/ \E p \in Callers : Crash(p)) => UNCHANGED <<taken, writes, db>>
  BY DEF vars, Crash
<1>7. ASSUME NEW p, NEW u,
             \/ GenerateSadd(p) \/ ConsumeGet(p, u) \/ ConsumeSrem(p)
             \/ ApproveTtl(p) \/ ApproveGet(p, u) \/ RevokeSrem(p) \/ RevokeGet(p, u)
             \/ ListSmembers(p) \/ ListMget(p) \/ ListSrem(p)
      PROVE  UNCHANGED <<taken, writes, db>>
  BY <1>7 DEF GenerateSadd, ConsumeGet, ConsumeSrem, ApproveTtl, ApproveGet,
              RevokeSrem, RevokeGet, ListSmembers, ListMget, ListSrem
<1>8. CASE \E p \in Requesters : \E u \in Tokens : GenerateSetex(p, u)
  BY <1>2, <1>8, Zenon
<1>9. CASE \E p \in Executors : ConsumeDel(p)
  BY <1>3, <1>9
<1>10. CASE \E p \in Approvers : ApproveSet(p)
  BY <1>4, <1>10
<1>11. CASE \E p \in Admins : RevokeDel(p)
  BY <1>5, <1>11
<1>12. CASE UNCHANGED <<taken, writes, db>>
  BY <1>12
<1> QED
  BY <1>1, <1>6, <1>7, <1>8, <1>9, <1>10, <1>11, <1>12, Zenon DEF Next

\* The call that moves and where it goes to.
LEMMA Moved ==
  ASSUME TypeOK, [Next]_vars
  PROVE  \/ UNCHANGED call
         \/ \E p \in Callers : Go(p, Idle)
         \/ \E p \in Requesters, t \in Tokens : Go(p, [awaits |-> "sadd", tok |-> t])
         \/ \E p \in Executors, t \in Tokens : ConsumeGet(p, t)
         \/ \E p \in Executors : ConsumeDel(p)
         \/ \E p \in Approvers, t \in Tokens : ApproveGet(p, t)
         \/ \E p \in Approvers : ApproveTtl(p)
         \/ \E p \in Admins : \E c : Go(p, c)
         \/ \E p \in Listers : \E c : Go(p, c)
<1>1. (UNCHANGED vars \/ Tick) => UNCHANGED call
  BY DEF vars, Tick
<1>2. ASSUME NEW p \in Callers,
             Crash(p) \/ GenerateSadd(p) \/ ConsumeSrem(p) \/ ApproveSet(p)
      PROVE  Go(p, Idle)
  BY <1>2, Zenon DEF Crash, GenerateSadd, ConsumeSrem, ApproveSet
<1>3. ASSUME NEW p, NEW t, GenerateSetex(p, t)
      PROVE  Go(p, [awaits |-> "sadd", tok |-> t])
  BY <1>3, Zenon DEF GenerateSetex
<1>4. ASSUME NEW p \in Admins,
             RevokeDel(p) \/ RevokeSrem(p) \/ \E t \in Tokens : RevokeGet(p, t)
      PROVE  \E c : Go(p, c)
  BY <1>4, Zenon DEF RevokeDel, RevokeSrem, RevokeGet
<1>5. ASSUME NEW p \in Listers, ListSmembers(p) \/ ListMget(p) \/ ListSrem(p)
      PROVE  \E c : Go(p, c)
  BY <1>5, Zenon DEF ListSmembers, ListMget, ListSrem
<1>6. Requesters \subseteq Callers /\ Executors \subseteq Callers /\ Approvers \subseteq Callers
  BY DEF Callers
<1> QED
  BY <1>1, <1>2, <1>3, <1>4, <1>5, <1>6, Zenon DEF Next

\* The call of a function of the store after another call, or it, moved.
LEMMA CallAfter ==
  ASSUME TypeOK, NEW p \in Callers, NEW c, Go(p, c), NEW q \in Callers
  PROVE  call'[q] = IF q = p THEN c ELSE call[q]
BY DEF TypeOK, Go

\* A call that is about to DEL, was, or has just read the record.
LEMMA DelFrom ==
  ASSUME TypeOK, [Next]_vars, NEW q \in Executors, Awaits(q, "del")'
  PROVE  \/ Awaits(q, "del") /\ call'[q].tok = call[q].tok
         \/ Approved(call'[q].tok) /\ UNCHANGED db
<1>0. /\ Executors \subseteq Callers /\ Requesters \subseteq Callers /\ Approvers \subseteq Callers
      /\ q \in Callers /\ Admins \subseteq Callers /\ Listers \subseteq Callers
      /\ q \notin Requesters /\ q \notin Approvers /\ q \notin Admins /\ q \notin Listers
  BY RolesAssumption DEF Callers
<1>1. ASSUME NEW p \in Callers, NEW c, Go(p, c), p # q
      PROVE  call'[q] = call[q]
  BY <1>0, <1>1, CallAfter
<1>2. ASSUME Go(q, Idle)
      PROVE  FALSE
  BY <1>0, <1>2, CallAfter DEF Awaits, Idle
<1>3. ASSUME NEW p \in Executors, NEW t \in Tokens, ConsumeGet(p, t)
      PROVE  call'[q] = call[q] \/ (Approved(call'[q].tok) /\ UNCHANGED db)
  <2> DEFINE c == [awaits |-> "del", tok |-> t]
  <2>1. Go(p, c) /\ Approved(t) /\ UNCHANGED db /\ c.tok = t
    BY <1>3 DEF ConsumeGet
  <2> HIDE DEF c
  <2>2. call'[q] = IF q = p THEN c ELSE call[q]
    BY <1>0, <2>1, CallAfter
  <2> QED BY <2>1, <2>2
<1>4. ASSUME NEW p \in Executors, ConsumeDel(p)
      PROVE  call'[q] = call[q]
  <2>1. PICK b : Go(p, [awaits |-> "srem", tok |-> call[p].tok, answer |-> b])
    BY <1>4, Zenon DEF ConsumeDel
  <2> DEFINE c == [awaits |-> "srem", tok |-> call[p].tok, answer |-> b]
  <2>2. Go(p, c) /\ c.awaits = "srem"
    BY <2>1
  <2> HIDE DEF c
  <2> QED BY <1>0, <1>1, <2>2, CallAfter DEF Awaits
<1>5. ASSUME NEW p \in Approvers, (\E t \in Tokens : ApproveGet(p, t)) \/ ApproveTtl(p)
      PROVE  \E c : Go(p, c)
  BY <1>5, Zenon DEF ApproveGet, ApproveTtl
<1>6. call'[q] = call[q] \/ (Approved(call'[q].tok) /\ UNCHANGED db)
  BY <1>0, <1>1, <1>2, <1>3, <1>4, <1>5, Moved, Zenon
<1> QED BY <1>6 DEF Awaits

LEMMA StepLedger == TypeOK /\ Begun /\ Ledger /\ [Next]_vars => Ledger'
<1> SUFFICES ASSUME TypeOK, Begun, Ledger, [Next]_vars PROVE Ledger'
  OBVIOUS
<1>0. /\ taken \in [Tokens -> Nat] /\ writes \in [Tokens -> Nat] /\ CallsOK
      /\ taken' \in [Tokens -> Nat] /\ writes' \in [Tokens -> Nat] /\ CallsOK'
  BY TypeParts, StepCallsOK, StepCountsOK DEF CountsOK
<1>1. ASSUME NEW t \in Tokens, deadline'[t] = 0
      PROVE  taken'[t] = 0 /\ writes'[t] = 0
  <2>1. deadline[t] = 0
    BY <1>1, StepDeadline
  <2>2. taken[t] = 0 /\ writes[t] = 0
    BY <2>1 DEF Ledger
  <2> QED BY <1>1, <2>1, <2>2, Effect
<1>2. ASSUME NEW t \in Tokens, Pending(t)'
      PROVE  taken'[t] = 0
  <2>1. deadline[t] = 0 => taken[t] = 0
    BY DEF Ledger
  <2>2. Pending(t) => taken[t] = 0
    BY DEF Ledger
  <2> QED BY <1>2, <2>1, <2>2, Effect DEF Pending, Present
<1>3. ASSUME NEW p \in Executors, Awaits(p, "del")'
      PROVE  ~Pending(call[p].tok)'
  <2>1. call'[p].tok \in Tokens
    <3>1. CallsOK' => (Awaits(p, "del")' => call'[p].tok \in Tokens)
      <4>1. p \in Callers /\ p \notin Listers /\ p \notin Requesters
            /\ p \notin Approvers /\ p \notin Admins
        BY RolesAssumption DEF Callers
      <4> QED BY <4>1 DEF CallsOK, Shapes, Awaits, Idle
    <3> QED BY <1>0, <1>3, <3>1
  <2>2. CASE Approved(call'[p].tok) /\ UNCHANGED db
    BY <2>2 DEF Approved, Pending, Present
  <2>3. CASE Awaits(p, "del") /\ call'[p].tok = call[p].tok
    <3>1. deadline[call[p].tok] # 0 /\ ~Pending(call[p].tok)
      BY <2>3, Roles DEF Begun, Ledger, Awaits
    <3> QED BY <2>1, <2>3, <3>1, Effect DEF Pending, Present
  <2> QED BY <1>3, <2>2, <2>3, DelFrom
<1>4. ASSUME NEW t \in Tokens
      PROVE  taken'[t] + Weight(t)' <= writes'[t]
  <2>1. taken[t] + Weight(t) <= writes[t]
    BY DEF Ledger
  <2>2. taken[t] \in Nat /\ writes[t] \in Nat
    BY <1>0
  <2> QED BY <2>1, <2>2, Effect DEF Weight, Approved, Present
<1> QED BY <1>1, <1>2, <1>3, <1>4 DEF Ledger

-----------------------------------------------------------------------------
(* Winners and writers *)

LEMMA WinnersFinite ==
  ASSUME NEW t
  PROVE  IsFiniteSet(Winners(t)) /\ Cardinality(Winners(t)) \in Nat
BY CallsFinite, FS_Subset, FS_CardinalityType DEF Winners

LEMMA WritersFinite ==
  ASSUME NEW t
  PROVE  /\ IsFiniteSet(Writers(t)) /\ Cardinality(Writers(t)) \in Nat
         /\ Cardinality(Approvers) \in Nat /\ Cardinality(Writers(t)) <= Cardinality(Approvers)
<1>1. Writers(t) \subseteq Approvers /\ IsFiniteSet(Approvers)
  BY CallsFinite DEF Writers
<1> QED BY <1>1, FS_Subset, FS_CardinalityType

\* Who moves, when it is no executor, leaves the winners as they are; when it is
\* no approver, the writers.
LEMMA SetsAfter ==
  ASSUME TypeOK, NEW p \in Callers, NEW c, Go(p, c), NEW t
  PROVE  /\ Winners(t)' = (Winners(t) \ {p}) \cup
              {q \in {p} \cap Executors : c.awaits = "srem" /\ c.tok = t /\ c.answer}
         /\ Writers(t)' = (Writers(t) \ {p}) \cup
              {q \in {p} \cap Approvers : c.awaits \in {"ttl", "set"} /\ c.tok = t}
<1>1. \A q \in Callers : call'[q] = IF q = p THEN c ELSE call[q]
  BY CallAfter
<1>2. Executors \subseteq Callers /\ Approvers \subseteq Callers
  BY DEF Callers
<1> QED BY <1>1, <1>2 DEF Winners, Writers, Awaits

Used == \A t \in Tokens : uses[t] + Cardinality(Winners(t)) <= taken[t]

\* Lines 166-170: the DEL of one call removes the record and only that call
\* answers true.
LEMMA StepUsed == TypeOK /\ Used /\ [Next]_vars => Used'
<1> SUFFICES ASSUME TypeOK, Used, [Next]_vars, NEW t \in Tokens
             PROVE  uses'[t] + Cardinality(Winners(t)') <= taken'[t]
  BY DEF Used
<1>0. /\ taken \in [Tokens -> Nat] /\ uses \in [Tokens -> Nat] /\ CallsOK
      /\ uses[t] + Cardinality(Winners(t)) <= taken[t]
      /\ Winners(t) \subseteq Executors
  BY TypeParts DEF CountsOK, Used, Winners
<1>1. ASSUME UNCHANGED <<taken, uses>>, Winners(t)' \subseteq Winners(t)
      PROVE  uses'[t] + Cardinality(Winners(t)') <= taken'[t]
  <2>1. Cardinality(Winners(t)') <= Cardinality(Winners(t)) /\ Cardinality(Winners(t)') \in Nat
    BY <1>1, WinnersFinite, FS_Subset, FS_CardinalityType
  <2> QED BY <1>0, <1>1, <2>1, WinnersFinite
<1>2. ASSUME NEW p \in Executors, ConsumeDel(p)
      PROVE  uses'[t] + Cardinality(Winners(t)') <= taken'[t]
  <2> DEFINE u == call[p].tok
             c == [awaits |-> "srem", tok |-> u, answer |-> Present(u)]
  <2>1. u \in Tokens
    BY <1>0, <1>2, Held, Roles DEF ConsumeDel, Awaits
  <2>2. /\ Go(p, c) /\ c.tok = u /\ c.answer = Present(u) /\ c.awaits = "srem"
        /\ taken' = [taken EXCEPT ![u] = IF Present(u) THEN @ + 1 ELSE @]
        /\ uses' = uses
    BY <1>2 DEF ConsumeDel
  <2>3. p \in Callers /\ p \notin Winners(t)
    BY <1>2 DEF Callers, Winners, ConsumeDel, Awaits
  <2> HIDE DEF c, u
  <2>4. Winners(t)' = IF u = t /\ Present(u) THEN Winners(t) \cup {p} ELSE Winners(t)
    BY <2>2, <2>3, SetsAfter
  <2>5. Cardinality(Winners(t) \cup {p}) = Cardinality(Winners(t)) + 1
    BY <2>3, WinnersFinite, FS_AddElement
  <2> QED BY <1>0, <2>1, <2>2, <2>4, <2>5, WinnersFinite
<1>3. ASSUME NEW p \in Executors, ConsumeSrem(p)
      PROVE  uses'[t] + Cardinality(Winners(t)') <= taken'[t]
  <2>1. call[p].tok \in Tokens /\ call[p].answer \in BOOLEAN
    BY <1>0, <1>3, Held, Roles DEF ConsumeSrem, Awaits
  <2>2. p \in Callers /\ Go(p, Idle) /\ taken' = taken
    BY <1>3 DEF ConsumeSrem, Callers
  <2>3. Winners(t)' = Winners(t) \ {p}
    BY <2>2, SetsAfter DEF Idle
  <2>4. p \in Winners(t) <=> call[p].tok = t /\ call[p].answer
    BY <1>3 DEF Winners, ConsumeSrem
  <2>5. uses'[t] = IF p \in Winners(t) THEN uses[t] + 1 ELSE uses[t]
    BY <1>0, <1>3, <2>1, <2>4 DEF ConsumeSrem
  <2>6. Cardinality(Winners(t) \ {p})
          = IF p \in Winners(t) THEN Cardinality(Winners(t)) - 1 ELSE Cardinality(Winners(t))
    BY WinnersFinite, FS_RemoveElement
  <2> QED BY <1>0, <2>2, <2>3, <2>5, <2>6, WinnersFinite
<1>4. ASSUME NEW p \in Callers, Crash(p)
      PROVE  UNCHANGED <<taken, uses>> /\ Winners(t)' \subseteq Winners(t)
  <2>1. Winners(t)' = Winners(t) \ {p}
    BY <1>4, SetsAfter DEF Crash, Idle
  <2> QED BY <1>4, <2>1 DEF Crash
<1>5. ASSUME NEW p \in Executors, NEW u \in Tokens, ConsumeGet(p, u)
      PROVE  UNCHANGED <<taken, uses>> /\ Winners(t)' \subseteq Winners(t)
  <2> DEFINE c == [awaits |-> "del", tok |-> u]
  <2>1. p \in Callers /\ Go(p, c) /\ c.awaits = "del"
    BY <1>5 DEF ConsumeGet, Callers
  <2> HIDE DEF c
  <2>2. Winners(t)' = Winners(t) \ {p}
    BY <2>1, SetsAfter
  <2> QED BY <1>5, <2>2 DEF ConsumeGet
<1>6. ASSUME NEW p \in Callers \ Executors, NEW u,
             \/ GenerateSadd(p) \/ GenerateSetex(p, u)
             \/ ApproveTtl(p) \/ ApproveGet(p, u) \/ ApproveSet(p)
             \/ RevokeDel(p) \/ RevokeSrem(p) \/ RevokeGet(p, u)
             \/ ListSmembers(p) \/ ListMget(p) \/ ListSrem(p)
      PROVE  UNCHANGED <<taken, uses>> /\ Winners(t)' \subseteq Winners(t)
  <2>1. (\E c : Go(p, c)) /\ UNCHANGED <<taken, uses>>
    BY <1>6, Zenon DEF GenerateSadd, GenerateSetex, ApproveTtl, ApproveGet, ApproveSet,
       RevokeDel, RevokeSrem, RevokeGet, ListSmembers, ListMget, ListSrem
  <2>2. PICK c : Go(p, c)
    BY <2>1
  <2>3. Winners(t)' \subseteq Winners(t)
    BY <2>2, SetsAfter
  <2> QED BY <2>1, <2>3
<1>7. (UNCHANGED vars \/ Tick) => UNCHANGED <<taken, uses>> /\ Winners(t)' \subseteq Winners(t)
  BY DEF vars, Tick, Winners, Awaits
<1>8. Executors \subseteq Callers /\ Requesters \cup Approvers \cup Admins \cup Listers \subseteq Callers \ Executors
  BY RolesAssumption DEF Callers
<1>9. ASSUME NEW p \in Requesters, GenerateSadd(p) \/ \E u \in Tokens : GenerateSetex(p, u)
      PROVE  UNCHANGED <<taken, uses>> /\ Winners(t)' \subseteq Winners(t)
  BY <1>6, <1>8, <1>9
<1>10. ASSUME NEW p \in Approvers,
              ApproveTtl(p) \/ ApproveSet(p) \/ \E u \in Tokens : ApproveGet(p, u)
       PROVE  UNCHANGED <<taken, uses>> /\ Winners(t)' \subseteq Winners(t)
  BY <1>6, <1>8, <1>10
<1>11. ASSUME NEW p \in Admins,
              RevokeDel(p) \/ RevokeSrem(p) \/ \E u \in Tokens : RevokeGet(p, u)
       PROVE  UNCHANGED <<taken, uses>> /\ Winners(t)' \subseteq Winners(t)
  BY <1>6, <1>8, <1>11
<1>12. ASSUME NEW p \in Listers, ListSmembers(p) \/ ListMget(p) \/ ListSrem(p)
       PROVE  UNCHANGED <<taken, uses>> /\ Winners(t)' \subseteq Winners(t)
  BY <1>6, <1>8, <1>12
<1> QED
  BY <1>1, <1>2, <1>3, <1>4, <1>5, <1>7, <1>9, <1>10, <1>11, <1>12, Zenon DEF Next

\* Every time a token is honoured was paid for by a write of its own by an
\* approver, for any number of racing calls of every kind.
THEOREM UseAlwaysBacked == Spec => []ApprovalBackedUse
<1>1. Init => Ledger /\ Used
  <2> SUFFICES ASSUME Init PROVE Ledger /\ Used
    OBVIOUS
  <2>1. \A t \in Tokens : Winners(t) = {}
    BY DEF Init, Winners, Awaits, Idle, Callers
  <2>2. Used
    BY <2>1, FS_EmptySet DEF Init, Used
  <2>3. \A p \in Executors : ~Awaits(p, "del")
    BY DEF Init, Awaits, Idle, Callers
  <2>4. \A t \in Tokens : ~Present(t) /\ taken[t] = 0 /\ writes[t] = 0
    BY DEF Init, Present
  <2>5. Ledger
    BY <2>3, <2>4 DEF Ledger, Weight, Approved, Pending
  <2> QED BY <2>2, <2>5
<1>2. TypeOK /\ Begun /\ Ledger /\ Used /\ [Next]_vars => (Ledger /\ Used)'
  BY StepLedger, StepUsed
<1>3. Ledger /\ Used => ApprovalBackedUse
  BY DEF Ledger, Used, ApprovalBackedUse, Weight
<1> QED BY <1>1, <1>2, <1>3, TypeBegun, PTL DEF Spec

Overlap ==
  \A t \in Tokens : taken[t] + Weight(t) + Cardinality(Writers(t)) <= Cardinality(Approvers)

\* Lines 184-200: the unconditional write of approveToken.  A writer starts on a
\* pending record, when nothing was taken yet, and each writer writes once.
LEMMA StepOverlap == TypeOK /\ Begun /\ Ledger /\ Overlap /\ [Next]_vars => Overlap'
<1> SUFFICES ASSUME TypeOK, Begun, Ledger, Overlap, [Next]_vars, NEW t \in Tokens
             PROVE  taken'[t] + Weight(t)' + Cardinality(Writers(t)') <= Cardinality(Approvers)
  BY DEF Overlap
<1>0. /\ taken \in [Tokens -> Nat] /\ CallsOK /\ taken' \in [Tokens -> Nat]
      /\ db \in [Tokens -> Values \cup {NoKey}]
      /\ taken[t] + Weight(t) + Cardinality(Writers(t)) <= Cardinality(Approvers)
      /\ Weight(t) \in {0, 1} /\ Weight(t)' \in {0, 1}
  BY TypeParts, StepCountsOK DEF CountsOK, KeysOK, Overlap, Weight
<1>a. Cardinality(Writers(t)') \in Nat /\ Cardinality(Writers(t)') <= Cardinality(Approvers)
  <2>1. Writers(t)' \subseteq Approvers
    BY DEF Writers
  <2> QED BY <2>1, CallsFinite, FS_Subset, FS_CardinalityType
<1>1. ASSUME Writers(t)' \subseteq Writers(t), writes'[t] = writes[t]
      PROVE  taken'[t] + Weight(t)' + Cardinality(Writers(t)') <= Cardinality(Approvers)
  <2>1. Cardinality(Writers(t)') <= Cardinality(Writers(t))
    BY <1>1, WritersFinite, FS_Subset
  <2>2. taken'[t] + Weight(t)' <= taken[t] + Weight(t)
    <3>1. writes[t] \in Nat /\ taken[t] \in Nat
      BY TypeParts DEF CountsOK
    <3> QED BY <1>1, <3>1, Effect DEF Weight, Approved, Present
  <2> QED BY <1>0, <1>a, <2>1, <2>2, WritersFinite
<1>2. ASSUME NEW p \in Approvers, ApproveSet(p)
      PROVE  taken'[t] + Weight(t)' + Cardinality(Writers(t)') <= Cardinality(Approvers)
  <2>1. p \in Callers /\ Go(p, Idle) /\ taken' = taken
    BY <1>2 DEF ApproveSet, Callers
  <2>2. Writers(t)' = Writers(t) \ {p}
    BY <2>1, SetsAfter DEF Idle
  <2>3. p \in Writers(t) <=> call[p].tok = t
    BY <1>2 DEF Writers, ApproveSet, Awaits
  <2>4. Cardinality(Writers(t) \ {p})
          = IF p \in Writers(t) THEN Cardinality(Writers(t)) - 1 ELSE Cardinality(Writers(t))
    BY WritersFinite, FS_RemoveElement
  <2>5. call[p].tok # t => Weight(t)' = Weight(t)
    BY <1>0, <1>2 DEF ApproveSet, Weight, Approved, Present
  <2> QED BY <1>0, <2>1, <2>2, <2>3, <2>4, <2>5, WritersFinite
<1>3. ASSUME NEW p \in Approvers, NEW u \in Tokens, ApproveGet(p, u)
      PROVE  taken'[t] + Weight(t)' + Cardinality(Writers(t)') <= Cardinality(Approvers)
  <2> DEFINE c == [awaits |-> "ttl", tok |-> u]
  <2>1. /\ p \in Callers /\ Go(p, c) /\ c.tok = u /\ Pending(u)
        /\ UNCHANGED <<db, taken, writes>>
    BY <1>3 DEF ApproveGet, Callers
  <2> HIDE DEF c
  <2>2. CASE u = t
    <3>1. taken'[t] = 0 /\ Weight(t)' = 0
      BY <2>1, <2>2 DEF Ledger, Weight, Approved, Pending, Present
    <3> QED BY <1>a, <3>1
  <2>3. CASE u # t
    <3>1. Writers(t)' = Writers(t) \ {p}
      BY <2>1, <2>3, SetsAfter
    <3> QED BY <1>1, <2>1, <3>1
  <2> QED BY <2>2, <2>3
<1>4. ASSUME NEW p \in Approvers, ApproveTtl(p)
      PROVE  Writers(t)' \subseteq Writers(t) /\ UNCHANGED writes
  <2>1. PICK ttl : Go(p, [awaits |-> "set", tok |-> call[p].tok, ttl |-> ttl])
    BY <1>4 DEF ApproveTtl
  <2> DEFINE c == [awaits |-> "set", tok |-> call[p].tok, ttl |-> ttl]
  <2>2. p \in Callers /\ Go(p, c) /\ c.tok = call[p].tok
    BY <2>1 DEF Callers
  <2> HIDE DEF c
  <2>3. Writers(t)' \subseteq (Writers(t) \ {p}) \cup {q \in {p} : call[p].tok = t}
    BY <2>2, SetsAfter
  <2>4. call[p].tok = t => p \in Writers(t)
    BY <1>4 DEF Writers, ApproveTtl, Awaits
  <2> QED BY <1>4, <2>3, <2>4 DEF ApproveTtl
<1>5. ASSUME NEW p \in Callers, Crash(p)
      PROVE  Writers(t)' \subseteq Writers(t) /\ UNCHANGED writes
  <2>1. Writers(t)' = Writers(t) \ {p}
    BY <1>5, SetsAfter DEF Crash, Idle
  <2> QED BY <1>5, <2>1 DEF Crash
<1>6. ASSUME NEW p \in Callers \ Approvers, NEW u,
             \/ GenerateSadd(p) \/ GenerateSetex(p, u)
             \/ ConsumeGet(p, u) \/ ConsumeDel(p) \/ ConsumeSrem(p)
             \/ RevokeDel(p) \/ RevokeSrem(p) \/ RevokeGet(p, u)
             \/ ListSmembers(p) \/ ListMget(p) \/ ListSrem(p)
      PROVE  Writers(t)' \subseteq Writers(t) /\ UNCHANGED writes
  <2>1. (\E c : Go(p, c)) /\ UNCHANGED writes
    BY <1>6, Zenon DEF GenerateSadd, GenerateSetex, ConsumeGet, ConsumeDel, ConsumeSrem,
       RevokeDel, RevokeSrem, RevokeGet, ListSmembers, ListMget, ListSrem
  <2>2. PICK c : Go(p, c)
    BY <2>1
  <2>3. Writers(t)' \subseteq Writers(t)
    BY <2>2, SetsAfter
  <2> QED BY <2>1, <2>3
<1>7. (UNCHANGED vars \/ Tick) => Writers(t)' \subseteq Writers(t) /\ UNCHANGED writes
  BY DEF vars, Tick, Writers
<1>8. Requesters \cup Executors \cup Admins \cup Listers \subseteq Callers \ Approvers
  BY RolesAssumption DEF Callers
<1>9. ASSUME NEW p \in Requesters, GenerateSadd(p) \/ \E u \in Tokens : GenerateSetex(p, u)
      PROVE  Writers(t)' \subseteq Writers(t) /\ UNCHANGED writes
  BY <1>6, <1>8, <1>9
<1>10. ASSUME NEW p \in Executors,
              ConsumeDel(p) \/ ConsumeSrem(p) \/ \E u \in Tokens : ConsumeGet(p, u)
       PROVE  Writers(t)' \subseteq Writers(t) /\ UNCHANGED writes
  BY <1>6, <1>8, <1>10
<1>11. ASSUME NEW p \in Admins,
              RevokeDel(p) \/ RevokeSrem(p) \/ \E u \in Tokens : RevokeGet(p, u)
       PROVE  Writers(t)' \subseteq Writers(t) /\ UNCHANGED writes
  BY <1>6, <1>8, <1>11
<1>12. ASSUME NEW p \in Listers, ListSmembers(p) \/ ListMget(p) \/ ListSrem(p)
       PROVE  Writers(t)' \subseteq Writers(t) /\ UNCHANGED writes
  BY <1>6, <1>8, <1>12
<1>13. UNCHANGED writes => writes'[t] = writes[t]
  OBVIOUS
<1> QED
  BY <1>1, <1>2, <1>3, <1>4, <1>5, <1>7, <1>9, <1>10, <1>11, <1>12, <1>13, Zenon DEF Next

\* A token is honoured at most once for each call of approveToken that overlaps
\* the first write, for any number of racing calls of every kind.
THEOREM OverlapAlwaysBounds == Spec => []OverlapBoundsUse
<1>1. Init => Ledger /\ Overlap
  <2> SUFFICES ASSUME Init PROVE Ledger /\ Overlap
    OBVIOUS
  <2>1. \A t \in Tokens : Writers(t) = {}
    BY DEF Init, Writers, Idle, Callers
  <2>3. \A p \in Executors : ~Awaits(p, "del")
    BY DEF Init, Awaits, Idle, Callers
  <2>4. \A t \in Tokens : ~Present(t) /\ taken[t] = 0 /\ writes[t] = 0
    BY DEF Init, Present
  <2>5. Ledger
    BY <2>3, <2>4 DEF Ledger, Weight, Approved, Pending
  <2>6. Overlap
    BY <2>1, <2>4, WritersFinite, FS_EmptySet DEF Overlap, Weight, Approved
  <2> QED BY <2>5, <2>6
<1>2. TypeOK /\ Begun /\ Ledger /\ Overlap /\ [Next]_vars => (Ledger /\ Overlap)'
  BY StepLedger, StepOverlap
<1>3. TypeOK /\ Overlap => OverlapBoundsUse
  <2> SUFFICES ASSUME TypeOK, Overlap, NEW t \in Tokens
               PROVE  taken[t] + Cardinality(Writers(t)) <= Cardinality(Approvers)
    BY DEF OverlapBoundsUse
  <2>1. /\ taken[t] \in Nat /\ Weight(t) \in {0, 1}
        /\ taken[t] + Weight(t) + Cardinality(Writers(t)) <= Cardinality(Approvers)
    BY DEF TypeOK, Overlap, Weight
  <2> QED BY <2>1, WritersFinite
<1> QED BY <1>1, <1>2, <1>3, TypeBegun, PTL DEF Spec

\* Tokens are single-use, as README.md says, as long as one call of approveToken
\* is in flight at a time, through revocation, expiry and failed calls.
THEOREM OneApproverSingleUse == Cardinality(Approvers) <= 1 => (Spec => []SingleUse)
<1> SUFFICES ASSUME Cardinality(Approvers) <= 1 PROVE Spec => []SingleUse
  OBVIOUS
<1>1. TypeOK /\ ApprovalBackedUse /\ OverlapBoundsUse => SingleUse
  <2> SUFFICES ASSUME TypeOK, ApprovalBackedUse, OverlapBoundsUse, NEW t \in Tokens
               PROVE  uses[t] <= 1
    BY DEF SingleUse
  <2>1. /\ uses[t] \in Nat /\ taken[t] \in Nat
        /\ uses[t] + Cardinality(Winners(t)) <= taken[t]
        /\ taken[t] + Cardinality(Writers(t)) <= Cardinality(Approvers)
    BY DEF TypeOK, ApprovalBackedUse, OverlapBoundsUse
  <2> QED BY <2>1, WinnersFinite, WritersFinite
<1> QED BY <1>1, TypeCorrect, UseAlwaysBacked, OverlapAlwaysBounds, PTL

-----------------------------------------------------------------------------
(* What getPendingApprovals finds *)

\* A generated token whose key does not wait for approval, or no longer.
Settled(t) == deadline[t] # 0 /\ ~Pending(t)

\* An entry leaves the index on what a call read some commands before; what was read
\* holds still because a token that does not wait never waits again.
Indexed ==
  /\ \A t \in index : deadline[t] # 0
  /\ \A p \in Listers : \A t \in listing[p] : deadline[t] # 0
  /\ \A p \in Executors \cup Admins : Awaits(p, "srem") => Settled(call[p].tok)
  /\ \A p \in Listers : Awaits(p, "srem") => \A t \in listing[p] : Settled(t)
  /\ PendingIndexed

LEMMA StaysSettled ==
  ASSUME TypeOK, Begun, Ledger, [Next]_vars, NEW t \in Tokens, Settled(t)
  PROVE  Settled(t)'
<1>1. deadline'[t] # 0
  BY StepDeadline DEF Settled
<1>2. ~Pending(t)'
  BY Effect DEF Settled, Pending, Present
<1> QED BY <1>1, <1>2 DEF Settled

LEMMA IndexStep ==
  ASSUME TypeOK, [Next]_vars
  PROVE  \/ UNCHANGED <<index, handed>>
         \/ \E p \in Requesters : /\ Awaits(p, "sadd") /\ index' = index \cup {call[p].tok}
                                  /\ handed' = handed \cup {call[p].tok}
         \/ \E p \in Executors \cup Admins :
              Awaits(p, "srem") /\ index' = index \ {call[p].tok} /\ UNCHANGED handed
         \/ \E p \in Listers : Awaits(p, "srem") /\ index' = index \ listing[p] /\ UNCHANGED handed
<1>1. (UNCHANGED vars \/ Tick \/ \E p \in Callers : Crash(p)) => UNCHANGED <<index, handed>>
  BY DEF vars, Tick, Crash
<1>2. ASSUME NEW p, NEW t,
             \/ GenerateSetex(p, t) \/ ConsumeGet(p, t) \/ ConsumeDel(p) \/ ApproveTtl(p)
             \/ ApproveGet(p, t) \/ ApproveSet(p) \/ RevokeDel(p) \/ RevokeGet(p, t)
             \/ ListSmembers(p) \/ ListMget(p)
      PROVE  UNCHANGED <<index, handed>>
  BY <1>2 DEF GenerateSetex, ConsumeGet, ConsumeDel, ApproveTtl, ApproveGet, ApproveSet,
              RevokeDel, RevokeGet, ListSmembers, ListMget
<1>3. ASSUME NEW p, GenerateSadd(p)
      PROVE  /\ Awaits(p, "sadd") /\ index' = index \cup {call[p].tok}
             /\ handed' = handed \cup {call[p].tok}
  BY <1>3 DEF GenerateSadd
<1>4. ASSUME NEW p, ConsumeSrem(p) \/ RevokeSrem(p)
      PROVE  Awaits(p, "srem") /\ index' = index \ {call[p].tok} /\ UNCHANGED handed
  BY <1>4 DEF ConsumeSrem, RevokeSrem
<1>5. ASSUME NEW p, ListSrem(p)
      PROVE  Awaits(p, "srem") /\ index' = index \ listing[p] /\ UNCHANGED handed
  BY <1>5 DEF ListSrem
<1> QED BY <1>1, <1>2, <1>3, <1>4, <1>5, Zenon DEF Next

\* A call that is about to SREM a token was before, or has just removed the key.
LEMMA SremFrom ==
  ASSUME TypeOK, Begun, [Next]_vars, NEW q \in Executors \cup Admins, Awaits(q, "srem")'
  PROVE  \/ Awaits(q, "srem") /\ call'[q].tok = call[q].tok
         \/ Awaits(q, "del") /\ call'[q].tok = call[q].tok /\ ~Pending(call[q].tok)'
<1>0. /\ q \in Callers /\ q \in Holders /\ q \notin Requesters /\ q \notin Approvers /\ q \notin Listers
      /\ CallsOK /\ db \in [Tokens -> Values \cup {NoKey}]
  BY RolesAssumption, TypeParts DEF Callers, Holders, KeysOK
<1>1. ASSUME NEW p \in Callers, NEW c, Go(p, c), p # q \/ c.awaits # "srem"
      PROVE  call'[q] = call[q]
  BY <1>0, <1>1, CallAfter DEF Awaits
<1>2. ASSUME call'[q] = call[q]
      PROVE  Awaits(q, "srem") /\ call'[q].tok = call[q].tok
  BY <1>2 DEF Awaits
<1>3. CASE UNCHANGED vars \/ Tick
  BY <1>2, <1>3 DEF vars, Tick
<1>4. ASSUME NEW p \in Callers, Crash(p) \/ GenerateSadd(p) \/ ConsumeSrem(p) \/ ApproveSet(p) \/ RevokeSrem(p)
      PROVE  call'[q] = call[q]
  <2>1. Go(p, Idle)
    BY <1>4, Zenon DEF Crash, GenerateSadd, ConsumeSrem, ApproveSet, RevokeSrem
  <2> QED BY <1>1, <2>1 DEF Idle
<1>5. ASSUME NEW p \in Callers, NEW t,
             GenerateSetex(p, t) \/ ConsumeGet(p, t) \/ ApproveGet(p, t) \/ RevokeGet(p, t)
      PROVE  call'[q] = call[q]
  <2>1. PICK w \in {"sadd", "del", "ttl"} : Go(p, [awaits |-> w, tok |-> t])
    BY <1>5, Zenon DEF GenerateSetex, ConsumeGet, ApproveGet, RevokeGet
  <2>2. [awaits |-> w, tok |-> t].awaits # "srem"
    BY <2>1
  <2> QED BY <1>1, <2>1, <2>2
<1>6. ASSUME NEW p \in Callers, ApproveTtl(p)
      PROVE  call'[q] = call[q]
  <2>1. PICK ttl : Go(p, [awaits |-> "set", tok |-> call[p].tok, ttl |-> ttl])
    BY <1>6 DEF ApproveTtl
  <2>2. [awaits |-> "set", tok |-> call[p].tok, ttl |-> ttl].awaits # "srem"
    OBVIOUS
  <2> QED BY <1>1, <2>1, <2>2
<1>7. ASSUME NEW p \in Callers, ConsumeDel(p) \/ RevokeDel(p)
      PROVE  \/ call'[q] = call[q]
             \/ Awaits(q, "del") /\ call'[q].tok = call[q].tok /\ ~Pending(call[q].tok)'
  <2>1. PICK c : Go(p, c) /\ c.tok = call[p].tok /\ Awaits(p, "del") /\ db' = [db EXCEPT ![call[p].tok] = NoKey]
    <3>1. CASE ConsumeDel(p)
      <4>1. Go(p, [awaits |-> "srem", tok |-> call[p].tok, answer |-> Present(call[p].tok)])
        BY <3>1 DEF ConsumeDel
      <4>2. [awaits |-> "srem", tok |-> call[p].tok, answer |-> Present(call[p].tok)].tok = call[p].tok
        OBVIOUS
      <4> QED BY <3>1, <4>1, <4>2 DEF ConsumeDel
    <3>2. CASE RevokeDel(p)
      <4>1. Go(p, [awaits |-> "srem", tok |-> call[p].tok])
        BY <3>2 DEF RevokeDel
      <4>2. [awaits |-> "srem", tok |-> call[p].tok].tok = call[p].tok
        OBVIOUS
      <4> QED BY <3>2, <4>1, <4>2 DEF RevokeDel
    <3> QED BY <1>7, <3>1, <3>2
  <2>2. CASE p = q
    <3>1. call'[q] = c /\ call[q].tok \in Tokens
      BY <1>0, <2>1, <2>2, CallAfter, Held DEF Awaits
    <3>2. ~(db'[call[q].tok] # NoKey)
      BY <1>0, <2>1, <2>2, <3>1
    <3>3. ~Pending(c.tok)'
      BY <2>1, <2>2, <3>1, <3>2 DEF Pending, Present
    <3> QED BY <2>1, <2>2, <3>1, <3>2 DEF Pending, Present
  <2>3. CASE p # q
    BY <1>0, <2>1, <2>3, CallAfter
  <2> QED BY <2>2, <2>3
<1>8. ASSUME NEW p \in Listers, ListSmembers(p) \/ ListMget(p) \/ ListSrem(p)
      PROVE  call'[q] = call[q]
  <2>1. \E c : Go(p, c)
    BY <1>8, Zenon DEF ListSmembers, ListMget, ListSrem
  <2> QED BY <1>0, <2>1, CallAfter DEF Callers
<1>9. Requesters \subseteq Callers /\ Executors \subseteq Callers /\ Approvers \subseteq Callers /\ Admins \subseteq Callers
  BY DEF Callers
<1>10. \/ call'[q] = call[q]
       \/ Awaits(q, "srem") /\ call'[q].tok = call[q].tok
       \/ Awaits(q, "del") /\ call'[q].tok = call[q].tok /\ ~Pending(call[q].tok)'
  BY <1>3, <1>4, <1>5, <1>6, <1>7, <1>8, <1>9, Zenon DEF Next
<1> QED BY <1>2, <1>10

\* What a listing holds: what it did before, the index, or what of it is stale.
LEMMA ListingStep ==
  ASSUME TypeOK, [Next]_vars, NEW q \in Listers
  PROVE  \/ listing'[q] = listing[q] /\ (Awaits(q, "srem")' => Awaits(q, "srem"))
         \/ listing'[q] = index /\ ~Awaits(q, "srem")'
         \/ listing'[q] = {t \in listing[q] : ~Pending(t)} /\ UNCHANGED db
         \/ listing'[q] = {}
<1>0. q \in Callers /\ q \notin Holders /\ listing \in [Listers -> SUBSET Tokens]
  BY TypeParts DEF Callers, Holders, SetsOK
<1>1. CASE UNCHANGED vars \/ Tick
  BY <1>1 DEF vars, Tick, Awaits
<1>2. ASSUME NEW p \in Callers, Crash(p)
      PROVE  listing'[q] = {} \/ (listing'[q] = listing[q] /\ call'[q] = call[q])
  <2>1. listing'[q] = IF q = p THEN {} ELSE listing[q]
    BY <1>2 DEF Crash
  <2> QED BY <1>0, <1>2, <2>1, CallAfter DEF Crash
<1>3. ASSUME NEW p \in Holders, NEW t,
             \/ GenerateSetex(p, t) \/ GenerateSadd(p) \/ ConsumeGet(p, t) \/ ConsumeDel(p) \/ ConsumeSrem(p)
             \/ ApproveTtl(p) \/ ApproveGet(p, t) \/ ApproveSet(p) \/ RevokeDel(p) \/ RevokeGet(p, t)
             \/ RevokeSrem(p)
      PROVE  listing' = listing /\ call'[q] = call[q]
  <2>1. \E c : Go(p, c)
    BY <1>3, Zenon DEF GenerateSetex, GenerateSadd, ConsumeGet, ConsumeDel, ConsumeSrem, ApproveTtl,
       ApproveGet, ApproveSet, RevokeDel, RevokeGet, RevokeSrem
  <2>2. p \in Callers /\ p # q
    BY <1>0 DEF Holders
  <2>3. listing' = listing
    BY <1>3 DEF GenerateSetex, GenerateSadd, ConsumeGet, ConsumeDel, ConsumeSrem, ApproveTtl,
       ApproveGet, ApproveSet, RevokeDel, RevokeGet, RevokeSrem
  <2> QED BY <1>0, <2>1, <2>2, <2>3, CallAfter
<1>4. ASSUME NEW p \in Listers, ListSmembers(p) \/ ListMget(p) \/ ListSrem(p)
      PROVE  \/ listing'[q] = listing[q] /\ call'[q] = call[q]
             \/ listing'[q] = index /\ ~Awaits(q, "srem")'
             \/ listing'[q] = {t \in listing[q] : ~Pending(t)} /\ UNCHANGED db
             \/ listing'[q] = {}
  <2>1. \E c : Go(p, c)
    BY <1>4, Zenon DEF ListSmembers, ListMget, ListSrem
  <2>2. CASE p # q
    <3>1. call'[q] = call[q]
      BY <1>0, <2>1, <2>2, CallAfter DEF Callers
    <3> QED BY <1>0, <1>4, <2>2, <3>1 DEF ListSmembers, ListMget, ListSrem
  <2>3. CASE p = q /\ ListSmembers(p)
    <3>1. call'[q] = [awaits |-> "mget"]
      BY <1>0, <2>3, CallAfter DEF ListSmembers
    <3> QED BY <1>0, <2>3, <3>1 DEF ListSmembers, Awaits
  <2>4. CASE p = q /\ (ListMget(p) \/ ListSrem(p))
    BY <1>0, <2>4 DEF ListMget, ListSrem
  <2> QED BY <1>4, <2>2, <2>3, <2>4
<1>5. \/ listing'[q] = listing[q] /\ (call'[q] = call[q] \/ (Awaits(q, "srem")' => Awaits(q, "srem")))
      \/ listing'[q] = index /\ ~Awaits(q, "srem")'
      \/ listing'[q] = {t \in listing[q] : ~Pending(t)} /\ UNCHANGED db
      \/ listing'[q] = {}
  BY <1>1, <1>2, <1>3, <1>4, Roles, Zenon DEF Next
<1> QED BY <1>5 DEF Awaits

LEMMA StepIndexed == TypeOK /\ Begun /\ Ledger /\ Indexed /\ [Next]_vars => Indexed'
<1> SUFFICES ASSUME TypeOK, Begun, Ledger, Indexed, [Next]_vars PROVE Indexed'
  OBVIOUS
<1>0. /\ CallsOK /\ index \subseteq Tokens /\ listing \in [Listers -> SUBSET Tokens] /\ handed \subseteq Tokens
      /\ \A t \in Tokens : deadline[t] # 0 => deadline'[t] # 0
      /\ \A t \in Tokens : Settled(t) => Settled(t)'
  BY TypeParts, StepDeadline, StaysSettled DEF SetsOK
<1>1. \A t \in index' : deadline'[t] # 0
  <2>1. \A p \in Requesters : Awaits(p, "sadd") => call[p].tok \in Tokens /\ deadline[call[p].tok] # 0
    BY <1>0, Held, Roles DEF Begun, Awaits
  <2>2. \A t \in index' : t \in Tokens /\ deadline[t] # 0
    BY <1>0, <2>1, IndexStep DEF Indexed
  <2> QED BY <1>0, <2>2
<1>2. ASSUME NEW p \in Listers, NEW t \in listing'[p] PROVE t \in Tokens /\ deadline'[t] # 0
  <2>1. t \in listing[p] \/ t \in index
    BY <1>2, ListingStep
  <2>2. t \in Tokens /\ deadline[t] # 0
    BY <1>0, <2>1 DEF Indexed
  <2> QED BY <1>0, <2>2
<1>3. ASSUME NEW p \in Executors \cup Admins, Awaits(p, "srem")' PROVE Settled(call[p].tok)'
  <2>1. p \in Holders
    BY Roles
  <2>2. CASE Awaits(p, "srem") /\ call'[p].tok = call[p].tok
    <3>1. call[p].tok \in Tokens /\ Settled(call[p].tok)
      BY <1>0, <2>1, <2>2, Held DEF Indexed, Awaits
    <3>2. PICK t \in Tokens : t = call[p].tok /\ Settled(t)'
      BY <1>0, <3>1
    <3> QED BY <2>2, <3>2 DEF Settled, Pending, Present
  <2>3. CASE Awaits(p, "del") /\ call'[p].tok = call[p].tok /\ ~Pending(call[p].tok)'
    <3>1. call[p].tok \in Tokens /\ deadline[call[p].tok] # 0
      BY <1>0, <2>1, <2>3, Held DEF Begun, Awaits
    <3>2. deadline'[call'[p].tok] # 0
      BY <1>0, <2>3, <3>1
    <3> QED BY <2>3, <3>2 DEF Settled
  <2> QED BY <1>3, <2>2, <2>3, SremFrom
<1>4. ASSUME NEW p \in Listers, Awaits(p, "srem")', NEW t \in listing'[p] PROVE Settled(t)'
  <2>1. t \in Tokens /\ deadline'[t] # 0
    BY <1>2
  <2>2. CASE Awaits(p, "srem") /\ t \in listing[p]
    BY <1>0, <2>1, <2>2 DEF Indexed
  <2>3. CASE t \in listing[p] /\ ~Pending(t) /\ UNCHANGED db
    <3>1. deadline[t] # 0
      BY <2>3 DEF Indexed
    <3> QED BY <1>0, <2>1, <2>3, <3>1 DEF Settled
  <2> QED BY <1>4, <2>2, <2>3, ListingStep
<1>5. ASSUME NEW t \in handed', Pending(t)' PROVE t \in index'
  <2>1. CASE t \in handed
    <3>1. t \in Tokens /\ deadline[t] # 0
      BY <1>0, <2>1 DEF Begun
    <3>2. ~Settled(t)
      BY <1>0, <1>5, <3>1 DEF Settled
    <3>3. t \in index
      BY <2>1, <3>1, <3>2 DEF Indexed, PendingIndexed, Settled
    <3>4. \A p \in Executors \cup Admins : Awaits(p, "srem") => call[p].tok # t
      BY <3>2 DEF Indexed
    <3>5. \A p \in Listers : Awaits(p, "srem") => t \notin listing[p]
      BY <3>2 DEF Indexed
    <3> QED BY <3>3, <3>4, <3>5, IndexStep
  <2>2. CASE t \notin handed
    BY <1>5, <2>2, IndexStep
  <2> QED BY <2>1, <2>2
<1> QED BY <1>1, <1>2, <1>3, <1>4, <1>5 DEF Indexed, PendingIndexed

\* A token that was handed out and waits for approval is found by getPendingApprovals,
\* although listings, consumptions and revocations remove index entries on what they
\* read some commands before.
THEOREM PendingAlwaysIndexed == Spec => []PendingIndexed
<1> DEFINE Inv == TypeOK /\ Begun /\ Ledger /\ Indexed
<1>1. Init => Ledger /\ Indexed
  BY DEF Init, Ledger, Indexed, PendingIndexed, Weight, Approved, Pending, Present, Awaits, Idle, Callers
<1>2. TypeOK /\ Begun /\ Ledger /\ Indexed /\ [Next]_vars => (Ledger /\ Indexed)'
  BY StepLedger, StepIndexed
<1>3. Indexed => PendingIndexed
  BY DEF Indexed
<1> QED BY <1>1, <1>2, <1>3, TypeBegun, PTL DEF Spec
================================================================================
