------------------------ MODULE AutomationServerProofs ------------------------
(* What is submitted to a job site was approved, once, for any calls of        *)
(* confirm_application_submission in flight, tokens and postings; and what the  *)
(* tools beside it do is what they were made for.                              *)
EXTENDS MCAutomation, Integers, Sequences, TLAPS

Confirmation == "confirm_application_submission"
Resolution == "record_support_resolution"

Places == {"idle", "applications", "read", "browse", "submit", "save", "saved"}

Jobs ==
  [at : Places, token : Tokens \cup {NoToken}, url : Urls \cup {None}, dry : BOOLEAN, context : Contexts]

Bindings ==
  [tool : Gated \cup {Confirmation, Resolution, None}, what : Urls \cup Tickets \cup {None},
   context : Contexts]

States == {None, "PENDING", "APPROVED", "CONSUMED", "REVOKED"}

Grants == [state : States, binding : Bindings]

\* TypeOK, and the types of what it leaves out.
Typed ==
  /\ job \in [Slots -> Jobs]
  /\ grant \in [Tokens -> Grants]
  /\ clicks \in [Tokens -> Nat]
  /\ profile \in 0 .. MaxEdits
  /\ apps \in [Companies -> Urls \cup {None}]
  /\ live \in BOOLEAN
  /\ \A s \in Slots : job[s].at # "idle" => job[s].token \in Tokens /\ job[s].url \in Urls

\* The token was spent on this posting and context.
SpentOn(t, url, context) ==
  grant[t].state = "CONSUMED" /\ grant[t].binding = Application(url, context)

\* Between Confirm and Conclude a call holds a token that it spent.
Holds(s) == job[s].at \in {"browse", "submit", "save", "saved"}

\* The button of a call that has yet to press it was not pressed, and only a live
\* call will; a call that saved left a record.
HolderSound(s) ==
  Holds(s) =>
    /\ SpentOn(job[s].token, job[s].url, job[s].context)
    /\ job[s].at \in {"browse", "submit"} => clicks[job[s].token] = 0
    /\ job[s].at = "browse" => live \/ job[s].dry
    /\ job[s].at = "submit" => live
    /\ job[s].at = "saved" => apps[Company[job[s].url]] # None

HoldersDiffer ==
  \A r, s \in Slots : Holds(r) /\ Holds(s) /\ job[r].token = job[s].token => r = s

SentSound == \A e \in sent : e.token \in Tokens /\ SpentOn(e.token, e.what, e.context) /\ live

SuccessRecorded ==
  \A t \in Tokens : <<Confirmation, t, "success">> \in trail =>
    grant[t].binding.what \in Urls /\ apps[Company[grant[t].binding.what]] # None

Sound ==
  /\ \A s \in Slots : HolderSound(s)
  /\ HoldersDiffer
  /\ SentSound
  /\ OneSubmissionPerApproval
  /\ SuccessWasApproved
  /\ SuccessRecorded

-----------------------------------------------------------------------------
(* Types *)

LEMMA ContextTyped ==
  /\ NoContext \in Contexts
  /\ \A p \in 0 .. MaxEdits, a \in [Companies -> Urls \cup {None}] : [profile |-> p, apps |-> a] \in Contexts
  /\ \A p \in 0 .. MaxEdits : [NoContext EXCEPT !.profile = p] \in Contexts
  /\ \A c \in Contexts, a \in [Companies -> Urls \cup {None}] : [c EXCEPT !.apps = a] \in Contexts
BY AutomationAssumption DEF NoContext, Contexts

LEMMA BindingTyped ==
  ASSUME NEW tool \in Gated \cup {Confirmation, Resolution, None}, NEW what \in Urls \cup Tickets \cup {None},
         NEW context \in Contexts
  PROVE  Bind(tool, what, context) \in Bindings
BY DEF Bind, Bindings

LEMMA IdleTyped == Idle \in Jobs /\ Idle.at = "idle" /\ NoGrant \in Grants
BY ContextTyped DEF Idle, Jobs, Places, NoGrant, NoBinding, Bind, Grants, Bindings, States

LEMMA InitTyped == Init => Typed
<1> SUFFICES ASSUME Init PROVE Typed
  OBVIOUS
<1>1. job \in [Slots -> Jobs] /\ grant \in [Tokens -> Grants]
  BY IdleTyped DEF Init
<1>2. \A s \in Slots : job[s].at = "idle"
  BY IdleTyped DEF Init
<1> QED BY <1>1, <1>2, AutomationAssumption DEF Init, Typed

\* A step that moves one call, and no other variable out of its type.
LEMMA JobTyped ==
  ASSUME Typed, NEW s \in Slots, NEW k \in Jobs, job' = [job EXCEPT ![s] = k],
         k.at # "idle" => k.token \in Tokens /\ k.url \in Urls,
         grant' \in [Tokens -> Grants], clicks' \in [Tokens -> Nat], profile' \in 0 .. MaxEdits,
         apps' \in [Companies -> Urls \cup {None}], live' \in BOOLEAN
  PROVE  Typed'
BY DEF Typed

\* A step that changes one grant.
LEMMA GrantTyped ==
  ASSUME Typed, NEW t \in Tokens, NEW g \in Grants, grant' = [grant EXCEPT ![t] = g],
         UNCHANGED <<job, profile, apps, clicks, live>>
  PROVE  Typed'
BY DEF Typed

LEMMA DrawTyped ==
  ASSUME Typed, NEW binding \in Bindings, Draw(binding), UNCHANGED <<job, profile, apps, clicks, live>>
  PROVE  Typed'
<1>1. PICK t \in Tokens : grant' = [grant EXCEPT ![t] = [state |-> "PENDING", binding |-> binding]]
  BY DEF Draw
<1>2. [state |-> "PENDING", binding |-> binding] \in Grants
  BY DEF Grants, States
<1> QED BY <1>1, <1>2, GrantTyped

LEMMA MoveTyped ==
  ASSUME Typed, NEW t \in Tokens, NEW from, NEW to \in States, Move(t, from, to)
  PROVE  Typed'
<1>1. PICK g : g = [grant[t] EXCEPT !.state = to]
  OBVIOUS
<1>2. grant' = [grant EXCEPT ![t] = g] /\ UNCHANGED <<job, profile, apps, clicks, live>>
  BY <1>1 DEF Move
<1>3. g \in Grants
  BY <1>1 DEF Typed, Grants
<1> QED BY <1>2, <1>3, GrantTyped

\* A step that only moves a call along.
LEMMA GotoTyped ==
  ASSUME Typed, NEW s \in Slots, job[s].at # "idle", NEW place \in Places,
         Goto(s, place) \/ Return(s), grant' \in [Tokens -> Grants], clicks' \in [Tokens -> Nat],
         apps' \in [Companies -> Urls \cup {None}], UNCHANGED <<profile, live>>
  PROVE  Typed'
<1>1. job[s] \in Jobs /\ job[s].token \in Tokens /\ job[s].url \in Urls
  BY DEF Typed
<1>2. CASE Return(s)
  BY <1>2, IdleTyped, JobTyped DEF Return, Typed
<1>3. CASE Goto(s, place)
  <2>1. PICK k : k = [job[s] EXCEPT !.at = place]
    OBVIOUS
  <2>2. k \in Jobs /\ k.token = job[s].token /\ k.url = job[s].url
    BY <1>1, <2>1 DEF Jobs
  <2>3. job' = [job EXCEPT ![s] = k]
    BY <1>3, <2>1 DEF Goto
  <2> QED BY <1>1, <2>2, <2>3, JobTyped DEF Typed
<1> QED BY <1>2, <1>3

LEMMA StepTyped == Typed /\ [Next]_vars => Typed'
<1> SUFFICES ASSUME Typed, [Next]_vars PROVE Typed'
  OBVIOUS
<1>0. grant \in [Tokens -> Grants] /\ clicks \in [Tokens -> Nat] /\ apps \in [Companies -> Urls \cup {None}]
  BY DEF Typed
<1>1. CASE UNCHANGED vars
  BY <1>1 DEF vars, Typed
<1>2. CASE GatewayAsks
  <2>1. PICK tool \in Gated : Draw(Bind(tool, None, NoContext))
    BY <1>2 DEF GatewayAsks
  <2> QED BY <1>2, <2>1, ContextTyped, BindingTyped, DrawTyped DEF GatewayAsks
<1>3. CASE Prepare
  <2>1. PICK u \in Urls : Draw(Bind(Confirmation, u, [profile |-> profile, apps |-> apps]))
    BY <1>3 DEF Prepare, Application, Confirmation
  <2>2. [profile |-> profile, apps |-> apps] \in Contexts
    BY ContextTyped DEF Typed
  <2> QED BY <1>3, <2>1, <2>2, BindingTyped, DrawTyped DEF Prepare
<1>4. CASE RequestSupportApproval
  <2>1. PICK x \in Tickets : Draw(Bind(Resolution, x, NoContext))
    BY <1>4 DEF RequestSupportApproval, SupportAction, Resolution
  <2> QED BY <1>4, <2>1, ContextTyped, BindingTyped, DrawTyped DEF RequestSupportApproval
<1>5. ASSUME NEW t \in Tokens, ApprovePending(t) \/ RevokeApproval(t) \/ RecordSupportResolution(t) PROVE Typed'
  BY <1>5, MoveTyped DEF ApprovePending, RevokeApproval, RecordSupportResolution, States
<1>6. CASE EditProfile
  BY <1>6, AutomationAssumption DEF EditProfile, Typed
<1>7. CASE Crash
  BY <1>7, IdleTyped DEF Crash, Typed
<1>8. ASSUME NEW s \in Slots, ConfirmStarts(s) PROVE Typed'
  <2>1. PICK t \in Tokens, u \in Urls, dry \in BOOLEAN :
          job' = [job EXCEPT ![s] = [at |-> "applications", token |-> t, url |-> u, dry |-> dry,
                                     context |-> [NoContext EXCEPT !.profile = profile]]]
    BY <1>8 DEF ConfirmStarts
  <2>2. PICK c \in Contexts : c = [NoContext EXCEPT !.profile = profile]
    BY ContextTyped DEF Typed
  <2>3. PICK k : k = [at |-> "applications", token |-> t, url |-> u, dry |-> dry, context |-> c]
    OBVIOUS
  <2>4. k \in Jobs /\ k.token = t /\ k.url = u
    BY <2>3 DEF Jobs, Places
  <2> QED BY <1>8, <2>1, <2>2, <2>3, <2>4, JobTyped DEF ConfirmStarts, Typed
<1>9. ASSUME NEW s \in Slots, ReadApplications(s) PROVE Typed'
  <2>1. job[s] \in Jobs /\ job[s].token \in Tokens /\ job[s].url \in Urls
    BY <1>9 DEF ReadApplications, At, Typed
  <2>2. PICK c \in Contexts : c = [job[s].context EXCEPT !.apps = apps]
    BY <1>0, <2>1, ContextTyped DEF Jobs
  <2>3. PICK k : k = [job[s] EXCEPT !.at = "read", !.context = c]
    OBVIOUS
  <2>4. k \in Jobs /\ k.token = job[s].token /\ k.url = job[s].url
    BY <2>1, <2>3 DEF Jobs, Places
  <2>5. job' = [job EXCEPT ![s] = k]
    BY <1>9, <2>1, <2>2, <2>3 DEF ReadApplications, Typed, Jobs
  <2> QED BY <1>9, <2>1, <2>4, <2>5, JobTyped DEF ReadApplications, Typed
<1>10. ASSUME NEW s \in Slots, Confirm(s) \/ Browse(s) \/ Submit(s) \/ Save(s) \/ Conclude(s) PROVE Typed'
  <2>1. job[s].at # "idle" /\ job[s] \in Jobs /\ job[s].token \in Tokens /\ job[s].url \in Urls
    BY <1>10 DEF Confirm, Browse, Submit, Save, Conclude, At, Typed
  <2>2. \E place \in Places : Goto(s, place) \/ Return(s)
    BY <1>10 DEF Confirm, Browse, Submit, Save, Conclude, Fail, Places
  <2>3. UNCHANGED <<profile, live>>
    BY <1>10 DEF Confirm, Browse, Submit, Save, Conclude
  <2>4. grant' \in [Tokens -> Grants]
    <3>1. CASE grant' = grant
      BY <1>0, <3>1
    <3>2. CASE Spend(s)
      <4>1. [grant[job[s].token] EXCEPT !.state = "CONSUMED"] \in Grants
        BY <1>0, <2>1 DEF Grants, States
      <4> QED BY <1>0, <2>1, <3>2, <4>1 DEF Spend
    <3> QED BY <1>10, <3>1, <3>2 DEF Confirm, Browse, Submit, Save, Conclude
  <2>5. clicks' \in [Tokens -> Nat]
    BY <1>0, <1>10 DEF Confirm, Browse, Submit, Save, Conclude
  <2>6. apps' \in [Companies -> Urls \cup {None}]
    BY <1>0, <1>10, <2>1 DEF Confirm, Browse, Submit, Save, Conclude
  <2> QED BY <2>1, <2>2, <2>3, <2>4, <2>5, <2>6, GotoTyped
<1> QED BY <1>1, <1>2, <1>3, <1>4, <1>5, <1>6, <1>7, <1>8, <1>9, <1>10 DEF Next, Step

-----------------------------------------------------------------------------
(* What is submitted, and what is said of it *)

\* A spent token stays as it is, a record stays a record, and the mode of the server
\* is that of its process.
LEMMA Frozen ==
  ASSUME Typed, [Next]_vars
  PROVE  /\ \A t \in Tokens : grant[t].state = "CONSUMED" => grant'[t] = grant[t]
         /\ \A co \in Companies : apps[co] # None => apps'[co] # None
         /\ live' = live
<1>0. grant \in [Tokens -> Grants] /\ apps \in [Companies -> Urls \cup {None}]
  BY DEF Typed
<1>1. CASE UNCHANGED vars
  BY <1>1 DEF vars
<1>2. CASE GatewayAsks \/ Prepare \/ RequestSupportApproval
  BY <1>0, <1>2 DEF GatewayAsks, Prepare, RequestSupportApproval, Draw, None
<1>3. ASSUME NEW t \in Tokens, ApprovePending(t) \/ RevokeApproval(t) \/ RecordSupportResolution(t)
      PROVE  \E u \in Tokens : /\ grant[u].state # "CONSUMED" /\ \A v \in Tokens \ {u} : grant'[v] = grant[v]
                               /\ UNCHANGED <<apps, live>>
  BY <1>0, <1>3 DEF ApprovePending, RevokeApproval, RecordSupportResolution, Move
<1>4. CASE EditProfile \/ Crash \/ \E s \in Slots : ConfirmStarts(s) \/ ReadApplications(s)
  BY <1>4 DEF EditProfile, Crash, ConfirmStarts, ReadApplications
<1>5. ASSUME NEW s \in Slots, Confirm(s)
      PROVE  /\ \A t \in Tokens : grant[t].state = "CONSUMED" => grant'[t] = grant[t]
             /\ UNCHANGED <<apps, live>>
  BY <1>0, <1>5 DEF Confirm, Valid, Spend
<1>6. ASSUME NEW s \in Slots, Browse(s) \/ Submit(s) \/ Conclude(s) PROVE UNCHANGED <<grant, apps, live>>
  BY <1>6 DEF Browse, Submit, Conclude
<1>7. ASSUME NEW s \in Slots, Save(s)
      PROVE  UNCHANGED <<grant, live>> /\ \A co \in Companies : apps[co] # None => apps'[co] # None
  <2>1. job[s].url \in Urls
    BY <1>7 DEF Save, At, Typed
  <2>2. job[s].url # None
    BY <2>1, AutomationAssumption DEF None
  <2> QED BY <1>0, <1>7, <2>2 DEF Save
<1> QED BY <1>1, <1>2, <1>3, <1>4, <1>5, <1>6, <1>7 DEF Next, Step

\* What was sent and what was recorded stays so as long as nothing is added to it.
LEMMA NothingSent ==
  ASSUME Typed, Sound, [Next]_vars, sent' = sent
  PROVE  SentSound'
BY Frozen DEF Sound, SentSound, SpentOn

LEMMA NothingClicked ==
  ASSUME Typed, Sound, [Next]_vars, clicks' = clicks
  PROVE  OneSubmissionPerApproval'
BY Frozen DEF Sound, OneSubmissionPerApproval

LEMMA NoSuccess ==
  ASSUME Typed, Sound, [Next]_vars,
         \A tool \in {Confirmation, Resolution}, t \in Tokens :
           <<tool, t, "success">> \in trail' => <<tool, t, "success">> \in trail
  PROVE  SuccessWasApproved' /\ SuccessRecorded'
<1>1. ASSUME NEW t \in Tokens, NEW tool \in {Confirmation, Resolution}, <<tool, t, "success">> \in trail'
      PROVE  grant'[t].state = "CONSUMED" /\ grant'[t].binding.tool = tool
  <2>1. grant[t].state = "CONSUMED" /\ grant[t].binding.tool = tool
    BY <1>1 DEF Sound, SuccessWasApproved, Confirmation, Resolution
  <2> QED BY <2>1, Frozen
<1>2. ASSUME NEW t \in Tokens, <<Confirmation, t, "success">> \in trail'
      PROVE  grant'[t].binding.what \in Urls /\ apps'[Company[grant'[t].binding.what]] # None
  <2>1. /\ grant[t].binding.what \in Urls /\ apps[Company[grant[t].binding.what]] # None
        /\ grant[t].state = "CONSUMED"
    BY <1>2 DEF Sound, SuccessWasApproved, SuccessRecorded, Confirmation, Resolution
  <2>2. grant'[t] = grant[t]
    BY <2>1, Frozen
  <2>3. Company[grant[t].binding.what] \in Companies
    BY <2>1 DEF Companies
  <2> QED BY <2>1, <2>2, <2>3, Frozen
<1> QED BY <1>1, <1>2 DEF SuccessWasApproved, SuccessRecorded, Confirmation, Resolution

\* A call that no step moves is as sound as it was, unless its button is pressed.
LEMMA HolderStays ==
  ASSUME Typed, Sound, [Next]_vars, NEW s \in Slots, job'[s] = job[s],
         Holds(s) => clicks'[job[s].token] = clicks[job[s].token]
  PROVE  HolderSound(s)'
<1> SUFFICES ASSUME Holds(s) PROVE HolderSound(s)'
  BY DEF HolderSound, Holds
<1>1. HolderSound(s)
  BY DEF Sound
<1>2. job[s].token \in Tokens /\ job[s].url \in Urls
  BY DEF Typed, Holds
<1>3. grant'[job[s].token] = grant[job[s].token] /\ live' = live
  BY <1>1, <1>2, Frozen DEF HolderSound, SpentOn
<1>4. Company[job[s].url] \in Companies
  BY <1>2 DEF Companies
<1> QED BY <1>1, <1>3, <1>4, Frozen DEF HolderSound, SpentOn, Holds

\* A step that takes no call from Confirm to Conclude nor further on that way.
LEMMA NoHolderMoves ==
  ASSUME Typed, Sound, [Next]_vars, clicks' = clicks, sent' = sent,
         \A s \in Slots : Holds(s)' => job'[s] = job[s],
         \A tool \in {Confirmation, Resolution}, t \in Tokens :
           <<tool, t, "success">> \in trail' => <<tool, t, "success">> \in trail
  PROVE  Sound'
<1>1. \A s \in Slots : HolderSound(s)'
  BY HolderStays DEF HolderSound
<1>2. HoldersDiffer'
  BY DEF Sound, HoldersDiffer, Holds
<1> QED BY <1>1, <1>2, NothingSent, NothingClicked, NoSuccess DEF Sound

\* A call moves on with its token.
LEMMA MovesOn ==
  ASSUME Typed, Sound, [Next]_vars, NEW s \in Slots, Holds(s), NEW place \in Places, Goto(s, place)
  PROVE  /\ HoldersDiffer'
         /\ job'[s].at = place /\ job'[s].token = job[s].token /\ job'[s].url = job[s].url
         /\ job'[s].context = job[s].context /\ job'[s].dry = job[s].dry
         /\ \A r \in Slots \ {s} : job'[r] = job[r]
         /\ SpentOn(job[s].token, job[s].url, job[s].context)'
<1>1. job \in [Slots -> Jobs] /\ job[s] \in Jobs /\ job[s].token \in Tokens
  BY DEF Typed, Holds
<1>2. /\ job'[s].at = place /\ job'[s].token = job[s].token /\ job'[s].url = job[s].url
      /\ job'[s].context = job[s].context /\ job'[s].dry = job[s].dry
      /\ \A r \in Slots \ {s} : job'[r] = job[r]
  BY <1>1 DEF Goto, Jobs
<1>3. HoldersDiffer'
  BY <1>2 DEF Sound, HoldersDiffer, Holds
<1>4. grant'[job[s].token] = grant[job[s].token]
  BY <1>1, Frozen DEF Sound, HolderSound, SpentOn
<1> QED BY <1>2, <1>3, <1>4 DEF Sound, HolderSound, SpentOn

\* Confirm spends an approved token, which nobody holds and on which nothing was sent.
LEMMA ConfirmSound ==
  ASSUME Typed, Sound, NEW s \in Slots, Confirm(s), [Next]_vars
  PROVE  Sound'
<1>1. job[s].at = "read" /\ job[s] \in Jobs /\ job[s].token \in Tokens /\ job[s].url \in Urls
  BY DEF Confirm, At, Typed
<1>2. UNCHANGED <<apps, clicks, sent, live>>
  BY DEF Confirm
<1>3. \A tool \in {Confirmation, Resolution}, t \in Tokens :
        <<tool, t, "success">> \in trail' => <<tool, t, "success">> \in trail
  BY DEF Confirm, Fail
<1>4. CASE Return(s)
  <2>1. \A r \in Slots : Holds(r)' => job'[r] = job[r]
    BY <1>4, IdleTyped DEF Return, Holds, Typed
  <2> QED BY <1>2, <1>3, <2>1, NoHolderMoves
<1>5. CASE Goto(s, "browse")
  <2>1. /\ Valid(job[s].token, Application(job[s].url, job[s].context)) /\ Spend(s)
        /\ live \/ job[s].dry
    <3>1. ~Return(s)
      BY <1>5, IdleTyped DEF Goto, Return, Typed, Jobs
    <3> QED BY <3>1 DEF Confirm, Fail, MayBrowse
  <2>2. /\ job'[s].at = "browse" /\ job'[s].token = job[s].token /\ job'[s].url = job[s].url
        /\ job'[s].context = job[s].context /\ job'[s].dry = job[s].dry
        /\ \A r \in Slots \ {s} : job'[r] = job[r]
    BY <1>1, <1>5 DEF Goto, Jobs, Typed
  <2>3. grant[job[s].token].state = "APPROVED"
        /\ grant[job[s].token].binding = Application(job[s].url, job[s].context)
    BY <2>1 DEF Valid
  <2>4. SpentOn(job[s].token, job[s].url, job[s].context)'
    <3>1. grant[job[s].token] \in Grants /\ grant'[job[s].token] = [grant[job[s].token] EXCEPT !.state = "CONSUMED"]
      BY <1>1, <2>1 DEF Spend, Typed
    <3>2. grant'[job[s].token].state = "CONSUMED" /\ grant'[job[s].token].binding = grant[job[s].token].binding
      BY <3>1 DEF Grants
    <3> QED BY <2>2, <2>3, <3>2 DEF SpentOn, Application, Bind
  <2>5. clicks[job[s].token] = 0
    BY <1>1, <2>3 DEF Sound, OneSubmissionPerApproval, Typed
  <2>6. HolderSound(s)'
    BY <1>2, <2>1, <2>2, <2>4, <2>5 DEF HolderSound, SpentOn, Holds
  <2>7. \A r \in Slots \ {s} : HolderSound(r)'
    BY <1>2, <2>2, HolderStays
  <2>8. \A r \in Slots \ {s} : Holds(r) => job[r].token # job[s].token
    BY <2>3 DEF Sound, HolderSound, SpentOn
  <2>9. HoldersDiffer'
    BY <2>2, <2>8 DEF Sound, HoldersDiffer, Holds
  <2> QED BY <1>2, <1>3, <2>6, <2>7, <2>9, NothingSent, NothingClicked, NoSuccess DEF Sound
<1> QED BY <1>4, <1>5 DEF Confirm, Fail

\* A call that fails, and one that is answered, hold their token no more.
LEMMA FailSound ==
  ASSUME Typed, Sound, NEW s \in Slots, Fail(s), UNCHANGED <<grant, clicks, sent>>, [Next]_vars
  PROVE  Sound'
<1>1. \A r \in Slots : Holds(r)' => job'[r] = job[r]
  BY IdleTyped DEF Fail, Return, Holds, Typed
<1> QED BY <1>1, NoHolderMoves DEF Fail

LEMMA BrowseSound ==
  ASSUME Typed, Sound, NEW s \in Slots, Browse(s), [Next]_vars
  PROVE  Sound'
<1>1. UNCHANGED <<grant, apps, clicks, sent, live>> /\ job[s].at = "browse"
  BY DEF Browse, At
<1>2. CASE Fail(s)
  BY <1>1, <1>2, FailSound
<1>3. CASE UNCHANGED trail /\ \E place \in {"save", "submit"} :
             Goto(s, place) /\ (place = "submit" => ~job[s].dry)
  <2>1. PICK place \in {"save", "submit"} : Goto(s, place) /\ (place = "submit" => ~job[s].dry)
    BY <1>3
  <2>2. Holds(s) /\ place \in Places /\ HolderSound(s)
    BY <1>1 DEF Holds, Places, Sound
  <2>3. /\ HoldersDiffer'
        /\ job'[s].at = place /\ job'[s].token = job[s].token /\ job'[s].url = job[s].url
        /\ job'[s].context = job[s].context
        /\ \A r \in Slots \ {s} : job'[r] = job[r]
        /\ SpentOn(job[s].token, job[s].url, job[s].context)'
    BY <2>1, <2>2, MovesOn
  <2>4. HolderSound(s)'
    BY <1>1, <2>1, <2>2, <2>3 DEF HolderSound, SpentOn
  <2>5. \A r \in Slots \ {s} : HolderSound(r)'
    BY <1>1, <2>3, HolderStays
  <2> QED BY <1>1, <1>3, <2>3, <2>4, <2>5, NothingSent, NothingClicked, NoSuccess DEF Sound
<1> QED BY <1>2, <1>3 DEF Browse

\* The button is pressed once for the token, which no other call holds.
LEMMA SubmitSound ==
  ASSUME Typed, Sound, NEW s \in Slots, Submit(s), [Next]_vars
  PROVE  Sound'
<1>1. UNCHANGED <<grant, apps, trail, live>> /\ job[s].at = "submit" /\ Goto(s, "save")
  BY DEF Submit, At
<1>2. Holds(s) /\ HolderSound(s) /\ job[s].token \in Tokens
  BY <1>1 DEF Holds, Sound, Typed
<1>3. /\ HoldersDiffer'
      /\ job'[s].at = "save" /\ job'[s].token = job[s].token /\ job'[s].url = job[s].url
      /\ job'[s].context = job[s].context
      /\ \A r \in Slots \ {s} : job'[r] = job[r]
      /\ SpentOn(job[s].token, job[s].url, job[s].context)'
  BY <1>1, <1>2, MovesOn DEF Places
<1>4. /\ clicks[job[s].token] = 0 /\ live /\ clicks'[job[s].token] = 1
      /\ \A t \in Tokens \ {job[s].token} : clicks'[t] = clicks[t]
  BY <1>1, <1>2 DEF HolderSound, Submit, Typed
<1>5. HolderSound(s)'
  BY <1>3 DEF HolderSound
<1>6. ASSUME NEW r \in Slots \ {s} PROVE HolderSound(r)'
  <2>1. Holds(r) => job[r].token \in Tokens \ {job[s].token}
    BY <1>2 DEF Sound, HoldersDiffer, Typed, Holds
  <2> QED BY <1>3, <1>4, <2>1, HolderStays
<1>7. SentSound'
  <2>1. \A e \in sent' : e \in sent \/ e = [token |-> job[s].token, what |-> job[s].url, context |-> job[s].context]
    BY DEF Submit
  <2>2. \A e \in sent : e.token \in Tokens /\ SpentOn(e.token, e.what, e.context)
    BY DEF Sound, SentSound
  <2> QED BY <1>1, <1>2, <1>3, <1>4, <2>1, <2>2 DEF SentSound, SpentOn
<1>8. OneSubmissionPerApproval'
  BY <1>1, <1>2, <1>3, <1>4 DEF Sound, OneSubmissionPerApproval, SpentOn
<1> QED BY <1>1, <1>3, <1>5, <1>6, <1>7, <1>8, NoSuccess DEF Sound

LEMMA SaveSound ==
  ASSUME Typed, Sound, NEW s \in Slots, Save(s), [Next]_vars
  PROVE  Sound'
<1>1. UNCHANGED <<grant, clicks, sent, live>> /\ job[s].at = "save"
  BY DEF Save, At
<1>2. CASE Fail(s)
  BY <1>1, <1>2, FailSound
<1>3. CASE apps' = [apps EXCEPT ![Company[job[s].url]] = job[s].url] /\ Goto(s, "saved") /\ UNCHANGED trail
  <2>1. Holds(s) /\ HolderSound(s) /\ job[s].url \in Urls
    BY <1>1 DEF Holds, Sound, Typed
  <2>2. /\ HoldersDiffer'
        /\ job'[s].at = "saved" /\ job'[s].token = job[s].token /\ job'[s].url = job[s].url
        /\ job'[s].context = job[s].context
        /\ \A r \in Slots \ {s} : job'[r] = job[r]
        /\ SpentOn(job[s].token, job[s].url, job[s].context)'
    BY <1>3, <2>1, MovesOn DEF Places
  <2>3. apps'[Company[job[s].url]] # None
    BY <1>3, <2>1, AutomationAssumption DEF Typed, Companies, None
  <2>4. HolderSound(s)'
    BY <2>2, <2>3 DEF HolderSound, SpentOn
  <2>5. \A r \in Slots \ {s} : HolderSound(r)'
    BY <1>1, <2>2, HolderStays
  <2> QED BY <1>1, <1>3, <2>2, <2>4, <2>5, NothingSent, NothingClicked, NoSuccess DEF Sound
<1> QED BY <1>2, <1>3 DEF Save

\* Success is said of a call that spent its token and left a record.
LEMMA ConcludeSound ==
  ASSUME Typed, Sound, NEW s \in Slots, Conclude(s), [Next]_vars
  PROVE  Sound'
<1>1. UNCHANGED <<grant, apps, clicks, sent, live>> /\ job[s].at = "saved"
  BY DEF Conclude, At
<1>2. CASE Fail(s)
  BY <1>1, <1>2, FailSound
<1>3. CASE Return(s) /\ trail' = trail \cup {<<"confirm_application_submission", job[s].token, "success">>}
  <2>1. \A r \in Slots : Holds(r)' => job'[r] = job[r]
    BY <1>3, IdleTyped DEF Return, Holds, Typed
  <2>2. \A r \in Slots : HolderSound(r)'
    BY <1>1, <2>1, HolderStays DEF HolderSound
  <2>3. HoldersDiffer'
    BY <2>1 DEF Sound, HoldersDiffer, Holds
  <2>4. /\ grant[job[s].token].state = "CONSUMED" /\ grant[job[s].token].binding.tool = Confirmation
        /\ grant[job[s].token].binding.what = job[s].url
        /\ apps[Company[job[s].url]] # None /\ job[s].url \in Urls
    <3>1. HolderSound(s) /\ Holds(s) /\ job[s].url \in Urls
      BY <1>1 DEF Sound, Holds, Typed
    <3>2. grant[job[s].token].state = "CONSUMED" /\ apps[Company[job[s].url]] # None
          /\ grant[job[s].token].binding = Bind(Confirmation, job[s].url, job[s].context)
      BY <1>1, <3>1 DEF HolderSound, SpentOn, Application, Confirmation
    <3> QED BY <3>1, <3>2 DEF Bind
  <2>5. SuccessWasApproved'
    BY <1>1, <1>3, <2>4 DEF Sound, SuccessWasApproved, Confirmation
  <2>6. SuccessRecorded'
    BY <1>1, <1>3, <2>4 DEF Sound, SuccessRecorded, Confirmation
  <2> QED BY <1>1, <2>2, <2>3, <2>5, <2>6, NothingSent, NothingClicked DEF Sound
<1> QED BY <1>2, <1>3 DEF Conclude

LEMMA ResolutionSound ==
  ASSUME Typed, Sound, NEW t \in Tokens, RecordSupportResolution(t), [Next]_vars
  PROVE  Sound'
<1>1. /\ UNCHANGED <<job, apps, clicks, sent, live>>
      /\ grant' = [grant EXCEPT ![t].state = "CONSUMED"] /\ grant[t].state = "APPROVED"
      /\ trail' = trail \cup {<<"record_support_resolution", t, "success">>}
  BY DEF RecordSupportResolution, Move
<1>2. grant[t].binding.tool = Resolution
  BY DEF RecordSupportResolution, Valid, SupportAction, Bind, Resolution
<1>3. grant'[t].state = "CONSUMED" /\ grant'[t].binding = grant[t].binding
  BY <1>1 DEF Typed, Grants
<1>4. \A u \in Tokens \ {t} : grant'[u] = grant[u]
  BY <1>1 DEF Typed
<1>5. \A s \in Slots : HolderSound(s)'
  BY <1>1, HolderStays
<1>6. HoldersDiffer'
  BY <1>1 DEF Sound, HoldersDiffer, Holds
<1>7. SuccessWasApproved'
  BY <1>1, <1>2, <1>3, <1>4 DEF Sound, SuccessWasApproved, Resolution
<1>8. SuccessRecorded'
  BY <1>1, <1>3, <1>4 DEF Sound, SuccessRecorded, Confirmation
<1> QED BY <1>1, <1>5, <1>6, <1>7, <1>8, NothingSent, NothingClicked DEF Sound

LEMMA InitSound == Init => Sound
BY IdleTyped
   DEF Init, Sound, HolderSound, Holds, HoldersDiffer, SentSound, OneSubmissionPerApproval,
       SuccessWasApproved, SuccessRecorded

LEMMA StepSound == Typed /\ Sound /\ [Next]_vars => Sound'
<1> SUFFICES ASSUME Typed, Sound, [Next]_vars PROVE Sound'
  OBVIOUS
<1>1. CASE UNCHANGED vars
  BY <1>1, NoHolderMoves DEF vars
<1>2. CASE GatewayAsks \/ Prepare \/ RequestSupportApproval \/ EditProfile
           \/ \E t \in Tokens : ApprovePending(t) \/ RevokeApproval(t)
  <2>1. UNCHANGED <<job, clicks, sent, trail>>
    BY <1>2 DEF GatewayAsks, Prepare, RequestSupportApproval, EditProfile, ApprovePending, RevokeApproval, Move
  <2> QED BY <2>1, NoHolderMoves
<1>3. CASE Crash
  <2>1. UNCHANGED <<clicks, sent, trail>> /\ \A s \in Slots : ~Holds(s)'
    BY <1>3, IdleTyped DEF Crash, Holds
  <2> QED BY <2>1, NoHolderMoves
<1>4. ASSUME NEW s \in Slots, ConfirmStarts(s) \/ ReadApplications(s) PROVE Sound'
  <2>1. UNCHANGED <<clicks, sent, trail>>
    BY <1>4 DEF ConfirmStarts, ReadApplications
  <2>2. ~Holds(s)' /\ \A r \in Slots \ {s} : job'[r] = job[r]
    <3>1. CASE ConfirmStarts(s)
      BY <3>1 DEF ConfirmStarts, Holds, Typed
    <3>2. CASE ReadApplications(s)
      BY <3>2 DEF ReadApplications, Holds, Typed, Jobs
    <3> QED BY <1>4, <3>1, <3>2
  <2>3. \A r \in Slots : Holds(r)' => job'[r] = job[r]
    BY <2>2
  <2> QED BY <2>1, <2>3, NoHolderMoves
<1> QED BY <1>1, <1>2, <1>3, <1>4, ConfirmSound, BrowseSound, SubmitSound, SaveSound, ConcludeSound,
           ResolutionSound DEF Next, Step

THEOREM SpecSound == Spec => [](Typed /\ Sound)
<1>1. Init => Typed /\ Sound
  BY InitTyped, InitSound
<1>2. Typed /\ Sound /\ [Next]_vars => (Typed /\ Sound)'
  BY StepTyped, StepSound
<1> QED BY <1>1, <1>2, PTL DEF Spec

\* However calls of confirm interleave, fail or are lost with the process: what reaches
\* a job site is the posting and the context of a token that was approved, once for the
\* token, and what the audit trail calls a success spent its token and left a record
\* (server.ts, confirm_application_submission and record_support_resolution).
THEOREM SpecSubmissionsAreApproved == Spec => []SubmissionsAreApproved
<1>1. Typed => TypeOK
  BY DEF Typed, TypeOK, Jobs, Grants, Bindings, States
<1>2. Sound => SubmittedAsApproved
  BY DEF Sound, SentSound, SpentOn, SubmittedAsApproved
<1>3. Sound => ConfirmedIsRecorded
  BY DEF Sound, SuccessRecorded, ConfirmedIsRecorded, Confirmation
<1>4. Typed /\ Sound => SubmissionsAreApproved
  BY <1>1, <1>2, <1>3 DEF Sound, SubmissionsAreApproved
<1> QED BY <1>4, SpecSound, PTL

-----------------------------------------------------------------------------
(* From the request to the job site, a token lives the life of ApprovalLifecycle: it is *)
(* granted until its button is pressed or can no longer be, and used when it is.        *)

\* The call may still press the button on the strength of token t.
ArmedBy(j, t) == j.token = t /\ (j.at = "submit" \/ (j.at = "browse" /\ ~j.dry))

Armed(t) == \E s \in Slots : ArmedBy(job[s], t)

Phase(t) ==
  CASE grant[t].state = None -> "none"
    [] grant[t].state = "PENDING" -> "waiting"
    [] grant[t].state = "APPROVED" -> "granted"
    [] grant[t].state = "CONSUMED" /\ Armed(t) -> "granted"
    [] OTHER -> "closed"

Lifecycle == INSTANCE ApprovalLifecycle
  WITH Keys <- Tokens, phase <- [t \in Tokens |-> Phase(t)], uses <- clicks

\* One step of the life of token t.
LifeStep(t) ==
  \/ Phase(t) = "none" /\ Phase(t)' # "none" /\ clicks'[t] = clicks[t]
  \/ Phase(t) = "waiting" /\ Phase(t)' = "granted" /\ clicks'[t] = clicks[t]
  \/ Phase(t) = "granted" /\ Phase(t)' = "closed" /\ clicks'[t] = clicks[t] + 1
  \/ Phase(t) \in {"waiting", "granted"} /\ Phase(t)' = "closed" /\ clicks'[t] = clicks[t]
  \/ Phase(t)' = Phase(t) /\ clicks'[t] = clicks[t]

\* A token whose record stays as it is can only lose the calls that may press its button.
LEMMA Disarmed ==
  ASSUME Typed, NEW t \in Tokens, grant'[t] = grant[t], clicks'[t] = clicks[t],
         \A s \in Slots : ArmedBy(job'[s], t) => ArmedBy(job[s], t)
  PROVE  LifeStep(t)
<1>1. Armed(t)' => Armed(t)
  BY DEF Armed, ArmedBy
<1>2. grant[t].state \in States
  BY DEF Typed, Grants
<1> QED BY <1>1, <1>2 DEF LifeStep, Phase, States, None

\* Only a token that was spent can be about to be used.
LEMMA ArmedIsSpent ==
  ASSUME Sound, NEW t \in Tokens, Armed(t)
  PROVE  grant[t].state = "CONSUMED"
<1>1. PICK s \in Slots : ArmedBy(job[s], t)
  BY DEF Armed
<1>2. Holds(s) /\ job[s].token = t
  BY <1>1 DEF ArmedBy, Holds
<1> QED BY <1>2 DEF Sound, HolderSound, SpentOn

\* A token that nobody has spent changes its record.
LEMMA GrantMoves ==
  ASSUME Typed, Sound, NEW t \in Tokens, clicks'[t] = clicks[t],
         \/ grant[t].state = None /\ grant'[t].state = "PENDING"
         \/ grant[t].state = "PENDING" /\ grant'[t].state \in {"APPROVED", "REVOKED"}
         \/ grant[t].state = "APPROVED" /\ grant'[t].state = "CONSUMED"
  PROVE  LifeStep(t)
BY DEF LifeStep, Phase, None

LEMMA ConfirmLives ==
  ASSUME Typed, Sound, NEW s \in Slots, Confirm(s), NEW t \in Tokens
  PROVE  LifeStep(t)
<1>1. job[s] \in Jobs /\ job[s].token \in Tokens /\ job[s].at = "read" /\ UNCHANGED clicks
  BY DEF Confirm, At, Typed
<1>2. CASE Valid(job[s].token, Application(job[s].url, job[s].context)) /\ Spend(s) /\ t = job[s].token
  <2>1. grant[t].state = "APPROVED" /\ grant[t] \in Grants
    BY <1>2 DEF Valid, Typed
  <2>2. grant'[t].state = "CONSUMED"
    BY <1>2, <2>1 DEF Spend, Typed, Grants
  <2> QED BY <1>1, <2>1, <2>2, GrantMoves
<1>3. CASE ~(Valid(job[s].token, Application(job[s].url, job[s].context)) /\ Spend(s) /\ t = job[s].token)
  <2>1. grant'[t] = grant[t]
    BY <1>1, <1>3 DEF Confirm, Spend, Typed
  <2>2. ArmedBy(job'[s], t) => t = job[s].token /\ Goto(s, "browse")
    BY <1>1, IdleTyped DEF Confirm, Goto, Fail, Return, Typed, Jobs, ArmedBy
  <2>3. ~ArmedBy(job'[s], t)
    BY <1>1, <1>3, <2>2, IdleTyped DEF Confirm, Goto, Return, Typed, Jobs, ArmedBy
  <2>4. \A r \in Slots \ {s} : job'[r] = job[r]
    BY DEF Confirm, Goto, Fail, Return, Typed
  <2> QED BY <1>1, <2>1, <2>3, <2>4, Disarmed
<1> QED BY <1>2, <1>3

LEMMA SubmitLives ==
  ASSUME Typed, Sound, NEW s \in Slots, Submit(s), NEW t \in Tokens
  PROVE  LifeStep(t)
<1>1. /\ job[s] \in Jobs /\ job[s].token \in Tokens /\ job[s].at = "submit" /\ Holds(s) /\ Goto(s, "save")
      /\ UNCHANGED grant
  BY DEF Submit, At, Typed, Holds
<1>2. ~ArmedBy(job'[s], t) /\ \A r \in Slots \ {s} : job'[r] = job[r]
  BY <1>1 DEF Goto, Typed, Jobs, ArmedBy
<1>3. CASE t = job[s].token
  <2>1. clicks'[t] = clicks[t] + 1
    BY <1>1, <1>3 DEF Submit, Typed
  <2>2. Armed(t) /\ grant[t].state = "CONSUMED"
    BY <1>1, <1>3, ArmedIsSpent DEF Armed, ArmedBy
  <2>3. \A r \in Slots \ {s} : ~ArmedBy(job[r], t)
    BY <1>1, <1>3 DEF Sound, HoldersDiffer, Holds, ArmedBy
  <2>4. ~Armed(t)'
    BY <1>2, <2>3 DEF Armed, ArmedBy
  <2>5. Phase(t) = "granted" /\ Phase(t)' = "closed"
    BY <1>1, <2>2, <2>4 DEF Phase, None
  <2> QED BY <2>1, <2>5 DEF LifeStep
<1>4. CASE t # job[s].token
  <2>1. clicks'[t] = clicks[t]
    BY <1>1, <1>4 DEF Submit, Typed
  <2> QED BY <1>1, <1>2, <2>1, Disarmed
<1> QED BY <1>3, <1>4

LEMMA StepLives == Typed /\ Sound /\ [Next]_vars => \A t \in Tokens : LifeStep(t)
<1> SUFFICES ASSUME Typed, Sound, [Next]_vars, NEW t \in Tokens PROVE LifeStep(t)
  OBVIOUS
<1>1. CASE UNCHANGED vars \/ EditProfile
  BY <1>1, Disarmed DEF vars, EditProfile
<1>2. CASE Crash
  BY <1>2, IdleTyped, Disarmed DEF Crash, ArmedBy
<1>3. CASE GatewayAsks \/ Prepare \/ RequestSupportApproval
  <2>1. UNCHANGED <<job, clicks>> /\ \E binding : Draw(binding)
    BY <1>3 DEF GatewayAsks, Prepare, RequestSupportApproval
  <2>2. PICK binding : Draw(binding)
    BY <2>1
  <2>3. PICK u \in Tokens :
          grant[u].state = None /\ grant' = [grant EXCEPT ![u] = [state |-> "PENDING", binding |-> binding]]
    BY <2>2 DEF Draw
  <2>4. CASE t = u
    BY <2>1, <2>3, <2>4, GrantMoves DEF Typed
  <2>5. CASE t # u
    BY <2>1, <2>3, <2>5, Disarmed DEF Typed
  <2> QED BY <2>4, <2>5
<1>4. ASSUME NEW u \in Tokens, ApprovePending(u) \/ RevokeApproval(u) \/ RecordSupportResolution(u)
      PROVE  LifeStep(t)
  <2>1. UNCHANGED <<job, clicks>>
    BY <1>4 DEF ApprovePending, RevokeApproval, RecordSupportResolution, Move
  <2>2. CASE t = u
    <3>1. \/ grant[t].state = "PENDING" /\ grant'[t].state \in {"APPROVED", "REVOKED"}
          \/ grant[t].state = "APPROVED" /\ grant'[t].state = "CONSUMED"
      BY <1>4, <2>2 DEF ApprovePending, RevokeApproval, RecordSupportResolution, Move, Typed, Grants
    <3> QED BY <2>1, <3>1, GrantMoves
  <2>3. CASE t # u
    <3>1. grant'[t] = grant[t]
      BY <1>4, <2>3 DEF ApprovePending, RevokeApproval, RecordSupportResolution, Move, Typed
    <3> QED BY <2>1, <3>1, Disarmed
  <2> QED BY <2>2, <2>3
<1>5. ASSUME NEW s \in Slots, ConfirmStarts(s) \/ ReadApplications(s) PROVE LifeStep(t)
  <2>1. ~ArmedBy(job'[s], t) /\ \A r \in Slots \ {s} : job'[r] = job[r]
    <3>1. CASE ConfirmStarts(s)
      BY <3>1 DEF ConfirmStarts, ArmedBy, Typed
    <3>2. CASE ReadApplications(s)
      BY <3>2 DEF ReadApplications, ArmedBy, Typed, Jobs
    <3> QED BY <1>5, <3>1, <3>2
  <2> QED BY <1>5, <2>1, Disarmed DEF ConfirmStarts, ReadApplications
<1>6. ASSUME NEW s \in Slots, Browse(s) \/ Save(s) \/ Conclude(s) PROVE LifeStep(t)
  <2>1. job[s] \in Jobs /\ UNCHANGED <<grant, clicks>>
    BY <1>6 DEF Browse, Save, Conclude, Typed
  <2>2. Return(s) \/ Goto(s, "saved") \/ (job[s].at = "browse" /\ Goto(s, IF job[s].dry THEN "save" ELSE "submit"))
    BY <1>6 DEF Browse, Save, Conclude, Fail, At
  <2>3. ArmedBy(job'[s], t) => ArmedBy(job[s], t)
    BY <2>1, <2>2, IdleTyped DEF Return, Goto, ArmedBy, Typed, Jobs
  <2>4. \A r \in Slots \ {s} : job'[r] = job[r]
    BY <2>2 DEF Return, Goto, Typed
  <2> QED BY <2>1, <2>3, <2>4, Disarmed
<1> QED BY <1>1, <1>2, <1>3, <1>4, <1>5, <1>6, ConfirmLives, SubmitLives DEF Next, Step

\* With the site as what uses a token, the server keeps the promise of an approval store
\* end to end: a click of the submit button is the one use of a granted token, and a dry
\* run, a failure or a crash on the way closes it unused (server.ts, confirm handler).
THEOREM SubmissionsAreUses == Spec => Lifecycle!Spec
<1> DEFINE ph == [t \in Tokens |-> Phase(t)]
<1>1. Init => Lifecycle!Init
  <2> SUFFICES ASSUME Init PROVE Lifecycle!Init
    OBVIOUS
  <2>1. ASSUME NEW t \in Tokens PROVE Phase(t) = "none"
    <3>1. grant[t].state = None
      BY DEF Init, NoGrant
    <3> QED BY <3>1 DEF Phase, None
  <2> QED BY <2>1 DEF Init, Lifecycle!Init
<1>2. ASSUME Typed, Typed', Sound, [Next]_vars PROVE [Lifecycle!Next]_(Lifecycle!vars)
  <2>1. \A t \in Tokens :
          ph[t] = Phase(t) /\ ph'[t] = Phase(t)' /\ Phase(t)' \in Lifecycle!Phases
    BY DEF Lifecycle!Phases, Phase
  <2>2. ph' \in [Tokens -> Lifecycle!Phases] /\ clicks' \in [Tokens -> Nat]
    BY <1>2, <2>1 DEF Typed
  <2> HIDE DEF ph
  <2>3. \A t \in Tokens :
          \/ ph[t] = "none" /\ ph'[t] # "none" /\ clicks'[t] = clicks[t]
          \/ ph[t] = "waiting" /\ ph'[t] = "granted" /\ clicks'[t] = clicks[t]
          \/ ph[t] = "granted" /\ ph'[t] = "closed" /\ clicks'[t] = clicks[t] + 1
          \/ ph[t] \in {"waiting", "granted"} /\ ph'[t] = "closed" /\ clicks'[t] = clicks[t]
          \/ ph'[t] = ph[t] /\ clicks'[t] = clicks[t]
    BY <1>2, <2>1, StepLives DEF LifeStep
  <2> QED BY <2>2, <2>3 DEF ph, Lifecycle!Next, Lifecycle!Learn, Lifecycle!Grant,
             Lifecycle!Use, Lifecycle!Close, Lifecycle!Idle
<1> QED
  BY <1>1, <1>2, SpecSound, PTL DEF Spec, Lifecycle!Spec

-----------------------------------------------------------------------------
(* The tools beside the submissions *)

\* One component of the server takes a step, or none does.
LEMMA ToolSteps ==
  [MCNext]_mcVars =>
    /\ [part = "desk" /\ Tool!DeskNext]_<<part, desk>>
    /\ [Tool!RegistryNext]_<<actions, tools, reply>>
    /\ [Adapter!KubeNext]_kubeVars
    /\ [Adapter!HookNext]_hookVars
BY DEF MCNext, mcVars, others, toolVars, kubeVars, hookVars

\* The registry: a name of a built-in tool never becomes a dynamic one.
RegistryInv == Tool!TypeOK /\ Tool!BuiltInsStay

LEMMA RegistryStarts == Tool!RegistryInit => RegistryInv
BY MCAssumption DEF Tool!RegistryInit, RegistryInv, Tool!TypeOK, Tool!BuiltInsStay, Tool!NoAction, Tool!Risks,
   Tool!RegistryAssumption

\* Handlers are as before, or a registered one, or what FromIR makes of them.
LEMMA RegistryStep ==
  ASSUME RegistryInv, [Tool!RegistryNext]_<<actions, tools, reply>>
  PROVE  /\ RegistryInv'
         /\ \A id \in Ids : actions[id].handler \in Handlers => actions'[id].handler \in Handlers
<1> DEFINE Known == [handler : Handlers \cup {"simulated"}, risk : Tool!Risks] \cup {Tool!NoAction}
<1>1. /\ actions \in [Ids -> Known] /\ tools \in [Ids -> Known] /\ \A id \in BuiltIn : tools[id] = Tool!NoAction
      /\ BuiltIn \subseteq Ids /\ "none" \notin Handlers /\ Tool!NoAction \in Known
  BY MCAssumption DEF RegistryInv, Tool!TypeOK, Tool!BuiltInsStay, Tool!RegistryAssumption
<1>2. /\ \A h \in Handlers, k \in Tool!Risks : [handler |-> h, risk |-> k] \in Known
      /\ \A old \in Known, k \in Tool!Risks :
           /\ Tool!FromIR(old, k) \in Known
           /\ old.handler \in Handlers => Tool!FromIR(old, k).handler \in Handlers
  BY <1>1 DEF Tool!FromIR, Tool!NoAction
<1>3. ASSUME NEW registry \in [Ids -> Known], Tool!RegisterActionTool(registry)
      PROVE  tools' \in [Ids -> Known] /\ \A id \in BuiltIn : tools'[id] = Tool!NoAction
  <2> HIDE DEF Known
  <2> QED BY <1>1, <1>3 DEF Tool!RegisterActionTool
<1>4. ASSUME actions' \in [Ids -> Known], tools' \in [Ids -> Known],
             \A id \in BuiltIn : tools'[id] = Tool!NoAction
      PROVE  RegistryInv'
  BY <1>4 DEF RegistryInv, Tool!TypeOK, Tool!BuiltInsStay
<1>5. CASE UNCHANGED <<actions, tools, reply>>
  BY <1>1, <1>4, <1>5
<1>6. ASSUME NEW id \in Ids, NEW handler \in Handlers, NEW risk \in Tool!Risks, Tool!RegisterAction(id, handler, risk)
      PROVE  /\ RegistryInv'
             /\ \A other \in Ids : actions[other].handler \in Handlers => actions'[other].handler \in Handlers
  <2> DEFINE new == [handler |-> handler, risk |-> risk]
             registry == [actions EXCEPT ![id] = new]
  <2>1. new \in Known /\ new.handler \in Handlers
    BY <1>2
  <2>2. actions' = registry /\ Tool!RegisterActionTool([other \in Ids |-> IF other = id THEN registry[id] ELSE Tool!NoAction])
    BY <1>6 DEF Tool!RegisterAction
  <2> HIDE DEF new, Known
  <2>3. registry \in [Ids -> Known] /\ registry[id] = new /\ \A other \in Ids : other # id => registry[other] = actions[other]
    BY <1>1, <2>1
  <2>4. [other \in Ids |-> IF other = id THEN registry[id] ELSE Tool!NoAction] \in [Ids -> Known]
    BY <1>1, <2>1, <2>3
  <2> QED BY <1>3, <1>4, <2>1, <2>2, <2>3, <2>4
<1>7. ASSUME NEW some \in SUBSET Ids, NEW capabilities \in [some -> Tool!Risks], Tool!RegisterDynamicTools(capabilities)
      PROVE  /\ RegistryInv'
             /\ \A id \in Ids : actions[id].handler \in Handlers => actions'[id].handler \in Handlers
  <2> DEFINE registry == [id \in Ids |-> IF id \in DOMAIN capabilities
                                         THEN Tool!FromIR(actions[id], capabilities[id]) ELSE actions[id]]
  <2>1. actions' = registry /\ Tool!RegisterActionTool(registry)
    BY <1>7 DEF Tool!RegisterDynamicTools
  <2> HIDE DEF Known
  <2>2. registry \in [Ids -> Known] /\ \A id \in Ids : actions[id].handler \in Handlers => registry[id].handler \in Handlers
    BY <1>1, <1>2
  <2> HIDE DEF registry
  <2> QED BY <1>3, <1>4, <2>1, <2>2
<1>8. ASSUME NEW id \in Ids, Tool!CallTool(id) \/ Tool!Execute(id)
      PROVE  UNCHANGED <<actions, tools>>
  BY <1>8 DEF Tool!CallTool, Tool!Execute
<1> QED BY <1>1, <1>4, <1>5, <1>6, <1>7, <1>8 DEF Tool!RegistryNext

-----------------------------------------------------------------------------
\* The cluster.
KubeInv ==
  /\ kube \in Adapter!KubeConfigs
  /\ cluster \in [Namespaces -> [replicas : Int, revision : Int]]

LEMMA KubeStarts == Adapter!KubeInit => KubeInv
BY DEF Adapter!KubeInit, KubeInv

Governed ==
  actor'.who = "adapter" =>
       /\ kubeAnswer'.mode = "live" => kube.runner /\ ~kube.dry
       /\ \A n \in Namespaces : cluster'[n] # cluster[n] =>
         /\ n \in (WellFormed \cap Allowed) \ Adapter!Protected /\ kube.runner /\ ~kube.dry
         /\ kube.window /\ ~open => actor'.token
         /\ cluster'[n].replicas # cluster[n].replicas =>
              cluster'[n].replicas \in (IF kube.zero THEN 0 ELSE 1) .. MaxReplicas

\* What the adapter executes it does to one deployment, or not at all.
LEMMA ExecuteIs ==
  ASSUME KubeInv, NEW n \in Namespaces, NEW d \in [replicas : Int, revision : Int], Adapter!Execute(n, d)
  PROVE  /\ cluster' \in [Namespaces -> [replicas : Int, revision : Int]]
         /\ kubeAnswer'.mode = "live" => kube.runner /\ ~kube.dry
         /\ \A m \in Namespaces : cluster'[m] # cluster[m] => m = n /\ cluster'[m] = d /\ kube.runner /\ ~kube.dry
<1>1. kube.runner \in BOOLEAN /\ kube.dry \in BOOLEAN
  BY DEF KubeInv, Adapter!KubeConfigs
<1> DEFINE R == [replicas : Int, revision : Int]
           one == [cluster EXCEPT ![n] = d]
<1> HIDE DEF R
<1>2. one \in [Namespaces -> R] /\ one[n] = d /\ \A m \in Namespaces : m # n => one[m] = cluster[m]
  BY DEF KubeInv, R
<1> HIDE DEF one
<1>3. \/ cluster' = cluster
      \/ cluster' = one /\ kube.runner /\ ~kube.dry
  BY <1>1 DEF Adapter!Execute, one
<1>4. kubeAnswer'.mode = "live" => kube.runner /\ ~kube.dry
  BY <1>1 DEF Adapter!Execute, Adapter!Success, Adapter!Failure
<1> QED BY <1>2, <1>3, <1>4 DEF KubeInv, R

LEMMA KubeStep ==
  ASSUME KubeInv, [Adapter!KubeNext]_kubeVars
  PROVE  KubeInv' /\ (Governed \/ UNCHANGED kubeVars)
<1> DEFINE R == [replicas : Int, revision : Int]
<1>1. CASE UNCHANGED kubeVars
  BY <1>1 DEF KubeInv, kubeVars
<1>2. CASE Adapter!Operate
  <2>1. actor'.who # "adapter" /\ kube' = kube
    BY <1>2 DEF Adapter!Operate
  <2>2. cluster' \in [Namespaces -> R]
    <3>1. CASE UNCHANGED cluster
      BY <3>1 DEF KubeInv
    <3>2. ASSUME NEW n \in Allowed \ Adapter!Protected, NEW d \in Adapter!Deployments, cluster' = [cluster EXCEPT ![n] = d]
          PROVE  cluster' \in [Namespaces -> R]
      <4>1. d \in R
        BY DEF Adapter!Deployments
      <4> HIDE DEF R
      <4>2. cluster \in [Namespaces -> R]
        BY DEF KubeInv, R
      <4> QED BY <3>2, <4>1, <4>2
    <3> QED BY <1>2, <3>1, <3>2 DEF Adapter!Operate
  <2> QED BY <2>1, <2>2 DEF KubeInv, Governed
<1>3. ASSUME NEW n \in Namespaces, Adapter!GetPodLogs(n)
      PROVE  KubeInv' /\ Governed
  <2>1. UNCHANGED <<cluster, kube>> /\ kubeAnswer'.mode # "live"
    <3>1. \A x \in {Adapter!Failure, Adapter!Success("read"), Adapter!Success("simulated")} : x.mode # "live"
      BY DEF Adapter!Failure, Adapter!Success
    <3>2. kubeAnswer' \in {Adapter!Failure, Adapter!Success("read"), Adapter!Success("simulated")}
      BY <1>3 DEF Adapter!GetPodLogs
    <3> QED BY <1>3, <3>1, <3>2 DEF Adapter!GetPodLogs, Adapter!Called
  <2> QED BY <2>1 DEF KubeInv, Governed
<1>4. ASSUME NEW n \in Namespaces, NEW token \in BOOLEAN, Adapter!Called(token), Adapter!Refuse
      PROVE  KubeInv' /\ Governed
  BY <1>4 DEF Adapter!Called, Adapter!Refuse, Adapter!Failure, KubeInv, Governed
<1>5. ASSUME NEW n \in Namespaces, NEW token \in BOOLEAN, NEW d \in R,
             d.replicas = cluster[n].replicas \/ d.replicas \in Adapter!MinReplicas .. MaxReplicas,
             Adapter!Called(token), Adapter!Admissible(n), Adapter!Timely(token), Adapter!Execute(n, d)
      PROVE  KubeInv' /\ Governed
  <2>1. /\ cluster' \in [Namespaces -> R]
        /\ kubeAnswer'.mode = "live" => kube.runner /\ ~kube.dry
        /\ \A m \in Namespaces : cluster'[m] # cluster[m] => m = n /\ cluster'[m] = d /\ kube.runner /\ ~kube.dry
    BY <1>5, ExecuteIs
  <2>2. kube' = kube /\ actor'.token = token /\ open' = open
    BY <1>5 DEF Adapter!Called
  <2>3. n \in (WellFormed \cap Allowed) \ Adapter!Protected
    BY <1>5 DEF Adapter!Admissible
  <2>4. kube.window /\ ~open => actor'.token
    BY <1>5, <2>2 DEF Adapter!Timely
  <2>5. KubeInv'
    BY <2>1, <2>2 DEF KubeInv
  <2> HIDE DEF R
  <2> QED BY <1>5, <2>1, <2>3, <2>4, <2>5 DEF Governed, Adapter!MinReplicas
<1>6. ASSUME NEW n \in Namespaces
      PROVE  /\ cluster[n] \in R
             /\ \A v \in Int : [cluster[n] EXCEPT !.revision = v] \in R
                               /\ [cluster[n] EXCEPT !.revision = v].replicas = cluster[n].replicas
             /\ \A v \in Int : [cluster[n] EXCEPT !.replicas = v] \in R
                               /\ [cluster[n] EXCEPT !.replicas = v].replicas = v
  BY DEF KubeInv
<1>7. ASSUME NEW n \in Namespaces, NEW token \in BOOLEAN, Adapter!RolloutRestart(n, token)
      PROVE  KubeInv' /\ Governed
  <2> DEFINE d == [cluster[n] EXCEPT !.revision = @ + 1]
  <2>1. d \in R /\ d.replicas = cluster[n].replicas
    BY <1>6
  <2>2. Adapter!Called(token)
    BY <1>7 DEF Adapter!RolloutRestart
  <2>3. Adapter!Refuse \/ (Adapter!Admissible(n) /\ Adapter!Timely(token) /\ Adapter!Execute(n, d))
    BY <1>7 DEF Adapter!RolloutRestart
  <2> HIDE DEF d, R
  <2> QED BY <1>4, <1>5, <2>1, <2>2, <2>3
<1>8. ASSUME NEW n \in Namespaces, NEW token \in BOOLEAN, NEW v \in -1 .. MaxReplicas + 1, Adapter!ScaleDeployment(n, v, token)
      PROVE  KubeInv' /\ Governed
  <2> DEFINE d == [cluster[n] EXCEPT !.replicas = v]
  <2>1. d \in R /\ d.replicas = v
    BY <1>6
  <2>2. Adapter!Called(token)
    BY <1>8 DEF Adapter!ScaleDeployment
  <2>3. \/ Adapter!Refuse
        \/ /\ Adapter!Admissible(n) /\ v \in Adapter!MinReplicas .. MaxReplicas /\ Adapter!Timely(token)
           /\ Adapter!Execute(n, d)
    BY <1>8 DEF Adapter!ScaleDeployment
  <2> HIDE DEF d, R
  <2> QED BY <1>4, <1>5, <2>1, <2>2, <2>3
<1>9. ASSUME NEW n \in Namespaces, NEW token \in BOOLEAN, NEW v \in 1 .. cluster[n].revision - 1,
             Adapter!RollbackDeployment(n, v, token)
      PROVE  KubeInv' /\ Governed
  <2> DEFINE d == [cluster[n] EXCEPT !.revision = v]
  <2>1. d \in R /\ d.replicas = cluster[n].replicas
    BY <1>6
  <2>2. Adapter!Called(token)
    BY <1>9 DEF Adapter!RollbackDeployment
  <2>3. Adapter!Refuse \/ (Adapter!Admissible(n) /\ Adapter!Timely(token) /\ Adapter!Execute(n, d))
    BY <1>9 DEF Adapter!RollbackDeployment
  <2> HIDE DEF d, R
  <2> QED BY <1>4, <1>5, <2>1, <2>2, <2>3
<1> HIDE DEF R
<1> QED BY <1>1, <1>2, <1>3, <1>7, <1>8, <1>9 DEF Adapter!KubeNext

-----------------------------------------------------------------------------
\* The webhook: what the target got under a number it got of the dispatch with that
\* number, and of the one under way it got the envelope that is sent and no final answer.
HookInv ==
  /\ delivery \in Nat /\ at \in {"idle", "sending", "waiting"}
  /\ answers \in Seq({"ok", "failed"})
  /\ Len(answers) = IF at = "idle" THEN delivery ELSE delivery - 1
  /\ at # "idle" =>
       /\ envelope[1].id = delivery
       /\ envelope[1].signature = Adapter!Signature(envelope[1].id, envelope[1].timestamp)
       /\ \A m \in Adapter!Got(delivery) : m.envelope = envelope[1] /\ m.reply \notin {"ok", "client"}
  /\ \A m \in inbox :
       m.envelope.id \in 1 .. delivery
         /\ m.envelope.signature = Adapter!Signature(m.envelope.id, m.envelope.timestamp)
  /\ \A m, n \in inbox : m.envelope.id = n.envelope.id => m.envelope = n.envelope
  /\ \A d \in DOMAIN answers : answers[d] = "ok" => \E m \in Adapter!Got(d) : m.reply = "ok"
  /\ \A d \in DOMAIN answers : (\E m \in Adapter!Got(d) : m.reply = "client") => answers[d] = "failed"

LEMMA HookStarts == Adapter!HookInit => HookInv
BY DEF Adapter!HookInit, HookInv, Adapter!Got

\* An answer more.
LEMMA AnswersGrow ==
  ASSUME answers \in Seq({"ok", "failed"}), NEW r \in {"ok", "failed"}, Adapter!Answer(r)
  PROVE  /\ at' = "idle" /\ answers' \in Seq({"ok", "failed"}) /\ Len(answers') = Len(answers) + 1
         /\ Len(answers) \in Nat /\ DOMAIN answers = 1 .. Len(answers) /\ DOMAIN answers' = 1 .. Len(answers) + 1
         /\ answers'[Len(answers) + 1] = r /\ \A d \in DOMAIN answers : answers'[d] = answers[d]
<1>1. answers' = Append(answers, r) /\ at' = "idle"
  BY DEF Adapter!Answer
<1> QED BY <1>1

LEMMA HookStep == HookInv /\ [Adapter!HookNext]_hookVars => HookInv'
<1> SUFFICES ASSUME HookInv, [Adapter!HookNext]_hookVars PROVE HookInv'
  OBVIOUS
<1>1. CASE UNCHANGED hookVars
  BY <1>1 DEF HookInv, hookVars, Adapter!Got
<1>2. CASE Adapter!Wait
  <2>1. /\ at = "waiting" /\ at' = "sending" /\ UNCHANGED <<delivery, envelope, inbox, answers>>
    BY <1>2 DEF Adapter!Wait
  <2> QED BY <2>1 DEF HookInv, Adapter!Got
<1>3. Len(answers) \in Nat /\ DOMAIN answers = 1 .. Len(answers)
  BY DEF HookInv
<1>4. ASSUME NEW host \in Hosts, Adapter!Dispatch(host)
      PROVE  HookInv'
  <2>1. /\ at = "idle" /\ delivery' = delivery + 1 /\ inbox' = inbox /\ delivery \in Nat /\ Len(answers) = delivery
        /\ \A m \in inbox : m.envelope.id \in 1 .. delivery
    BY <1>4 DEF Adapter!Dispatch, HookInv
  <2>2. Adapter!Got(delivery + 1) = {} /\ \A d : Adapter!Got(d)' = Adapter!Got(d)
    BY <2>1 DEF Adapter!Got
  <2>3. \A m \in inbox' :
          m.envelope.id \in 1 .. delivery'
            /\ m.envelope.signature = Adapter!Signature(m.envelope.id, m.envelope.timestamp)
    BY <2>1 DEF HookInv
  <2>4. CASE at' = "sending" /\ envelope' = <<Adapter!Envelope(delivery')>> /\ UNCHANGED answers
    <3>1. envelope'[1].id = delivery' /\ envelope'[1].signature = Adapter!Signature(envelope'[1].id, envelope'[1].timestamp)
      BY <2>4 DEF Adapter!Envelope, Adapter!Signature
    <3>2. Adapter!Got(delivery)' = {}
      <4>1. Adapter!Got(delivery)' = {m \in inbox' : m.envelope.id = delivery'}
        BY DEF Adapter!Got
      <4> QED BY <2>1, <4>1
    <3> QED BY <2>1, <2>2, <2>3, <2>4, <3>1, <3>2 DEF HookInv, Adapter!Signature
  <2>5. CASE Adapter!Answer("failed")
    <3>1. /\ at' = "idle" /\ answers' \in Seq({"ok", "failed"}) /\ Len(answers') = Len(answers) + 1
          /\ DOMAIN answers' = 1 .. Len(answers) + 1
          /\ answers'[Len(answers) + 1] = "failed" /\ \A d \in DOMAIN answers : answers'[d] = answers[d]
      BY <2>5, AnswersGrow DEF HookInv
    <3>2. \A d \in DOMAIN answers' : d \in DOMAIN answers \/ (d = delivery + 1 /\ answers'[d] = "failed")
      BY <1>3, <2>1, <3>1
    <3>3. \A d \in DOMAIN answers' : answers'[d] = "ok" => \E m \in Adapter!Got(d)' : m.reply = "ok"
      BY <2>2, <3>1, <3>2 DEF HookInv
    <3>4. \A d \in DOMAIN answers' : (\E m \in Adapter!Got(d)' : m.reply = "client") => answers'[d] = "failed"
      BY <2>2, <3>1, <3>2 DEF HookInv
    <3> QED BY <2>1, <2>3, <3>1, <3>3, <3>4 DEF HookInv, Adapter!Signature
  <2> QED BY <1>4, <2>4, <2>5 DEF Adapter!Dispatch
<1>5. ASSUME NEW r \in Adapter!Replies, Adapter!Send(r)
      PROVE  HookInv'
  <2> DEFINE e == envelope[1]
             new == [envelope |-> e, reply |-> r]
  <2>1. /\ at = "sending" /\ UNCHANGED <<delivery, envelope>> /\ delivery \in Nat /\ Len(answers) + 1 = delivery
        /\ e.id = delivery /\ e.signature = Adapter!Signature(e.id, e.timestamp) /\ delivery \in 1 .. delivery
    BY <1>3, <1>5 DEF Adapter!Send, HookInv
  <2>2. inbox' = inbox \/ (r # "lost" /\ inbox' = inbox \cup {new})
    BY <1>5 DEF Adapter!Send
  <2>3. r # "lost" => new \in inbox'
    BY <1>5 DEF Adapter!Send
  <2>4. new.envelope = e /\ new.reply = r
    OBVIOUS
  <2>5. \A m \in inbox : m.envelope.id = delivery => m.envelope = e /\ m.reply \notin {"ok", "client"}
    BY <2>1 DEF HookInv, Adapter!Got
  <2> HIDE DEF e, new
  <2>6. \A m \in inbox' :
          m.envelope.id \in 1 .. delivery'
            /\ m.envelope.signature = Adapter!Signature(m.envelope.id, m.envelope.timestamp)
    BY <2>1, <2>2, <2>4 DEF HookInv
  <2>7. \A m, n \in inbox' : m.envelope.id = n.envelope.id => m.envelope = n.envelope
    BY <2>1, <2>2, <2>4, <2>5 DEF HookInv
  <2>8. \A m \in inbox' : m \in inbox \/ (m = new /\ m.envelope.id = delivery /\ m.reply = r)
    BY <2>1, <2>2, <2>4
  <2>9. inbox \subseteq inbox'
    BY <2>2
  <2>10. \A d \in DOMAIN answers : d # delivery
    BY <1>3, <2>1
  <2>11. \A d \in DOMAIN answers : answers[d] = "ok" => \E m \in Adapter!Got(d)' : m.reply = "ok"
    BY <2>9 DEF HookInv, Adapter!Got
  <2>12. \A d \in DOMAIN answers : (\E m \in Adapter!Got(d)' : m.reply = "client") => answers[d] = "failed"
    BY <2>8, <2>10 DEF HookInv, Adapter!Got
  <2>13. CASE r \notin {"ok", "client"} /\ at' = "waiting" /\ UNCHANGED answers
    <3>1. \A m \in Adapter!Got(delivery)' : m.envelope = e /\ m.reply \notin {"ok", "client"}
      BY <2>1, <2>4, <2>5, <2>8, <2>13 DEF Adapter!Got
    <3> QED BY <2>1, <2>6, <2>7, <2>11, <2>12, <2>13, <3>1 DEF HookInv, Adapter!Signature, e
  <2>14. ASSUME NEW a \in {"ok", "failed"}, Adapter!Answer(a), a = "ok" => r = "ok", r = "ok" => a = "ok" PROVE HookInv'
    <3>1. /\ at' = "idle" /\ answers' \in Seq({"ok", "failed"}) /\ Len(answers') = Len(answers) + 1
          /\ DOMAIN answers' = 1 .. Len(answers) + 1
          /\ answers'[Len(answers) + 1] = a /\ \A d \in DOMAIN answers : answers'[d] = answers[d]
      BY <2>14, AnswersGrow DEF HookInv
    <3>2. \A d \in DOMAIN answers' : d \in DOMAIN answers \/ (d = delivery /\ answers'[d] = a)
      BY <1>3, <2>1, <3>1
    <3>3. a = "ok" => new \in Adapter!Got(delivery)' /\ new.reply = "ok"
      BY <2>1, <2>3, <2>4, <2>14 DEF Adapter!Got
    <3>4. a = "ok" => \A m \in Adapter!Got(delivery)' : m.reply # "client"
      BY <2>1, <2>5, <2>8, <2>14 DEF Adapter!Got
    <3>5. \A d \in DOMAIN answers' : answers'[d] = "ok" => \E m \in Adapter!Got(d)' : m.reply = "ok"
      <4>1. \A d \in DOMAIN answers : answers'[d] = "ok" => \E m \in Adapter!Got(d)' : m.reply = "ok"
        BY <2>11, <3>1
      <4>2. a = "ok" => \E m \in Adapter!Got(delivery)' : m.reply = "ok"
        BY <3>3
      <4>3. Adapter!Got(delivery)' = {m \in inbox' : m.envelope.id = delivery}
        BY <2>1 DEF Adapter!Got
      <4>4. \A d : (d = delivery) => {m \in inbox' : m.envelope.id = d} = {m \in inbox' : m.envelope.id = delivery}
        OBVIOUS
      <4>5. \A d : Adapter!Got(d)' = {m \in inbox' : m.envelope.id = d}
        BY DEF Adapter!Got
      <4> QED BY <3>2, <4>1, <4>2, <4>3, <4>4, <4>5
    <3>6. \A d \in DOMAIN answers' : (\E m \in Adapter!Got(d)' : m.reply = "client") => answers'[d] = "failed"
      <4>1. \A d \in DOMAIN answers : (\E m \in Adapter!Got(d)' : m.reply = "client") => answers'[d] = "failed"
        BY <2>12, <3>1
      <4>2. a = "ok" \/ a = "failed"
        OBVIOUS
      <4>3. Adapter!Got(delivery)' = {m \in inbox' : m.envelope.id = delivery}
        BY <2>1 DEF Adapter!Got
      <4>4. \A d : Adapter!Got(d)' = {m \in inbox' : m.envelope.id = d}
        BY DEF Adapter!Got
      <4> QED BY <3>2, <3>4, <4>1, <4>2, <4>3, <4>4
    <3>7. Len(answers') = delivery'
      BY <2>1, <3>1
    <3> QED BY <2>1, <2>6, <2>7, <3>1, <3>5, <3>6, <3>7 DEF HookInv, Adapter!Signature
  <2>15. \/ r = "ok" /\ Adapter!Answer("ok")
         \/ r # "ok" /\ Adapter!Answer("failed")
         \/ r \notin {"ok", "client"} /\ at' = "waiting" /\ UNCHANGED answers
    BY <1>5 DEF Adapter!Send, Adapter!Again
  <2> QED BY <2>13, <2>14, <2>15
<1> QED BY <1>1, <1>2, <1>4, <1>5 DEF Adapter!HookNext

LEMMA RepetitionsAlike == HookInv => Adapter!RepetitionsAreAlike
<1> SUFFICES ASSUME HookInv, NEW d \in 1 .. delivery
             PROVE  /\ \A m, n \in Adapter!Got(d) : m.envelope = n.envelope
                    /\ \A m \in Adapter!Got(d) :
                         m.envelope.signature = Adapter!Signature(m.envelope.id, m.envelope.timestamp)
                    /\ d \in DOMAIN answers /\ answers[d] = "ok" => \E m \in Adapter!Got(d) : m.reply = "ok"
                    /\ (\E m \in Adapter!Got(d) : m.reply = "client") => d \in DOMAIN answers /\ answers[d] = "failed"
  BY DEF Adapter!RepetitionsAreAlike
<1>1. DOMAIN answers = 1 .. Len(answers) /\ Len(answers) \in Nat
  BY DEF HookInv
<1>2. d \in DOMAIN answers \/ (at # "idle" /\ d = delivery)
  BY <1>1 DEF HookInv
<1>3. \A m \in Adapter!Got(d) : m \in inbox /\ m.envelope.id = d
  BY DEF Adapter!Got
<1>4. (\E m \in Adapter!Got(d) : m.reply = "client") => d \in DOMAIN answers
  BY <1>2 DEF HookInv
<1> QED BY <1>3, <1>4 DEF HookInv

-----------------------------------------------------------------------------
\* The desk: a ticket has the fields it is made with.
Intents == {"billing_and_refund", "account_access", "incident_escalation", "general_inquiry"}
Triages == [intent : Intents, priority : {"low", "medium", "high", "critical"}, requiresEscalation : BOOLEAN]
Paths == {<<>>, <<"jobs", "x1">>}
Posting(names, path) ==
  [names |-> names, preview |-> Tool!PreviewApplication(names),
   capture |-> Tool!CaptureJobPosting(names, path), metadata |-> Tool!ExtractPlatformMetadata(names, path)]
Postings == {<<>>} \cup {<<Posting(names, path)>> : names \in Tool!Addresses, path \in Paths}
DeskTickets ==
  [at : {"new", "looked", "classified", "retrieved", "drafted", "redacted", "validated"}, text : SUBSET Tool!Marks,
   intent : Triages, policies : SUBSET {"support-tier1-escalation-policy", "refund-approval-threshold-policy",
                                        "identity-verification-policy"},
   draft : SUBSET Tool!Marks, findings : SUBSET Tool!Marks, verdict : {"none", "valid", "invalid"},
   posting : Postings]
Grounded ==
  Tool!IntentIsGrounded /\ Tool!RefundIsEscalated /\ Tool!ValidReplyIsClean /\ Tool!AppliedIsPreviewed
DeskInv == desk \in DeskTickets /\ Grounded

LEMMA EmptyIs == Tool!Empty \in DeskTickets /\ Tool!Empty.at = "new" /\ Tool!Empty.text = {}
BY DEF Tool!Empty, DeskTickets, Postings, Triages, Intents, Tool!Triage, Tool!Marks

LEMMA DeskStarts ==
  ASSUME Tool!DeskInit \/ desk = Tool!Empty
  PROVE  DeskInv
<1>1. desk \in DeskTickets /\ desk.at = "new"
  <2>1. CASE desk = Tool!Empty
    BY <2>1, EmptyIs
  <2>2. ASSUME NEW text \in Tool!Texts, desk = [Tool!Empty EXCEPT !.text = text]
        PROVE  desk \in DeskTickets /\ desk.at = "new"
    <3> DEFINE z == Tool!Empty
    <3>1. z \in DeskTickets /\ z.at = "new" /\ text \in SUBSET Tool!Marks /\ desk = [z EXCEPT !.text = text]
      BY <2>2, EmptyIs DEF Tool!Texts
    <3> HIDE DEF z
    <3> QED BY <3>1 DEF DeskTickets
  <2> QED BY <2>1, <2>2 DEF Tool!DeskInit
<1> QED BY <1>1 DEF DeskInv, Grounded, Tool!IntentIsGrounded, Tool!RefundIsEscalated, Tool!ValidReplyIsClean,
        Tool!AppliedIsPreviewed

LEMMA DeskStep == DeskInv /\ [part = "desk" /\ Tool!DeskNext]_<<part, desk>> => DeskInv'
<1> SUFFICES ASSUME DeskInv, [part = "desk" /\ Tool!DeskNext]_<<part, desk>> PROVE DeskInv'
  OBVIOUS
<1> USE DEF Grounded, Tool!IntentIsGrounded, Tool!RefundIsEscalated, Tool!ValidReplyIsClean, Tool!AppliedIsPreviewed
<1>1. CASE UNCHANGED desk
  BY <1>1 DEF DeskInv
<1>2. desk \in DeskTickets
  BY DEF DeskInv
<1>3. CASE Tool!LookAtPosting
  <2>1. PICK names \in Tool!Addresses, path \in Paths :
          desk' = [desk EXCEPT !.at = "looked", !.posting = <<Posting(names, path)>>]
    BY <1>3 DEF Tool!LookAtPosting, Posting, Paths
  <2> DEFINE p == <<Posting(names, path)>>
  <2>2. p \in Postings
    BY DEF Postings
  <2>3. p[1].names = names /\ p[1].metadata.preview = (Tool!DetectPlatform(names) # "GenericPlatform")
    BY DEF Posting, Tool!ExtractPlatformMetadata
  <2>4. Tool!Strategy(names) # "none" => Tool!DetectPlatform(names) # "GenericPlatform"
    BY DEF Tool!Strategy, Tool!DetectPlatform, Tool!Addresses
  <2> HIDE DEF p
  <2>5. desk' \in DeskTickets /\ desk'.at = "looked" /\ desk'.posting = p
    BY <1>2, <2>1, <2>2 DEF DeskTickets, p
  <2> QED BY <2>3, <2>4, <2>5 DEF DeskInv
<1>4. CASE Tool!Classify
  <2> DEFINE i == Tool!ClassifySupportIntent(desk.text)
  <2>1. i \in Triages /\ ("refund" \in desk.text => i.requiresEscalation)
    <3> DEFINE b == "refund" \in desk.text
               t == Tool!Triage("billing_and_refund", "high", b)
    <3>1. b \in BOOLEAN /\ (b => desk.text \cap {"refund", "charge", "billing"} # {})
      OBVIOUS
    <3>2. \/ desk.text \cap {"refund", "charge", "billing"} # {} /\ i = t
          \/ /\ desk.text \cap {"refund", "charge", "billing"} = {}
             /\ i \in {Tool!Triage("account_access", "medium", FALSE), Tool!Triage("incident_escalation", "critical", TRUE),
                      Tool!Triage("general_inquiry", "low", FALSE)}
      BY DEF Tool!ClassifySupportIntent
    <3>3. Tool!Triage("account_access", "medium", FALSE) \in Triages
          /\ Tool!Triage("incident_escalation", "critical", TRUE) \in Triages
          /\ Tool!Triage("general_inquiry", "low", FALSE) \in Triages
      BY DEF Tool!Triage, Triages, Intents
    <3> HIDE DEF b, i
    <3>4. t \in Triages /\ t.requiresEscalation = b
      BY <3>1 DEF Tool!Triage, Triages, Intents
    <3> HIDE DEF t
    <3>5. b => i = t
      BY <3>1, <3>2
    <3>6. i \in Triages
      BY <3>2, <3>3, <3>4
    <3> QED BY <3>4, <3>5, <3>6 DEF b
  <2>2. desk' = [desk EXCEPT !.at = "classified", !.intent = i]
    BY <1>4 DEF Tool!Classify
  <2> HIDE DEF i
  <2>3. desk' \in DeskTickets /\ desk'.at = "classified" /\ desk'.text = desk.text /\ desk'.intent = i
    BY <1>2, <2>1, <2>2 DEF DeskTickets
  <2> QED BY <2>1, <2>3 DEF DeskInv
<1>5. CASE Tool!Retrieve
  <2> DEFINE c == Tool!RetrieveSupportContext(desk.text, desk.intent.intent)
  <2>1. c \subseteq {"support-tier1-escalation-policy", "refund-approval-threshold-policy", "identity-verification-policy"}
    BY DEF Tool!RetrieveSupportContext
  <2>2. /\ desk.intent.intent = "billing_and_refund" => "refund-approval-threshold-policy" \in c
        /\ desk.intent.intent = "account_access" => "identity-verification-policy" \in c
    BY DEF Tool!RetrieveSupportContext, Tool!IntentMarks
  <2>3. desk' = [desk EXCEPT !.at = "retrieved", !.policies = c]
    BY <1>5 DEF Tool!Retrieve
  <2> HIDE DEF c
  <2>4. desk' \in DeskTickets /\ desk'.at = "retrieved" /\ desk'.intent = desk.intent /\ desk'.policies = c
    BY <1>2, <2>1, <2>3 DEF DeskTickets
  <2> QED BY <2>2, <2>4 DEF DeskInv
<1>6. CASE Tool!Draft
  <2>1. PICK summary \in SUBSET (desk.text \cap {"pii", "promise"}) :
          desk' = [desk EXCEPT !.at = "drafted", !.draft = summary]
    BY <1>6 DEF Tool!Draft, Tool!DraftSupportReply
  <2>2. summary \in SUBSET Tool!Marks
    BY <1>2 DEF DeskTickets
  <2>3. desk' \in DeskTickets /\ desk'.at = "drafted"
    BY <1>2, <2>1, <2>2 DEF DeskTickets
  <2> QED BY <2>3 DEF DeskInv
<1>7. CASE Tool!Redact
  <2>1. PICK mode \in ReplyModes :
          desk' = [desk EXCEPT !.at = "redacted", !.draft = Tool!RedactSupportPii(desk.draft, mode).text,
                               !.findings = Tool!RedactSupportPii(desk.draft, mode).findings]
    BY <1>7 DEF Tool!Redact
  <2> DEFINE t == Tool!RedactSupportPii(desk.draft, mode).text
             f == Tool!RedactSupportPii(desk.draft, mode).findings
  <2>2. t \in SUBSET Tool!Marks /\ f \in SUBSET Tool!Marks
    BY <1>2 DEF DeskTickets, Tool!RedactSupportPii
  <2>3. desk' = [desk EXCEPT !.at = "redacted", !.draft = t, !.findings = f]
    BY <2>1
  <2> HIDE DEF t, f
  <2>4. desk' \in DeskTickets /\ desk'.at = "redacted"
    BY <1>2, <2>2, <2>3 DEF DeskTickets
  <2> QED BY <2>4 DEF DeskInv
<1>8. CASE Tool!Validate
  <2> DEFINE v == IF Tool!ValidateSupportReply(desk.draft).valid THEN "valid" ELSE "invalid"
  <2>1. v \in {"valid", "invalid"} /\ (v = "valid" => "pii" \notin desk.draft)
    BY DEF Tool!ValidateSupportReply
  <2>2. desk' = [desk EXCEPT !.at = "validated", !.verdict = v]
    BY <1>8 DEF Tool!Validate
  <2> HIDE DEF v
  <2>3. desk' \in DeskTickets /\ desk'.at = "validated" /\ desk'.draft = desk.draft /\ desk'.verdict = v
    BY <1>2, <2>1, <2>2 DEF DeskTickets
  <2> QED BY <2>1, <2>3 DEF DeskInv
<1> QED BY <1>1, <1>3, <1>4, <1>5, <1>6, <1>7, <1>8 DEF Tool!DeskNext

\* What an agent gets by a tool is what the tool was made for, for any actions, handlers,
\* clusters and targets (server.ts, action-registry.ts, k8s-adapter.ts, webhook-adapter.ts).
THEOREM ToolsGoverned == MCSpec => ToolsAreGoverned
<1> DEFINE Invariants == RegistryInv /\ KubeInv /\ HookInv /\ DeskInv
<1>1. MCInit => Invariants
  BY RegistryStarts, KubeStarts, HookStarts, DeskStarts DEF MCInit
<1>2. Invariants /\ [MCNext]_mcVars => Invariants'
  BY ToolSteps, RegistryStep, KubeStep, HookStep, DeskStep
<1>3. Invariants /\ [MCNext]_mcVars =>
        [\A id \in Ids : actions[id].handler \in Handlers => actions'[id].handler \in Handlers]_<<actions, tools, reply>>
  BY ToolSteps, RegistryStep
<1>4. Invariants /\ [MCNext]_mcVars => [Governed]_kubeVars
  BY ToolSteps, KubeStep
<1>5. Invariants => /\ Tool!BuiltInsStay /\ (part = "webhook" => Adapter!RepetitionsAreAlike)
                    /\ Tool!IntentIsGrounded /\ Tool!RefundIsEscalated /\ Tool!ValidReplyIsClean /\ Tool!AppliedIsPreviewed
  BY RepetitionsAlike DEF RegistryInv, DeskInv, Grounded
<1> HIDE DEF Invariants
<1> QED BY <1>1, <1>2, <1>3, <1>4, <1>5, PTL
        DEF MCSpec, ToolsAreGoverned, Tool!HandlerIsKept, Tool!registryVars, Adapter!ChangesAreGoverned, kubeVars,
            Adapter!kubeVars, Governed

===============================================================================
