------------------------------ MODULE TrustProofs ------------------------------
(* What vouches for a bundle, proved for any commands, keys, publishers, packs, *)
(* plugins, attestations, macaroons and proofs of decisions: the invariants of  *)
(* MCTrust, component by component.                                             *)
EXTENDS MCTrust, Integers, FiniteSetTheorems, WellFoundedInduction, TLAPS

-----------------------------------------------------------------------------
(* Plugins *)

\* An effect of code in the sandbox is under a permission that was used, and in the root
\* when it has a path; the report was true when it was made.
PluginInv ==
  /\ Plugin!TypeOK
  /\ \A e \in effects :
       e.by = "sandbox" => e.perm \in used /\ (e.perm \in Plugin!NeedsPath => SubSeq(e.path, 1, Len(Root)) = Root)
  /\ Plugin!ReportCoversRun

LEMMA PluginInit == Plugin!Init => PluginInv
BY MCAssumption DEF Plugin!PluginsAssumption, Plugin!Init, PluginInv, Plugin!TypeOK, Plugin!ReportCoversRun, Plugin!NoReport

\* What is confined begins with the root.
LEMMA ConfinedBegins ==
  ASSUME NEW at, Plugin!Confined(at)
  PROVE  SubSeq(at, 1, Len(Root)) = Root
BY MCAssumption DEF Plugin!PluginsAssumption, Plugin!Confined, Plugin!IsPrefix

LEMMA PluginCall ==
  ASSUME PluginInv, NEW perm \in Permissions, NEW path \in Paths, Plugin!Call(perm, path),
         phase \in {"running", "returned", "failed"}
  PROVE  PluginInv'
<1> DEFINE at == Plugin!Resolve(path)
           inside == IF perm \in Plugin!NeedsPath THEN Plugin!Confined(at) ELSE perm \in Handlers
           effect == [by |-> "sandbox", perm |-> perm, path |-> IF perm \in Plugin!NeedsPath THEN at ELSE <<>>]
<1>1. /\ calls < MaxCalls /\ calls' = calls + 1
      /\ used' = IF perm \in declared THEN used \cup {perm} ELSE used
      /\ effects' = IF perm \in declared /\ inside THEN effects \cup {effect} ELSE effects
      /\ phase' \in {phase, "failed"}
      /\ declared' = declared /\ loaded' = loaded /\ report' = report
  BY DEF Plugin!Call, Plugin!Allows, Plugin!Effect
<1> HIDE DEF at
<1>2. Plugin!TypeOK'
  BY <1>1, MCAssumption DEF PluginInv, Plugin!TypeOK, Plugin!PluginsAssumption
<1>3. ASSUME NEW e \in effects', e.by = "sandbox"
      PROVE  e.perm \in used' /\ (e.perm \in Plugin!NeedsPath => SubSeq(e.path, 1, Len(Root)) = Root)
  <2>1. CASE e \in effects
    BY <2>1, <1>1, <1>3 DEF PluginInv
  <2>2. CASE e \notin effects
    <3>1. perm \in declared /\ inside /\ e = effect
      BY <2>2, <1>1
    <3>2. perm \in Plugin!NeedsPath => SubSeq(at, 1, Len(Root)) = Root
      BY <3>1, ConfinedBegins
    <3> QED BY <3>1, <3>2, <1>1
  <2> QED BY <2>1, <2>2
<1>4. Plugin!ReportCoversRun'
  BY <1>1 DEF PluginInv, Plugin!ReportCoversRun
<1> QED BY <1>2, <1>3, <1>4 DEF PluginInv

\* Imported code has effects of its own, of which nothing is said.
LEMMA PluginImported == ASSUME PluginInv, Plugin!ImportedCode PROVE PluginInv'
<1>1. PICK perm \in Permissions, path \in Paths : effects' = effects \cup {Plugin!Effect("import", perm, path)}
  BY DEF Plugin!ImportedCode
<1>2. Plugin!Effect("import", perm, path).by = "import"
  BY DEF Plugin!Effect
<1>3. /\ loaded \in {"imported", "threw"} /\ calls < MaxCalls /\ calls' = calls + 1
      /\ UNCHANGED <<declared, loaded, phase, used, report>>
  BY DEF Plugin!ImportedCode
<1> QED BY <1>1, <1>2, <1>3, MCAssumption DEF PluginInv, Plugin!TypeOK, Plugin!PluginsAssumption, Plugin!ReportCoversRun

LEMMA PluginStep == PluginInv /\ [Plugin!Next]_pluginVars => PluginInv'
<1> SUFFICES ASSUME PluginInv, [Plugin!Next]_pluginVars PROVE PluginInv'
  OBVIOUS
<1>1. CASE Plugin!LoadPlugin \/ Plugin!ImportThrows
  BY <1>1 DEF PluginInv, Plugin!LoadPlugin, Plugin!ImportThrows, Plugin!TypeOK, Plugin!ReportCoversRun
<1>2. CASE Plugin!ImportedCode
  BY <1>2, PluginImported
<1>3. CASE Plugin!ExecuteCode
  BY <1>3 DEF PluginInv, Plugin!ExecuteCode, Plugin!TypeOK, Plugin!ReportCoversRun
<1>4. CASE Plugin!HostCall
  BY <1>4, PluginCall DEF Plugin!HostCall
<1>5. CASE Plugin!Return
  BY <1>5 DEF PluginInv, Plugin!Return, Plugin!TypeOK, Plugin!ReportCoversRun
<1>6. CASE Plugin!Fail
  BY <1>6 DEF PluginInv, Plugin!Fail, Plugin!TypeOK, Plugin!ReportCoversRun
<1>7. CASE UNCHANGED pluginVars
  BY <1>7 DEF PluginInv, pluginVars, Plugin!TypeOK, Plugin!ReportCoversRun
<1> QED BY <1>1, <1>2, <1>3, <1>4, <1>5, <1>6, <1>7 DEF Plugin!Next

\* A step of the whole is a step or a stutter of each component.
LEMMA PluginSteps == [Next]_vars => [part = "plugin" /\ Plugin!Next]_<<part, pluginVars>>
BY DEF Next, vars

\* However code in the sandbox calls, fails and calls again, beside whatever imported code
\* does, it has no effect that its manifest does not declare and none out of its root, and
\* its report has all that it did before it ended (sandbox-runner.ts:69-166).
THEOREM PluginsContained == Spec => []PluginsAreContained
<1> DEFINE I == part = "plugin" => PluginInv
<1>1. Init => I
  BY PluginInit DEF Init
<1>2. I /\ [Next]_vars => I'
  BY PluginStep, PluginSteps DEF pluginVars
<1>3. I => PluginsAreContained
  BY DEF PluginsAreContained, PluginInv, Plugin!EffectsAreDeclared, Plugin!TypeOK
<1> QED
  BY <1>1, <1>2, <1>3, PTL DEF Spec

-----------------------------------------------------------------------------
(* The keyring *)

Entries == [id : KeyIds, status : {"active", "retired", "revoked"}, kek : Keks]
Rings == [active : KeyIds \cup {NoKey}, keys : Seq(Entries)]
HeldRings ==
  [cmd : {"none", "rotate", "add", "revoke", "sign"}, key : KeyIds \cup {NoKey},
   kek : Keks \cup {"none"}, ring : Rings]

\* A manifest of keys of M: an id stands once, and the active key is the one that is named.
RingOK(r, M) ==
  /\ r \in Rings
  /\ \A i, j \in DOMAIN r.keys : r.keys[i].id = r.keys[j].id => i = j
  /\ \A i \in DOMAIN r.keys : r.keys[i].status = "active" <=> r.keys[i].id = r.active
  /\ r.active # NoKey => r.active \in Keyring!Ids(r)
  /\ Keyring!Ids(r) \subseteq M

\* The entries that are revoked are those of the set R.
Marks(r, R) == \A i \in DOMAIN r.keys : r.keys[i].status = "revoked" <=> r.keys[i].id \in R

Generating(p) == held[p].cmd \in {"rotate", "add"}

Undisturbed ==
  /\ ring # Keyring!Torn
  /\ \A p, q \in KeyCommands : held[p] # Keyring!Idle /\ held[q] # Keyring!Idle => p = q
  /\ \A p \in KeyCommands : held[p] # Keyring!Idle => held[p].ring = ring
  /\ signed \subseteq Keyring!Ids(ring) /\ revoked \subseteq Keyring!Ids(ring)
  /\ Marks(ring, revoked)

\* Every manifest, on disk or held, is sound; a key that is being generated is new and is
\* generated by one command; and while nothing overlaps, who holds a manifest holds the
\* one on disk, which knows every key that signed or was revoked.
KeyringInv ==
  /\ minted \subseteq KeyIds /\ signed \subseteq KeyIds /\ revoked \subseteq KeyIds
  /\ held \in [KeyCommands -> HeldRings]
  /\ ring # Keyring!Torn => RingOK(ring, minted)
  /\ \A p \in KeyCommands : RingOK(held[p].ring, minted)
  /\ \A p \in KeyCommands : Generating(p) => held[p].key \in KeyIds \ minted /\ held[p].kek \in Keks
  /\ \A p, q \in KeyCommands : Generating(p) /\ Generating(q) /\ p # q => held[p].key # held[q].key
  /\ keyAlone => Undisturbed

\* The first entry with an id is the only one.
LEMMA EntryIs ==
  ASSUME NEW M, NEW r, RingOK(r, M), NEW i \in DOMAIN r.keys
  PROVE  Keyring!Entry(r, r.keys[i].id) = r.keys[i]
<1> DEFINE S == {j \in DOMAIN r.keys : r.keys[j].id = r.keys[i].id}
<1>1. DOMAIN r.keys = 1 .. Len(r.keys) /\ Len(r.keys) \in Nat
  BY DEF RingOK, Rings
<1>2. S = {i}
  BY DEF RingOK
<1>3. Keyring!Min(S) = i
  BY <1>1, <1>2 DEF Keyring!Min
<1> QED BY <1>3 DEF Keyring!Entry

LEMMA RingParts ==
  ASSUME NEW M, NEW r, RingOK(r, M)
  PROVE  /\ r.active \in KeyIds \cup {NoKey} /\ r.keys \in Seq(Entries)
         /\ r = [active |-> r.active, keys |-> r.keys]
         /\ Len(r.keys) \in Nat /\ DOMAIN r.keys = 1 .. Len(r.keys)
         /\ \A i \in DOMAIN r.keys : r.keys[i] \in Entries
BY DEF RingOK, Rings

LEMMA SetStatusIs ==
  ASSUME NEW keys \in Seq(Entries), NEW k, NEW status \in {"active", "retired", "revoked"}
  PROVE  LET new == Keyring!SetStatus(keys, k, status) IN
           /\ new \in Seq(Entries) /\ Len(new) = Len(keys) /\ DOMAIN new = DOMAIN keys
           /\ \A i \in DOMAIN keys :
                /\ new[i].id = keys[i].id
                /\ new[i].status = IF keys[i].id = k THEN status ELSE keys[i].status
<1> DEFINE new == Keyring!SetStatus(keys, k, status)
<1>1. new = [i \in DOMAIN keys |-> IF keys[i].id = k THEN [keys[i] EXCEPT !.status = status] ELSE keys[i]]
  BY DEF Keyring!SetStatus
<1>2. DOMAIN keys = 1 .. Len(keys) /\ Len(keys) \in Nat /\ \A i \in DOMAIN keys : keys[i] \in Entries
  OBVIOUS
<1> HIDE DEF new
<1>3. ASSUME NEW i \in DOMAIN keys
      PROVE  /\ new[i] \in Entries /\ new[i].id = keys[i].id
             /\ new[i].status = IF keys[i].id = k THEN status ELSE keys[i].status
  <2>1. keys[i] \in Entries /\ new[i] = IF keys[i].id = k THEN [keys[i] EXCEPT !.status = status] ELSE keys[i]
    BY <1>1, <1>2
  <2> QED BY <2>1 DEF Entries
<1>4. new \in [1 .. Len(keys) -> Entries]
  BY <1>1, <1>2, <1>3
<1>5. new \in Seq(Entries) /\ Len(new) = Len(keys)
  BY <1>2, <1>4
<1> QED BY <1>1, <1>3, <1>5 DEF new

\* A new key: one entry more, and the only active one when it is made so.
LEMMA GenerateIs ==
  ASSUME NEW M, NEW R, NEW r, RingOK(r, M), M \subseteq KeyIds,
         NEW k \in KeyIds \ M, NEW kek \in Keks, NEW makeActive \in BOOLEAN
  PROVE  LET new == Keyring!GenerateKey(r, k, kek, makeActive) IN
           /\ RingOK(new, M \cup {k})
           /\ Keyring!Ids(new) = Keyring!Ids(r) \cup {k}
           /\ Marks(r, R) /\ k \notin R => Marks(new, R)
<1> DEFINE retires == makeActive /\ r.active \in Keyring!Ids(r) /\ Keyring!Entry(r, r.active).status = "active"
           former == IF retires THEN Keyring!SetStatus(r.keys, r.active, "retired") ELSE r.keys
           entry == [id |-> k, status |-> IF makeActive THEN "active" ELSE "retired", kek |-> kek]
           new == Keyring!GenerateKey(r, k, kek, makeActive)
<1>1. new = [active |-> IF makeActive THEN k ELSE r.active, keys |-> Append(former, entry)]
  BY DEF Keyring!GenerateKey
<1>2. /\ r.active \in KeyIds \cup {NoKey} /\ r.keys \in Seq(Entries)
      /\ DOMAIN r.keys = 1 .. Len(r.keys) /\ Len(r.keys) \in Nat
  BY RingParts
<1>3. /\ former \in Seq(Entries) /\ Len(former) = Len(r.keys) /\ DOMAIN former = 1 .. Len(r.keys)
      /\ \A i \in DOMAIN former :
           /\ former[i].id = r.keys[i].id
           /\ former[i].status = IF retires /\ r.keys[i].id = r.active THEN "retired" ELSE r.keys[i].status
  BY <1>2, SetStatusIs
<1>4. entry \in Entries /\ entry.id = k
      /\ entry.status = IF makeActive THEN "active" ELSE "retired"
  BY DEF Entries
<1> DEFINE n == Len(r.keys) + 1
<1>5. ASSUME NEW i \in DOMAIN r.keys
      PROVE  /\ r.keys[i].id \in M /\ r.keys[i].id # k
             /\ r.keys[i].status = "active" <=> r.keys[i].id = r.active
             /\ r.keys[i].id = r.active => Keyring!Entry(r, r.active).status = "active"
  BY EntryIs DEF RingOK, Keyring!Ids
<1>6. /\ new.keys \in Seq(Entries) /\ DOMAIN new.keys = 1 .. n /\ new.keys[n] = entry
      /\ \A i \in 1 .. Len(r.keys) : new.keys[i] = former[i]
      /\ new.active = IF makeActive THEN k ELSE r.active
      /\ new \in Rings
  <2> HIDE DEF former, entry, new
  <2>1. Append(former, entry) \in Seq(Entries) /\ Len(Append(former, entry)) = n
        /\ Append(former, entry)[n] = entry /\ \A i \in 1 .. Len(r.keys) : Append(former, entry)[i] = former[i]
    BY <1>2, <1>3, <1>4
  <2> QED BY <1>1, <1>2, <2>1 DEF Rings
<1> HIDE DEF former, entry, new
<1>7. ASSUME NEW i \in DOMAIN new.keys
      PROVE  \/ i = n /\ new.keys[i].id = k /\ new.keys[i].status = IF makeActive THEN "active" ELSE "retired"
             \/ /\ i \in DOMAIN r.keys /\ new.keys[i].id = r.keys[i].id
                /\ new.keys[i].status = IF retires /\ r.keys[i].id = r.active THEN "retired" ELSE r.keys[i].status
  BY <1>2, <1>3, <1>4, <1>6
<1>8. Keyring!Ids(new) = Keyring!Ids(r) \cup {k}
  <2>1. \A i \in DOMAIN r.keys : i \in DOMAIN new.keys /\ new.keys[i].id = r.keys[i].id
    BY <1>2, <1>3, <1>6
  <2>2. n \in DOMAIN new.keys /\ new.keys[n].id = k
    BY <1>2, <1>4, <1>6
  <2> HIDE DEF n
  <2> QED BY <1>7, <2>1, <2>2 DEF Keyring!Ids
<1>9. RingOK(new, M \cup {k})
  <2>1. \A i, j \in DOMAIN new.keys : new.keys[i].id = new.keys[j].id => i = j
    <3> SUFFICES ASSUME NEW i \in DOMAIN new.keys, NEW j \in DOMAIN new.keys, new.keys[i].id = new.keys[j].id
                 PROVE  i = j
      OBVIOUS
    <3> HIDE DEF n, retires
    <3> QED BY <1>5, <1>7 DEF RingOK
  <2>2. r.active # NoKey => r.active \in Keyring!Ids(r)
    BY DEF RingOK
  <2>3. makeActive \/ r.active # k
    BY <2>2, <1>5, MCAssumption DEF Keyring!Ids, Keyring!KeyringAssumption
  <2>4. makeActive => \A i \in DOMAIN r.keys : r.keys[i].id = r.active => retires
    BY <1>5 DEF Keyring!Ids
  <2>5. \A i \in DOMAIN new.keys : new.keys[i].status = "active" <=> new.keys[i].id = new.active
    <3> SUFFICES ASSUME NEW i \in DOMAIN new.keys
                 PROVE  new.keys[i].status = "active" <=> new.keys[i].id = new.active
      OBVIOUS
    <3> HIDE DEF n
    <3>1. CASE makeActive
      <4> HIDE DEF retires
      <4> QED BY <3>1, <1>5, <1>6, <1>7, <2>4
    <3>2. CASE ~makeActive
      BY <3>2, <1>5, <1>6, <1>7, <2>3
    <3> QED BY <3>1, <3>2
  <2>6. new.active # NoKey => new.active \in Keyring!Ids(new)
    BY <1>6, <1>8, <2>2
  <2>7. Keyring!Ids(new) \subseteq M \cup {k}
    BY <1>8 DEF RingOK
  <2> QED BY <1>6, <2>1, <2>5, <2>6, <2>7 DEF RingOK
<1>10. ASSUME Marks(r, R), k \notin R
       PROVE  Marks(new, R)
  <2> SUFFICES ASSUME NEW i \in DOMAIN new.keys
               PROVE  new.keys[i].status = "revoked" <=> new.keys[i].id \in R
    BY DEF Marks
  <2>1. ASSUME NEW j \in DOMAIN r.keys, retires, r.keys[j].id = r.active
        PROVE  r.keys[j].status # "revoked"
    BY <2>1, <1>5
  <2> HIDE DEF n, retires
  <2> QED BY <1>7, <1>10, <2>1 DEF Marks
<1> QED BY <1>8, <1>9, <1>10 DEF new

\* A revoked key: no other entry becomes active, as no other was.
LEMMA RevokeIs ==
  ASSUME NEW M, NEW R, NEW r, RingOK(r, M), NEW k \in Keyring!Ids(r), M \subseteq KeyIds
  PROVE  LET new == Keyring!RevokeKey(r, k) IN
           /\ RingOK(new, M)
           /\ Keyring!Ids(new) = Keyring!Ids(r)
           /\ Marks(r, R) => Marks(new, R \cup {k})
<1> DEFINE keys == Keyring!SetStatus(r.keys, k, "revoked")
           others == {i \in DOMAIN keys : keys[i].status = "active"}
           new == Keyring!RevokeKey(r, k)
<1>1. new = [keys |-> keys,
             active |-> IF r.active # k THEN r.active
                        ELSE IF others = {} THEN NoKey ELSE keys[Keyring!Min(others)].id]
  BY DEF Keyring!RevokeKey
<1>2. r.active \in KeyIds \cup {NoKey} /\ r.keys \in Seq(Entries)
  BY RingParts
<1>3. /\ keys \in Seq(Entries) /\ DOMAIN keys = DOMAIN r.keys
      /\ \A i \in DOMAIN keys :
           /\ keys[i].id = r.keys[i].id
           /\ keys[i].status = IF r.keys[i].id = k THEN "revoked" ELSE r.keys[i].status
  BY <1>2, SetStatusIs
<1> HIDE DEF keys
<1>4. k \in KeyIds /\ k # NoKey
  BY MCAssumption DEF RingOK, Keyring!KeyringAssumption
<1>5. r.active = k => others = {}
  BY <1>3 DEF RingOK
<1>6. new.keys = keys /\ new.active = IF r.active # k THEN r.active ELSE NoKey
  BY <1>1, <1>5
<1>7. new \in Rings
  BY <1>1, <1>2, <1>3, <1>6 DEF Rings
<1> HIDE DEF new
<1>8. Keyring!Ids(new) = Keyring!Ids(r)
  BY <1>3, <1>6 DEF Keyring!Ids
<1>9. \A i \in DOMAIN r.keys : r.keys[i].id # NoKey
  <2>1. \A i \in DOMAIN r.keys : r.keys[i].id \in KeyIds
    BY RingParts DEF Entries
  <2> QED BY <2>1, MCAssumption DEF Keyring!KeyringAssumption
<1>10. RingOK(new, M)
  <2>1. \A i, j \in DOMAIN new.keys : new.keys[i].id = new.keys[j].id => i = j
    BY <1>3, <1>6 DEF RingOK
  <2>2. \A i \in DOMAIN new.keys : new.keys[i].status = "active" <=> new.keys[i].id = new.active
    BY <1>3, <1>6, <1>9 DEF RingOK
  <2> QED BY <1>6, <1>7, <1>8, <2>1, <2>2 DEF RingOK
<1>11. Marks(r, R) => Marks(new, R \cup {k})
  BY <1>3, <1>6 DEF Marks
<1> QED BY <1>8, <1>10, <1>11 DEF new

LEMMA EmptyIsOK == ASSUME NEW M PROVE RingOK(Keyring!Empty, M) /\ Keyring!Ids(Keyring!Empty) = {}
<1>1. Keyring!Empty = [active |-> NoKey, keys |-> <<>>]
  BY DEF Keyring!Empty
<1>2. Keyring!Empty.keys = <<>> /\ Keyring!Empty.active = NoKey /\ Keyring!Empty \in Rings
  BY <1>1 DEF Rings
<1>3. Keyring!Ids(Keyring!Empty) = {}
  BY <1>2 DEF Keyring!Ids
<1> QED BY <1>2, <1>3 DEF RingOK

LEMMA IdleIs ==
  /\ Keyring!Idle.cmd = "none" /\ Keyring!Idle.ring = Keyring!Empty
  /\ Keyring!Idle \in HeldRings
<1>1. Keyring!Empty \in Rings
  BY EmptyIsOK DEF RingOK
<1> QED BY <1>1 DEF Keyring!Idle, HeldRings

LEMMA KeyringInit == Keyring!Init => KeyringInv
<1> SUFFICES ASSUME Keyring!Init PROVE KeyringInv
  OBVIOUS
<1>1. /\ ring = Keyring!Empty /\ held = [p \in KeyCommands |-> Keyring!Idle]
      /\ signed = {} /\ revoked = {} /\ minted = {}
  BY DEF Keyring!Init
<1>2. \A p \in KeyCommands : held[p] = Keyring!Idle /\ ~Generating(p) /\ held[p].ring = Keyring!Empty
  BY <1>1, IdleIs DEF Generating
<1>3. ring # Keyring!Torn
  BY <1>1, EmptyIsOK DEF Keyring!Torn, Keyring!Empty
<1>4. Undisturbed
  <2>1. Marks(ring, revoked)
    BY <1>1 DEF Marks, Keyring!Empty
  <2> QED BY <1>1, <1>2, <1>3, <2>1 DEF Undisturbed
<1> QED BY <1>1, <1>2, <1>4, EmptyIsOK, IdleIs DEF KeyringInv

\* The end of a command: the others are as they were.
LEMMA EndIs ==
  ASSUME KeyringInv, NEW p \in KeyCommands, Keyring!End(p)
  PROVE  /\ held' \in [KeyCommands -> HeldRings] /\ held'[p] = Keyring!Idle
         /\ \A q \in KeyCommands : q # p => held'[q] = held[q]
         /\ \A q \in KeyCommands : Generating(q)' => q # p /\ Generating(q) /\ held'[q] = held[q]
         /\ \A q \in KeyCommands : held'[q] # Keyring!Idle => held[q] # Keyring!Idle /\ held'[q] = held[q]
BY IdleIs DEF KeyringInv, Keyring!End, Generating

LEMMA RingGrows == ASSUME NEW M, NEW N, NEW r, RingOK(r, M), M \subseteq N PROVE RingOK(r, N)
BY DEF RingOK

LEMMA KeyringLoad ==
  ASSUME KeyringInv, NEW p \in KeyCommands, Keyring!Load(p) PROVE KeyringInv'
<1>1. PICK cmd \in {"rotate", "add", "revoke", "sign"}, k \in KeyIds \cup {NoKey}, kek \in Keks :
        /\ held' = [held EXCEPT ![p] = [cmd |-> cmd, key |-> k, kek |-> kek, ring |-> ring]]
        /\ cmd \in {"rotate", "add"} => Keyring!NextKey(k)
  BY DEF Keyring!Load
<1>2. /\ held[p] = Keyring!Idle /\ ring # Keyring!Torn
      /\ keyAlone' = (keyAlone /\ \A q \in KeyCommands : held[q] = Keyring!Idle)
      /\ UNCHANGED <<ring, signed, revoked, minted>>
  BY DEF Keyring!Load
<1> DEFINE new == [cmd |-> cmd, key |-> k, kek |-> kek, ring |-> ring]
<1>3. RingOK(ring, minted) /\ ring \in Rings
  BY <1>2 DEF KeyringInv, RingOK
<1>4. /\ held' \in [KeyCommands -> HeldRings] /\ held'[p] = new
      /\ \A q \in KeyCommands : q # p => held'[q] = held[q]
  <2>1. new \in HeldRings
    BY <1>3 DEF HeldRings
  <2> HIDE DEF new
  <2> QED BY <1>1, <2>1 DEF KeyringInv, new
<1>5. \A q \in KeyCommands : RingOK(held'[q].ring, minted')
  BY <1>2, <1>3, <1>4 DEF KeyringInv
<1>6. \A q \in KeyCommands : q # p /\ Generating(q)' => Generating(q) /\ held'[q] = held[q]
  BY <1>4 DEF Generating
<1>7. Generating(p)' => k \in KeyIds \ (minted \cup {held[q].key : q \in KeyCommands})
  BY <1>1, <1>4 DEF Generating, Keyring!NextKey
<1>8. \A q \in KeyCommands : Generating(q)' => held'[q].key \in KeyIds \ minted' /\ held'[q].kek \in Keks
  BY <1>2, <1>4, <1>6, <1>7 DEF KeyringInv
<1>9. \A q, o \in KeyCommands : Generating(q)' /\ Generating(o)' /\ q # o => held'[q].key # held'[o].key
  BY <1>4, <1>6, <1>7 DEF KeyringInv
<1>10. keyAlone' => Undisturbed'
  <2> SUFFICES ASSUME keyAlone' PROVE Undisturbed'
    OBVIOUS
  <2>1. Undisturbed /\ \A q \in KeyCommands : held[q] = Keyring!Idle
    BY <1>2 DEF KeyringInv
  <2>2. \A q \in KeyCommands : held'[q] # Keyring!Idle => q = p /\ held'[q].ring = ring
    BY <1>4, <2>1
  <2> HIDE DEF new
  <2> QED BY <1>2, <2>1, <2>2 DEF Undisturbed, Marks, Keyring!Ids
<1> QED BY <1>2, <1>3, <1>4, <1>5, <1>8, <1>9, <1>10 DEF KeyringInv

\* A command that holds a manifest, while nothing overlaps, holds the one on disk, and
\* when it ends nobody holds one.
LEMMA AloneHolds ==
  ASSUME KeyringInv, NEW p \in KeyCommands, held[p] # Keyring!Idle, Keyring!End(p), keyAlone
  PROVE  /\ Undisturbed /\ held[p].ring = ring
         /\ \A q \in KeyCommands : held'[q] = Keyring!Idle
BY EndIs DEF KeyringInv, Undisturbed

LEMMA KeyringFails ==
  ASSUME KeyringInv, NEW p \in KeyCommands, Keyring!Fails(p) PROVE KeyringInv'
<1>1. Keyring!End(p) /\ UNCHANGED <<ring, signed, revoked, minted, keyAlone>>
  BY DEF Keyring!Fails
<1>2. \A q \in KeyCommands : RingOK(held'[q].ring, minted')
  BY <1>1, EndIs, EmptyIsOK, IdleIs DEF KeyringInv
<1>3. keyAlone' => Undisturbed'
  <2> SUFFICES ASSUME keyAlone PROVE Undisturbed'
    BY <1>1
  <2>1. Undisturbed
    BY DEF KeyringInv
  <2> QED BY <1>1, <2>1, EndIs DEF Undisturbed, Marks, Keyring!Ids
<1> QED BY <1>1, <1>2, <1>3, EndIs DEF KeyringInv

LEMMA KeyringGenerate ==
  ASSUME KeyringInv, NEW p \in KeyCommands, Keyring!RunGenerate(p) PROVE KeyringInv'
<1>1. CASE held[p].kek \in Short
  BY <1>1, KeyringFails DEF Keyring!RunGenerate
<1>2. CASE held[p].kek \notin Short
  <2> DEFINE r == held[p].ring
             k == held[p].key
             makeActive == held[p].cmd = "rotate"
  <2>1. /\ ring' = Keyring!GenerateKey(r, k, held[p].kek, makeActive)
        /\ Keyring!End(p) /\ minted' = minted \cup {k} /\ UNCHANGED <<signed, revoked, keyAlone>>
        /\ Generating(p) /\ held[p] # Keyring!Idle
    BY <1>2, IdleIs DEF Keyring!RunGenerate, Generating
  <2>2. RingOK(r, minted) /\ k \in KeyIds \ minted /\ held[p].kek \in Keks /\ minted \subseteq KeyIds
    BY <2>1 DEF KeyringInv
  <2> DEFINE made == Keyring!GenerateKey(r, k, held[p].kek, makeActive)
  <2>a. makeActive \in BOOLEAN
    OBVIOUS
  <2> HIDE DEF r, k, makeActive
  <2>b. /\ RingOK(made, minted \cup {k}) /\ Keyring!Ids(made) = Keyring!Ids(r) \cup {k}
        /\ Marks(r, revoked) /\ k \notin revoked => Marks(made, revoked)
    BY <2>2, <2>a, GenerateIs
  <2>3. /\ RingOK(ring', minted') /\ Keyring!Ids(ring') = Keyring!Ids(r) \cup {k}
        /\ Marks(r, revoked) /\ k \notin revoked => Marks(ring', revoked)
    BY <2>1, <2>b
  <2>4. \A q \in KeyCommands : RingOK(held'[q].ring, minted')
    BY <2>1, EndIs, EmptyIsOK, IdleIs, RingGrows DEF KeyringInv
  <2>5. \A q \in KeyCommands : Generating(q)' => held'[q].key \in KeyIds \ minted' /\ held'[q].kek \in Keks
    BY <2>1, EndIs DEF KeyringInv, k
  <2>6. \A q, o \in KeyCommands : Generating(q)' /\ Generating(o)' /\ q # o => held'[q].key # held'[o].key
    BY <2>1, EndIs DEF KeyringInv
  <2>7. keyAlone' => Undisturbed'
    <3> SUFFICES ASSUME keyAlone PROVE Undisturbed'
      BY <2>1
    <3>1. Undisturbed /\ r = ring /\ \A q \in KeyCommands : held'[q] = Keyring!Idle
      BY <2>1, AloneHolds DEF r
    <3>2. revoked \subseteq Keyring!Ids(r) /\ Keyring!Ids(r) \subseteq minted
      BY <2>2, <3>1 DEF Undisturbed, RingOK
    <3>3. ring' # Keyring!Torn
      <4>1. k \in Keyring!Ids(ring') /\ k # NoKey
        BY <2>2, <2>3, MCAssumption DEF Keyring!KeyringAssumption
      <4>2. Keyring!Ids(Keyring!Torn) = {NoKey}
        BY DEF Keyring!Torn, Keyring!Ids
      <4> QED BY <4>1, <4>2
    <3> QED BY <2>1, <2>2, <2>3, <3>1, <3>2, <3>3 DEF Undisturbed
  <2>8. signed' \subseteq KeyIds /\ revoked' \subseteq KeyIds /\ minted' \subseteq KeyIds
    BY <2>1, <2>2 DEF KeyringInv
  <2> QED BY <2>1, <2>3, <2>4, <2>5, <2>6, <2>7, <2>8, EndIs DEF KeyringInv
<1> QED BY <1>1, <1>2

LEMMA KeyringRevoke ==
  ASSUME KeyringInv, NEW p \in KeyCommands, Keyring!RunRevoke(p) PROVE KeyringInv'
<1> DEFINE r == held[p].ring
           k == held[p].key
<1>1. CASE k \notin Keyring!Ids(r)
  BY <1>1, KeyringFails DEF Keyring!RunRevoke
<1>2. CASE k \in Keyring!Ids(r)
  <2>1. /\ ring' = Keyring!RevokeKey(r, k) /\ revoked' = revoked \cup {k}
        /\ Keyring!End(p) /\ UNCHANGED <<signed, minted, keyAlone>>
        /\ held[p] # Keyring!Idle
    BY <1>2, IdleIs DEF Keyring!RunRevoke
  <2>2. RingOK(r, minted) /\ minted \subseteq KeyIds
    BY DEF KeyringInv
  <2> HIDE DEF r, k
  <2>3. /\ RingOK(ring', minted) /\ Keyring!Ids(ring') = Keyring!Ids(r)
        /\ Marks(r, revoked) => Marks(ring', revoked \cup {k})
    BY <1>2, <2>1, <2>2, RevokeIs
  <2>4. k \in KeyIds
    BY <1>2, <2>2 DEF RingOK
  <2>5. \A q \in KeyCommands : RingOK(held'[q].ring, minted')
    BY <2>1, EndIs, EmptyIsOK, IdleIs DEF KeyringInv
  <2>6. \A q \in KeyCommands : Generating(q)' => held'[q].key \in KeyIds \ minted' /\ held'[q].kek \in Keks
    BY <2>1, EndIs DEF KeyringInv
  <2>7. \A q, o \in KeyCommands : Generating(q)' /\ Generating(o)' /\ q # o => held'[q].key # held'[o].key
    BY <2>1, EndIs DEF KeyringInv
  <2>8. keyAlone' => Undisturbed'
    <3> SUFFICES ASSUME keyAlone PROVE Undisturbed'
      BY <2>1
    <3>1. Undisturbed /\ r = ring /\ \A q \in KeyCommands : held'[q] = Keyring!Idle
      BY <2>1, AloneHolds DEF r
    <3>2. ring' # Keyring!Torn
      <4>1. k \in Keyring!Ids(ring') /\ k # NoKey
        BY <1>2, <2>3, <2>4, MCAssumption DEF Keyring!KeyringAssumption
      <4>2. Keyring!Ids(Keyring!Torn) = {NoKey}
        BY DEF Keyring!Torn, Keyring!Ids
      <4> QED BY <4>1, <4>2
    <3> QED BY <1>2, <2>1, <2>3, <3>1, <3>2 DEF Undisturbed
  <2>9. signed' \subseteq KeyIds /\ revoked' \subseteq KeyIds /\ minted' \subseteq KeyIds
    BY <2>1, <2>4 DEF KeyringInv
  <2> QED BY <2>1, <2>3, <2>5, <2>6, <2>7, <2>8, <2>9, EndIs DEF KeyringInv
<1> QED BY <1>1, <1>2

LEMMA KeyringSign ==
  ASSUME KeyringInv, NEW p \in KeyCommands, Keyring!RunSign(p) PROVE KeyringInv'
<1> DEFINE r == held[p].ring
<1>1. CASE ~Keyring!MaySign(r, held[p].kek)
  BY <1>1, KeyringFails DEF Keyring!RunSign
<1>2. CASE Keyring!MaySign(r, held[p].kek)
  <2>1. /\ signed' = signed \cup {r.active}
        /\ Keyring!End(p) /\ UNCHANGED <<ring, revoked, minted, keyAlone>>
        /\ held[p] # Keyring!Idle
    BY <1>2, IdleIs DEF Keyring!RunSign
  <2>2. RingOK(r, minted) /\ minted \subseteq KeyIds
    BY DEF KeyringInv
  <2>3. r.active \in Keyring!Ids(r)
    BY <1>2 DEF Keyring!MaySign
  <2> HIDE DEF r
  <2>4. r.active \in KeyIds
    BY <2>2, <2>3 DEF RingOK
  <2>5. \A q \in KeyCommands : RingOK(held'[q].ring, minted')
    BY <2>1, EndIs, EmptyIsOK, IdleIs DEF KeyringInv
  <2>6. keyAlone' => Undisturbed'
    <3> SUFFICES ASSUME keyAlone PROVE Undisturbed'
      BY <2>1
    <3>1. Undisturbed /\ r = ring /\ \A q \in KeyCommands : held'[q] = Keyring!Idle
      BY <2>1, AloneHolds DEF r
    <3> QED BY <2>1, <2>3, <3>1 DEF Undisturbed, Marks, Keyring!Ids
  <2> QED BY <2>1, <2>4, <2>5, <2>6, EndIs DEF KeyringInv
<1> QED BY <1>1, <1>2

LEMMA KeyringDies ==
  ASSUME KeyringInv, NEW p \in KeyCommands, Keyring!Dies(p) PROVE KeyringInv'
<1>1. /\ Keyring!End(p) /\ ~keyAlone' /\ ring' \in {ring, Keyring!Torn}
      /\ UNCHANGED <<signed, revoked, minted>>
  BY DEF Keyring!Dies
<1>2. \A q \in KeyCommands : RingOK(held'[q].ring, minted')
  BY <1>1, EndIs, EmptyIsOK, IdleIs DEF KeyringInv
<1> QED BY <1>1, <1>2, EndIs DEF KeyringInv

LEMMA KeyringStep == KeyringInv /\ [Keyring!Next]_ringVars => KeyringInv'
<1> SUFFICES ASSUME KeyringInv, [Keyring!Next]_ringVars PROVE KeyringInv'
  OBVIOUS
<1>1. CASE Keyring!Next
  BY <1>1, KeyringLoad, KeyringGenerate, KeyringRevoke, KeyringSign, KeyringDies DEF Keyring!Next
<1>2. CASE UNCHANGED ringVars
  BY <1>2 DEF ringVars, KeyringInv, Generating, Undisturbed, RingOK, Marks, Keyring!Ids
<1> QED BY <1>1, <1>2

\* When the key of the first signature is in the ring, it alone decides.
LEMMA FirstDecides ==
  ASSUME NEW r, NEW s, NEW signatures, DOMAIN signatures \subseteq Nat \ {0}, 1 \in DOMAIN signatures,
         signatures[1] = s, s.key \in Keyring!Ids(r)
  PROVE  Keyring!VerifyWithKeyring(r, signatures) <=> Keyring!Entry(r, s.key).status # "revoked" /\ s.good
<1> DEFINE known == {i \in DOMAIN signatures : signatures[i].key \in Keyring!Ids(r)}
<1>1. 1 \in known /\ \A i \in known : i \in Nat /\ 1 <= i
  OBVIOUS
<1> HIDE DEF known
<1>2. Keyring!Min(known) = 1
  BY <1>1 DEF Keyring!Min
<1>3. known # {}
  BY <1>1
<1> QED BY <1>2, <1>3 DEF Keyring!VerifyWithKeyring, known

LEMMA KeyringIsSound ==
  ASSUME KeyringInv
  PROVE  Keyring!TypeOK /\ Keyring!OneActiveKey /\ Keyring!SignedUntilRevoked /\ Keyring!FirstKnownDecides
<1>1. Keyring!TypeOK
  <2>1. ring # Keyring!Torn =>
          /\ ring.active \in KeyIds \cup {NoKey}
          /\ \A i \in DOMAIN ring.keys : ring.keys[i] \in Entries
    BY RingParts DEF KeyringInv
  <2>2. \A p \in KeyCommands : held[p].cmd \in {"none", "rotate", "add", "revoke", "sign"}
    BY DEF KeyringInv, HeldRings
  <2> QED BY <2>1, <2>2 DEF KeyringInv, Keyring!TypeOK, Entries
<1>2. Keyring!OneActiveKey
  BY DEF KeyringInv, RingOK, Keyring!OneActiveKey
<1>3. Keyring!SignedUntilRevoked
  <2> SUFFICES ASSUME keyAlone, NEW k \in signed
               PROVE  Keyring!VerifyWithKeyring(ring, <<[key |-> k, good |-> TRUE]>>) <=> k \notin revoked
    BY Zenon DEF Keyring!SignedUntilRevoked
  <2>1. Undisturbed /\ RingOK(ring, minted) /\ k \in Keyring!Ids(ring)
    BY DEF KeyringInv, Undisturbed
  <2>2. PICK i \in DOMAIN ring.keys : ring.keys[i].id = k
    BY <2>1 DEF Keyring!Ids
  <2>3. Keyring!Entry(ring, k).status = "revoked" <=> k \in revoked
    BY <2>1, <2>2, EntryIs DEF Undisturbed, Marks
  <2> DEFINE s == [key |-> k, good |-> TRUE]
  <2>4. Keyring!VerifyWithKeyring(ring, <<s>>) <=> Keyring!Entry(ring, k).status # "revoked"
    <3>1. DOMAIN <<s>> = {1} /\ <<s>>[1] = s /\ s.key = k /\ s.good
      OBVIOUS
    <3> HIDE DEF s
    <3> QED BY <2>1, <3>1, FirstDecides
  <2> QED BY <2>3, <2>4
<1>4. Keyring!FirstKnownDecides
  <2> SUFFICES ASSUME NEW k \in KeyIds, NEW l \in KeyIds, NEW good \in BOOLEAN, k \in Keyring!Ids(ring)
               PROVE  LET first == <<[key |-> k, good |-> good]>>
                          both == first \o <<[key |-> l, good |-> TRUE]>>
                      IN Keyring!VerifyWithKeyring(ring, both) => Keyring!VerifyWithKeyring(ring, first)
    BY DEF Keyring!FirstKnownDecides
  <2> DEFINE s == [key |-> k, good |-> good]
             t == [key |-> l, good |-> TRUE]
             first == <<s>>
             both == <<s>> \o <<t>>
  <2>1. s.key = k
    OBVIOUS
  <2> HIDE DEF s, t
  <2>2. DOMAIN first = {1} /\ first[1] = s /\ DOMAIN both = {1, 2} /\ both[1] = s
    OBVIOUS
  <2> HIDE DEF first, both
  <2>3. Keyring!VerifyWithKeyring(ring, both) <=> Keyring!VerifyWithKeyring(ring, first)
    BY <2>1, <2>2, FirstDecides
  <2> QED BY <2>3 DEF first, both, s, t
<1> QED BY <1>1, <1>2, <1>3, <1>4

LEMMA KeyringSteps == [Next]_vars => [part = "keyring" /\ Keyring!Next]_<<part, ringVars>>
BY DEF Next, vars

\* However commands over one keyring overlap or die: one key is active, and the first
\* signature of a known key decides; and while they do not overlap, what a key signed
\* verifies until the key is revoked and never after.
THEOREM KeysSound == Spec => []KeysAreSound
<1> DEFINE I == part = "keyring" => KeyringInv
<1>1. Init => I
  BY KeyringInit DEF Init
<1>2. I /\ [Next]_vars => I'
  BY KeyringStep, KeyringSteps DEF ringVars
<1>3. I => KeysAreSound
  BY KeyringIsSound DEF KeysAreSound
<1> QED
  BY <1>1, <1>2, <1>3, PTL DEF Spec

-----------------------------------------------------------------------------
(* The registry *)

Copies == [ir : Builds \cup {NoFile}, manifest : Builds \cup {NoFile}, att : Builds \cup {NoFile}]
PackEntries == [ir : Builds \cup {NoFile}, manifest : Builds \cup {NoFile}, signed : BOOLEAN]
Indexes == [Registry!Packs -> PackEntries]
Jobs ==
  [at : {"idle", "ir", "manifest", "hash", "load", "save"}, pack : Registry!Packs \cup {<<>>},
   build : Builds \cup {NoFile}, signed : BOOLEAN, entry : PackEntries, seen : Indexes]
Meshes ==
  [at : {"idle", "verify", "ended"}, index : Indexes, asked : SUBSET Domains, todo : SUBSET Domains,
   irs : SUBSET (Registry!Packs \X (Builds \cup {NoFile})), errors : BOOLEAN, quiet : BOOLEAN]

RegistryTyped ==
  /\ files \in [Registry!Packs -> Copies] /\ index \in Indexes
  /\ last \in [Registry!Packs -> Builds \cup {NoFile}]
  /\ job \in [Publishers -> Jobs] /\ mesh \in [Composers -> Meshes]
  /\ \A q \in Publishers : IF job[q].at = "idle" THEN job[q] = Registry!NoJob
                           ELSE job[q].pack \in Registry!Packs /\ job[q].build \in Builds
  /\ clean \in BOOLEAN /\ whole \in BOOLEAN

\* How far a publication has come, when no other touches the registry.
Copied(q) ==
  /\ job[q].at \in {"manifest", "hash", "load", "save"} => files[job[q].pack].ir = job[q].build
  /\ job[q].at \in {"hash", "load", "save"} => files[job[q].pack].manifest = job[q].build
  /\ job[q].at \in {"load", "save"} => job[q].entry.ir = job[q].build /\ job[q].entry.manifest = job[q].build
  /\ job[q].at = "save" => job[q].seen = index

\* While publications do not overlap: there is one at a time, and the index has of each
\* pack the build last published, be the files what they may.
Orderly ==
  /\ \A q, r \in Publishers : job[q].at # "idle" /\ job[r].at # "idle" => q = r
  /\ \A q \in Publishers : Copied(q)
  /\ \A p \in Registry!Packs :
       /\ index[p] # Registry!NoEntry => index[p].ir = last[p] /\ index[p].manifest = last[p]
       /\ last[p] # NoFile => index[p] # Registry!NoEntry

\* While none died either: the files of a pack that is not being copied are of that build.
Settled ==
  \A p \in Registry!Packs :
    last[p] # NoFile /\ (\A q \in Publishers : job[q].at \notin {"idle", "ir"} => job[q].pack # p) =>
      files[p].ir = last[p] /\ files[p].manifest = last[p]

\* A composition that nothing disturbed has the index of now and of each domain that it
\* is done with, as long as there was no error, the build last published.
Composing(m) ==
  /\ m.todo \subseteq m.asked /\ (m.at = "ended" => m.todo = {})
  /\ m.quiet /\ m.at # "idle" =>
       /\ m.index = index /\ \A q \in Publishers : job[q].at \in {"idle", "ir"}
       /\ clean => \A pair \in m.irs : pair[2] = last[pair[1]]
       /\ ~m.errors => {pair[1][1] : pair \in m.irs} = m.asked \ m.todo

RegistryInv ==
  /\ RegistryTyped
  /\ clean => Orderly
  /\ clean /\ whole => Settled
  /\ \A c \in Composers : Composing(mesh[c])

\* A set of the first numbers that is not empty has a greatest element.
LEMMA GreatestExists ==
  ASSUME NEW n \in Nat, NEW S, S \subseteq 1 .. n, S # {}
  PROVE  \E i \in S : \A j \in S : j <= i
<1> DEFINE T == {n - i : i \in S}
<1>1. T \subseteq Nat /\ T # {}
  <2>1. \A i \in S : n - i \in Nat
    OBVIOUS
  <2>2. PICK i \in S : TRUE
    OBVIOUS
  <2>3. n - i \in T
    OBVIOUS
  <2> QED BY <2>1, <2>3
<1> HIDE DEF T
<1>2. PICK m \in T : \A x \in T : ~(<<x, m>> \in OpToRel(<, Nat))
  BY <1>1, NatLessThanWellFounded, WFMin, Zenon
<1>3. \A x \in T : ~(x < m)
  BY <1>1, <1>2, Zenon DEF OpToRel
<1>4. PICK i \in S : m = n - i
  BY DEF T
<1>5. ASSUME NEW j \in S PROVE j <= i
  <2>1. n - j \in T
    BY DEF T
  <2> QED BY <1>3, <1>4, <2>1
<1> QED BY <1>5

LEMMA LatestIsPack ==
  ASSUME NEW d \in Domains, NEW idx, Registry!Latest(d, idx) # <<>>
  PROVE  Registry!Latest(d, idx) \in Registry!Packs /\ Registry!Latest(d, idx)[1] = d
<1> DEFINE found == {i \in DOMAIN Versions : idx[<<d, Versions[i]>>] # Registry!NoEntry}
           greatest == CHOOSE i \in found : \A j \in found : j <= i
<1>1. found # {} /\ Registry!Latest(d, idx) = <<d, Versions[greatest]>>
  BY DEF Registry!Latest
<1>2. found \subseteq 1 .. Len(Versions) /\ Len(Versions) \in Nat /\ found \subseteq DOMAIN Versions
  BY MCAssumption DEF Registry!RegistryAssumption
<1> HIDE DEF found
<1>3. \E i \in found : \A j \in found : j <= i
  BY <1>1, <1>2, GreatestExists
<1>4. greatest \in found
  BY <1>3
<1> HIDE DEF greatest
<1> QED BY <1>1, <1>2, <1>4 DEF Registry!Packs

LEMMA NoEntryIs ==
  Registry!NoEntry \in PackEntries /\ Registry!NoEntry.ir = NoFile /\ Registry!NoIndex \in Indexes
BY DEF Registry!NoEntry, Registry!NoIndex, PackEntries, Indexes

LEMMA NoJobIs == Registry!NoJob \in Jobs /\ Registry!NoJob.at = "idle"
<1>1. Registry!NoJob = [at |-> "idle", pack |-> <<>>, build |-> NoFile, signed |-> FALSE,
                        entry |-> Registry!NoEntry, seen |-> Registry!NoIndex]
  BY DEF Registry!NoJob
<1> QED BY <1>1, NoEntryIs DEF Jobs

LEMMA NoMeshIs ==
  Registry!NoMesh \in Meshes /\ Registry!NoMesh.at = "idle"
    /\ Registry!NoMesh.irs = {} /\ Registry!NoMesh.todo = {} /\ Registry!NoMesh.asked = {}
<1>1. Registry!NoMesh = [at |-> "idle", index |-> Registry!NoIndex, asked |-> {}, todo |-> {},
                         irs |-> {}, errors |-> FALSE, quiet |-> TRUE]
  BY DEF Registry!NoMesh
<1> QED BY <1>1, NoEntryIs DEF Meshes

LEMMA RegistryInit == Registry!Init => RegistryInv
<1> SUFFICES ASSUME Registry!Init PROVE RegistryInv
  OBVIOUS
<1>1. /\ files = [p \in Registry!Packs |-> [ir |-> NoFile, manifest |-> NoFile, att |-> NoFile]]
      /\ index = Registry!NoIndex /\ last = [p \in Registry!Packs |-> NoFile]
      /\ job = [q \in Publishers |-> Registry!NoJob] /\ mesh = [c \in Composers |-> Registry!NoMesh]
      /\ clean = TRUE /\ whole = TRUE
  BY DEF Registry!Init, Registry!NoFiles
<1>2. \A p \in Registry!Packs : index[p] = Registry!NoEntry
  BY <1>1 DEF Registry!NoIndex
<1>3. RegistryTyped
  BY <1>1, NoEntryIs, NoJobIs, NoMeshIs DEF RegistryTyped, Copies
<1>4. \A q \in Publishers : job[q].at = "idle"
  BY <1>1, NoJobIs
<1>5. Orderly /\ Settled
  BY <1>1, <1>2, <1>4 DEF Orderly, Copied, Settled
<1>6. \A c \in Composers : Composing(mesh[c])
  BY <1>1, NoMeshIs DEF Composing
<1> QED BY <1>3, <1>5, <1>6 DEF RegistryInv

\* A publisher's step to another place, and what it leaves of the others.
Goes(q, new) == new \in Jobs /\ job' = [job EXCEPT ![q] = new]

LEMMA GoesIs ==
  ASSUME RegistryTyped, NEW q \in Publishers, NEW new, Goes(q, new),
         IF new.at = "idle" THEN new = Registry!NoJob
         ELSE new.pack \in Registry!Packs /\ new.build \in Builds
  PROVE  /\ job' \in [Publishers -> Jobs] /\ job'[q] = new
         /\ \A r \in Publishers : r # q => job'[r] = job[r]
         /\ \A r \in Publishers : IF job'[r].at = "idle" THEN job'[r] = Registry!NoJob
                                  ELSE job'[r].pack \in Registry!Packs /\ job'[r].build \in Builds
<1>1. job' \in [Publishers -> Jobs] /\ job'[q] = new /\ \A r \in Publishers : r # q => job'[r] = job[r]
  BY DEF Goes, RegistryTyped
<1> QED BY <1>1 DEF RegistryTyped

\* A composition that is disturbed has nothing to keep but what it still has to do.
LEMMA DisturbKeeps ==
  ASSUME RegistryInv, Registry!Disturb
  PROVE  mesh' \in [Composers -> Meshes] /\ \A c \in Composers : Composing(mesh[c])'
<1>1. mesh \in [Composers -> Meshes] /\ mesh' = [c \in Composers |-> [mesh[c] EXCEPT !.quiet = FALSE]]
  BY DEF RegistryInv, RegistryTyped, Registry!Disturb
<1>2. ASSUME NEW c \in Composers
      PROVE  /\ mesh'[c] \in Meshes /\ mesh'[c].quiet = FALSE
             /\ mesh'[c].at = mesh[c].at /\ mesh'[c].todo = mesh[c].todo /\ mesh'[c].asked = mesh[c].asked
  <2>1. mesh[c] \in Meshes /\ mesh'[c] = [mesh[c] EXCEPT !.quiet = FALSE]
    BY <1>1
  <2> QED BY <2>1 DEF Meshes
<1>3. mesh' \in [Composers -> Meshes]
  BY <1>1, <1>2
<1>4. ASSUME NEW c \in Composers PROVE Composing(mesh[c])'
  BY <1>2 DEF RegistryInv, Composing
<1> QED BY <1>3, <1>4

LEMMA RegistryPublish ==
  ASSUME RegistryInv, NEW q \in Publishers, Registry!Publish(q) PROVE RegistryInv'
<1>1. PICK p \in Registry!Packs, b \in Builds, signed0 \in BOOLEAN :
        job' = [job EXCEPT ![q] = [Registry!NoJob EXCEPT !.at = "ir", !.pack = p, !.build = b, !.signed = signed0]]
  BY Zenon DEF Registry!Publish
<1> DEFINE new == [Registry!NoJob EXCEPT !.at = "ir", !.pack = p, !.build = b, !.signed = signed0]
<1>2. /\ job[q] = Registry!NoJob
      /\ clean' = (clean /\ \A r \in Publishers : job[r] = Registry!NoJob)
      /\ UNCHANGED <<files, index, mesh, last, whole>>
  BY DEF Registry!Publish
<1>3. new \in Jobs /\ new.at = "ir" /\ new.pack = p /\ new.build = b
  BY NoJobIs DEF Jobs
<1>4. Goes(q, new)
  BY <1>1, <1>3 DEF Goes
<1> HIDE DEF new
<1>5. /\ job' \in [Publishers -> Jobs] /\ job'[q] = new
      /\ \A r \in Publishers : r # q => job'[r] = job[r]
      /\ \A r \in Publishers : IF job'[r].at = "idle" THEN job'[r] = Registry!NoJob
                               ELSE job'[r].pack \in Registry!Packs /\ job'[r].build \in Builds
  BY <1>3, <1>4, GoesIs DEF RegistryInv
<1>6. RegistryTyped'
  BY <1>2, <1>5 DEF RegistryInv, RegistryTyped
<1>7. ASSUME clean'
      PROVE  clean /\ \A r \in Publishers : job[r].at = "idle" /\ job'[r].at \in {"idle", "ir"}
                                              /\ (job'[r].at # "idle" => r = q)
  BY <1>2, <1>3, <1>5, <1>7, NoJobIs
<1>8. clean' => Orderly'
  BY <1>2, <1>7 DEF RegistryInv, Orderly, Copied
<1>9. clean' /\ whole' => Settled'
  BY <1>2, <1>7 DEF RegistryInv, Settled
<1>10. ASSUME NEW c \in Composers PROVE Composing(mesh[c])'
  BY <1>2, <1>3, <1>5 DEF RegistryInv, Composing
<1> QED BY <1>6, <1>8, <1>9, <1>10 DEF RegistryInv

\* What a step of a publication at its place leaves: the step knows its own job, and
\* while publications do not overlap there is no other.
LEMMA OnlyJob ==
  ASSUME RegistryInv, NEW q \in Publishers, job[q].at # "idle"
  PROVE  /\ job[q] \in Jobs /\ job[q].pack \in Registry!Packs /\ job[q].build \in Builds
         /\ clean => Orderly /\ Copied(q) /\ \A r \in Publishers : r # q => job[r].at = "idle"
         /\ job[q].at # "ir" => \A c \in Composers : ~(mesh[c].quiet /\ mesh[c].at # "idle")
BY DEF RegistryInv, RegistryTyped, Orderly, Composing

LEMMA RegistryCopyIr ==
  ASSUME RegistryInv, NEW q \in Publishers, Registry!CopyIr(q) PROVE RegistryInv'
<1> DEFINE p == job[q].pack
           b == job[q].build
           new == [job[q] EXCEPT !.at = "manifest"]
<1>1. /\ job[q].at = "ir" /\ files' = [files EXCEPT ![p] = [files[p] EXCEPT !.ir = b]]
      /\ job' = [job EXCEPT ![q] = new]
      /\ Registry!Disturb /\ UNCHANGED <<index, last, clean, whole>>
  BY DEF Registry!CopyIr
<1>2. /\ job[q] \in Jobs /\ p \in Registry!Packs /\ b \in Builds
      /\ clean => Orderly /\ \A r \in Publishers : r # q => job[r].at = "idle"
  BY <1>1, OnlyJob
<1>3. new \in Jobs /\ new.at = "manifest" /\ new.pack = p /\ new.build = b
  BY <1>2 DEF Jobs
<1>4. Goes(q, new)
  BY <1>1, <1>3 DEF Goes
<1>5. /\ files' \in [Registry!Packs -> Copies] /\ files'[p].ir = b
      /\ \A o \in Registry!Packs : o # p => files'[o] = files[o]
  <2>1. files \in [Registry!Packs -> Copies]
    BY DEF RegistryInv, RegistryTyped
  <2>2. [files[p] EXCEPT !.ir = b] \in Copies /\ [files[p] EXCEPT !.ir = b].ir = b
    BY <1>2, <2>1 DEF Copies
  <2> QED BY <1>1, <1>2, <2>1, <2>2
<1> HIDE DEF new, p, b
<1>6. /\ job' \in [Publishers -> Jobs] /\ job'[q] = new
      /\ \A r \in Publishers : r # q => job'[r] = job[r]
      /\ \A r \in Publishers : IF job'[r].at = "idle" THEN job'[r] = Registry!NoJob
                               ELSE job'[r].pack \in Registry!Packs /\ job'[r].build \in Builds
  BY <1>2, <1>3, <1>4, GoesIs DEF RegistryInv
<1>7. RegistryTyped'
  BY <1>1, <1>5, <1>6, DisturbKeeps DEF RegistryInv, RegistryTyped
<1>8. clean' => Orderly'
  BY <1>1, <1>2, <1>3, <1>5, <1>6 DEF Orderly, Copied
<1>9. clean' /\ whole' => Settled'
  <2> SUFFICES ASSUME clean', whole', NEW o \in Registry!Packs, last'[o] # NoFile,
                      \A r \in Publishers : job'[r].at \notin {"idle", "ir"} => job'[r].pack # o
               PROVE  files'[o].ir = last'[o] /\ files'[o].manifest = last'[o]
    BY DEF Settled
  <2>1. o # p
    BY <1>3, <1>6
  <2>2. \A r \in Publishers : job[r].at \in {"idle", "ir"}
    BY <1>1, <1>2
  <2>3. Settled
    BY <1>1 DEF RegistryInv
  <2> QED BY <1>1, <1>5, <2>1, <2>2, <2>3 DEF Settled
<1> QED BY <1>1, <1>7, <1>8, <1>9, DisturbKeeps DEF RegistryInv

LEMMA RegistryCopyManifest ==
  ASSUME RegistryInv, NEW q \in Publishers, Registry!CopyManifest(q) PROVE RegistryInv'
<1> DEFINE p == job[q].pack
           b == job[q].build
           new == [job[q] EXCEPT !.at = "hash"]
<1>1. /\ job[q].at = "manifest" /\ files' = [files EXCEPT ![p] = [files[p] EXCEPT !.manifest = b]]
      /\ job' = [job EXCEPT ![q] = new]
      /\ Registry!Disturb /\ UNCHANGED <<index, last, clean, whole>>
  BY DEF Registry!CopyManifest
<1>2. /\ job[q] \in Jobs /\ p \in Registry!Packs /\ b \in Builds
      /\ clean => Orderly /\ files[p].ir = b /\ \A r \in Publishers : r # q => job[r].at = "idle"
  BY <1>1, OnlyJob DEF Copied
<1>3. new \in Jobs /\ new.at = "hash" /\ new.pack = p /\ new.build = b
  BY <1>2 DEF Jobs
<1>4. Goes(q, new)
  BY <1>1, <1>3 DEF Goes
<1>5. /\ files' \in [Registry!Packs -> Copies] /\ files'[p].ir = files[p].ir /\ files'[p].manifest = b
      /\ \A o \in Registry!Packs : o # p => files'[o] = files[o]
  <2>1. files \in [Registry!Packs -> Copies]
    BY DEF RegistryInv, RegistryTyped
  <2>2. LET f == [files[p] EXCEPT !.manifest = b] IN f \in Copies /\ f.manifest = b /\ f.ir = files[p].ir
    BY <1>2, <2>1 DEF Copies
  <2> QED BY <1>1, <1>2, <2>1, <2>2
<1> HIDE DEF new, p, b
<1>6. /\ job' \in [Publishers -> Jobs] /\ job'[q] = new
      /\ \A r \in Publishers : r # q => job'[r] = job[r]
      /\ \A r \in Publishers : IF job'[r].at = "idle" THEN job'[r] = Registry!NoJob
                               ELSE job'[r].pack \in Registry!Packs /\ job'[r].build \in Builds
  BY <1>2, <1>3, <1>4, GoesIs DEF RegistryInv
<1>7. RegistryTyped'
  BY <1>1, <1>5, <1>6, DisturbKeeps DEF RegistryInv, RegistryTyped
<1>8. clean' => Orderly'
  BY <1>1, <1>2, <1>3, <1>5, <1>6 DEF Orderly, Copied
<1>9. clean' /\ whole' => Settled'
  <2> SUFFICES ASSUME clean', whole', NEW o \in Registry!Packs, last'[o] # NoFile,
                      \A r \in Publishers : job'[r].at \notin {"idle", "ir"} => job'[r].pack # o
               PROVE  files'[o].ir = last'[o] /\ files'[o].manifest = last'[o]
    BY DEF Settled
  <2>1. o # p
    BY <1>3, <1>6
  <2>2. \A r \in Publishers : job[r].at \notin {"idle", "ir"} => job[r].pack # o
    BY <1>1, <1>2, <2>1 DEF p
  <2>3. Settled
    BY <1>1 DEF RegistryInv
  <2> QED BY <1>1, <1>5, <2>1, <2>2, <2>3 DEF Settled
<1> QED BY <1>1, <1>7, <1>8, <1>9, DisturbKeeps DEF RegistryInv

LEMMA RegistryHashCopies ==
  ASSUME RegistryInv, NEW q \in Publishers, Registry!HashCopies(q) PROVE RegistryInv'
<1> DEFINE p == job[q].pack
           b == job[q].build
           e == [ir |-> files[p].ir, manifest |-> files[p].manifest, signed |-> job[q].signed]
           new == [[job[q] EXCEPT !.at = "load"] EXCEPT !.entry = e]
<1>1. /\ job[q].at = "hash"
      /\ files' = IF job[q].signed THEN [files EXCEPT ![p] = [files[p] EXCEPT !.att = b]] ELSE files
      /\ job' = [job EXCEPT ![q] = new]
      /\ Registry!Disturb /\ UNCHANGED <<index, last, clean, whole>>
  BY DEF Registry!HashCopies
<1>2. /\ job[q] \in Jobs /\ p \in Registry!Packs /\ b \in Builds
      /\ clean => Orderly /\ files[p].ir = b /\ files[p].manifest = b /\ \A r \in Publishers : r # q => job[r].at = "idle"
  BY <1>1, OnlyJob DEF Copied
<1>3. files \in [Registry!Packs -> Copies] /\ files[p] \in Copies
  BY <1>2 DEF RegistryInv, RegistryTyped
<1>4. e \in PackEntries /\ e.ir = files[p].ir /\ e.manifest = files[p].manifest
  BY <1>2, <1>3 DEF PackEntries, Copies, Jobs
<1> HIDE DEF e
<1>5. new \in Jobs /\ new.at = "load" /\ new.pack = p /\ new.build = b /\ new.entry = e
  BY <1>2, <1>4 DEF Jobs
<1>6. Goes(q, new)
  BY <1>1, <1>5 DEF Goes
<1>7. /\ files' \in [Registry!Packs -> Copies]
      /\ \A o \in Registry!Packs : files'[o].ir = files[o].ir /\ files'[o].manifest = files[o].manifest
  <2>1. LET f == [files[p] EXCEPT !.att = b] IN f \in Copies /\ f.manifest = files[p].manifest /\ f.ir = files[p].ir
    BY <1>2, <1>3 DEF Copies
  <2> QED BY <1>1, <1>2, <1>3, <2>1
<1> HIDE DEF new, p, b
<1>8. /\ job' \in [Publishers -> Jobs] /\ job'[q] = new
      /\ \A r \in Publishers : r # q => job'[r] = job[r]
      /\ \A r \in Publishers : IF job'[r].at = "idle" THEN job'[r] = Registry!NoJob
                               ELSE job'[r].pack \in Registry!Packs /\ job'[r].build \in Builds
  BY <1>2, <1>5, <1>6, GoesIs DEF RegistryInv
<1>9. RegistryTyped'
  BY <1>1, <1>7, <1>8, DisturbKeeps DEF RegistryInv, RegistryTyped
<1>10. clean' => Orderly'
  BY <1>1, <1>2, <1>4, <1>5, <1>7, <1>8 DEF Orderly, Copied
<1>11. clean' /\ whole' => Settled'
  <2> SUFFICES ASSUME clean', whole', NEW o \in Registry!Packs, last'[o] # NoFile,
                      \A r \in Publishers : job'[r].at \notin {"idle", "ir"} => job'[r].pack # o
               PROVE  files'[o].ir = last'[o] /\ files'[o].manifest = last'[o]
    BY DEF Settled
  <2>1. o # p
    BY <1>5, <1>8
  <2>2. \A r \in Publishers : job[r].at \notin {"idle", "ir"} => job[r].pack # o
    BY <1>1, <1>2, <2>1 DEF p
  <2>3. Settled
    BY <1>1 DEF RegistryInv
  <2> QED BY <1>1, <1>7, <2>2, <2>3 DEF Settled
<1> QED BY <1>1, <1>9, <1>10, <1>11, DisturbKeeps DEF RegistryInv

LEMMA RegistryLoadIndex ==
  ASSUME RegistryInv, NEW q \in Publishers, Registry!LoadIndex(q) PROVE RegistryInv'
<1> DEFINE new == [[job[q] EXCEPT !.at = "save"] EXCEPT !.seen = index]
<1>1. /\ job[q].at = "load" /\ job' = [job EXCEPT ![q] = new]
      /\ UNCHANGED <<files, index, mesh, last, clean, whole>>
  BY DEF Registry!LoadIndex
<1>2. /\ job[q] \in Jobs /\ job[q].pack \in Registry!Packs /\ job[q].build \in Builds
      /\ clean => Orderly /\ Copied(q) /\ \A r \in Publishers : r # q => job[r].at = "idle"
      /\ \A c \in Composers : ~(mesh[c].quiet /\ mesh[c].at # "idle")
      /\ index \in Indexes
  BY <1>1, OnlyJob DEF RegistryInv, RegistryTyped
<1>3. /\ new \in Jobs /\ new.at = "save" /\ new.pack = job[q].pack /\ new.build = job[q].build
      /\ new.entry = job[q].entry /\ new.seen = index
  BY <1>2 DEF Jobs
<1>4. Goes(q, new)
  BY <1>1, <1>3 DEF Goes
<1> HIDE DEF new
<1>5. /\ job' \in [Publishers -> Jobs] /\ job'[q] = new
      /\ \A r \in Publishers : r # q => job'[r] = job[r]
      /\ \A r \in Publishers : IF job'[r].at = "idle" THEN job'[r] = Registry!NoJob
                               ELSE job'[r].pack \in Registry!Packs /\ job'[r].build \in Builds
  BY <1>2, <1>3, <1>4, GoesIs DEF RegistryInv
<1>6. RegistryTyped'
  BY <1>1, <1>5 DEF RegistryInv, RegistryTyped
<1>7. clean' => Orderly'
  BY <1>1, <1>2, <1>3, <1>5 DEF Orderly, Copied
<1>8. clean' /\ whole' => Settled'
  <2> SUFFICES ASSUME clean', whole', NEW o \in Registry!Packs, last'[o] # NoFile,
                      \A r \in Publishers : job'[r].at \notin {"idle", "ir"} => job'[r].pack # o
               PROVE  files'[o].ir = last'[o] /\ files'[o].manifest = last'[o]
    BY DEF Settled
  <2>1. \A r \in Publishers : job[r].at \notin {"idle", "ir"} => job[r].pack # o
    BY <1>1, <1>2, <1>3, <1>5
  <2>2. Settled
    BY <1>1 DEF RegistryInv
  <2> QED BY <1>1, <2>1, <2>2 DEF Settled
<1>9. ASSUME NEW c \in Composers PROVE Composing(mesh[c])'
  BY <1>1, <1>2 DEF RegistryInv, Composing
<1> QED BY <1>6, <1>7, <1>8, <1>9 DEF RegistryInv

LEMMA RegistrySaveIndex ==
  ASSUME RegistryInv, NEW q \in Publishers, Registry!SaveIndex(q) PROVE RegistryInv'
<1> DEFINE p == job[q].pack
           b == job[q].build
           e == job[q].entry
           seen == job[q].seen
<1>1. /\ job[q].at = "save" /\ index' = [seen EXCEPT ![p] = e] /\ last' = [last EXCEPT ![p] = b]
      /\ job' = [job EXCEPT ![q] = Registry!NoJob]
      /\ Registry!Disturb /\ UNCHANGED <<files, clean, whole>>
  BY DEF Registry!SaveIndex
<1>2. /\ p \in Registry!Packs /\ b \in Builds /\ e \in PackEntries /\ seen \in Indexes
      /\ clean => /\ Orderly /\ files[p].ir = b /\ files[p].manifest = b /\ e.ir = b /\ e.manifest = b /\ seen = index
                  /\ \A r \in Publishers : r # q => job[r].at = "idle"
  BY <1>1, OnlyJob DEF Copied, Jobs
<1>3. Goes(q, Registry!NoJob)
  BY <1>1, NoJobIs DEF Goes
<1> HIDE DEF p, b, e, seen
<1>4. /\ job' \in [Publishers -> Jobs] /\ job'[q] = Registry!NoJob
      /\ \A r \in Publishers : r # q => job'[r] = job[r]
      /\ \A r \in Publishers : IF job'[r].at = "idle" THEN job'[r] = Registry!NoJob
                               ELSE job'[r].pack \in Registry!Packs /\ job'[r].build \in Builds
  BY <1>3, NoJobIs, GoesIs DEF RegistryInv
<1>5. /\ index' \in Indexes /\ index'[p] = e /\ \A o \in Registry!Packs : o # p => index'[o] = seen[o]
      /\ last' \in [Registry!Packs -> Builds \cup {NoFile}] /\ last'[p] = b
      /\ \A o \in Registry!Packs : o # p => last'[o] = last[o]
  BY <1>1, <1>2 DEF RegistryInv, RegistryTyped, Indexes
<1>6. RegistryTyped'
  BY <1>1, <1>4, <1>5, DisturbKeeps DEF RegistryInv, RegistryTyped
<1>7. clean' => Orderly'
  <2> SUFFICES ASSUME clean PROVE Orderly'
    BY <1>1
  <2>1. \A r \in Publishers : job'[r].at = "idle"
    BY <1>2, <1>4, NoJobIs
  <2>2. ASSUME NEW o \in Registry!Packs
        PROVE  /\ index'[o] # Registry!NoEntry => index'[o].ir = last'[o] /\ index'[o].manifest = last'[o]
               /\ last'[o] # NoFile => index'[o] # Registry!NoEntry
    <3>1. CASE o = p
      <4>1. e # Registry!NoEntry
        BY <1>2, NoEntryIs, MCAssumption DEF Registry!RegistryAssumption
      <4> QED BY <3>1, <4>1, <1>2, <1>5
    <3>2. CASE o # p
      BY <3>2, <1>2, <1>5 DEF Orderly
    <3> QED BY <3>1, <3>2
  <2> QED BY <2>1, <2>2 DEF Orderly, Copied
<1>8. clean' /\ whole' => Settled'
  <2> SUFFICES ASSUME clean, whole, NEW o \in Registry!Packs, last'[o] # NoFile
               PROVE  files'[o].ir = last'[o] /\ files'[o].manifest = last'[o]
    BY <1>1 DEF Settled
  <2>1. CASE o = p
    BY <2>1, <1>1, <1>2, <1>5
  <2>2. CASE o # p
    <3>1. \A r \in Publishers : job[r].at \notin {"idle", "ir"} => job[r].pack # o
      BY <2>2, <1>2 DEF p
    <3> QED BY <2>2, <3>1, <1>1, <1>5 DEF RegistryInv, Settled
  <2> QED BY <2>1, <2>2
<1> QED BY <1>1, <1>6, <1>7, <1>8, DisturbKeeps DEF RegistryInv

LEMMA RegistryDies ==
  ASSUME RegistryInv, NEW q \in Publishers, Registry!Dies(q) PROVE RegistryInv'
<1>1. /\ job' = [job EXCEPT ![q] = Registry!NoJob] /\ whole' = FALSE
      /\ UNCHANGED <<files, index, mesh, last, clean>>
  BY DEF Registry!Dies
<1>2. Goes(q, Registry!NoJob)
  BY <1>1, NoJobIs DEF Goes
<1>3. /\ job' \in [Publishers -> Jobs] /\ job'[q] = Registry!NoJob
      /\ \A r \in Publishers : r # q => job'[r] = job[r]
      /\ \A r \in Publishers : IF job'[r].at = "idle" THEN job'[r] = Registry!NoJob
                               ELSE job'[r].pack \in Registry!Packs /\ job'[r].build \in Builds
  BY <1>2, NoJobIs, GoesIs DEF RegistryInv
<1>4. RegistryTyped'
  BY <1>1, <1>3 DEF RegistryInv, RegistryTyped
<1>5. clean' => Orderly'
  BY <1>1, <1>3, NoJobIs DEF RegistryInv, Orderly, Copied
<1>6. ASSUME NEW c \in Composers PROVE Composing(mesh[c])'
  BY <1>1, <1>3, NoJobIs DEF RegistryInv, Composing
<1> QED BY <1>1, <1>4, <1>5, <1>6 DEF RegistryInv

\* A composer's step leaves the registry alone.
LEMMA ComposerKeeps ==
  ASSUME RegistryInv, NEW c \in Composers, NEW m \in Meshes, mesh' = [mesh EXCEPT ![c] = m],
         UNCHANGED <<files, index, job, count, last, clean, whole>>, Composing(m)
  PROVE  RegistryInv'
<1>1. mesh' \in [Composers -> Meshes] /\ mesh'[c] = m /\ \A d \in Composers : d # c => mesh'[d] = mesh[d]
  BY DEF RegistryInv, RegistryTyped
<1>2. RegistryTyped'
  BY <1>1 DEF RegistryInv, RegistryTyped
<1>3. (clean' => Orderly') /\ (clean' /\ whole' => Settled')
  BY DEF RegistryInv, Orderly, Copied, Settled
<1>4. ASSUME NEW d \in Composers PROVE Composing(mesh[d])'
  <2>1. Composing(mesh'[d])
    BY <1>1 DEF RegistryInv
  <2> QED BY <2>1 DEF Composing
<1> QED BY <1>2, <1>3, <1>4 DEF RegistryInv

LEMMA NewMeshIs ==
  ASSUME RegistryTyped, NEW todo \in SUBSET Domains, NEW quiet \in BOOLEAN
  PROVE  LET m == [Registry!NoMesh EXCEPT !.at = "verify", !.index = index, !.asked = todo, !.todo = todo,
                                          !.quiet = quiet]
         IN m \in Meshes /\ m.at = "verify" /\ m.index = index /\ m.asked = todo /\ m.todo = todo
              /\ m.irs = {} /\ m.quiet = quiet
BY NoMeshIs DEF RegistryTyped, Meshes

LEMMA RegistryCompose ==
  ASSUME RegistryInv, NEW c \in Composers, Registry!Compose(c) PROVE RegistryInv'
<1> DEFINE noJobs == \A q \in Publishers : job[q] = Registry!NoJob
           New(todo) ==
             [Registry!NoMesh EXCEPT !.at = "verify", !.index = index, !.asked = todo, !.todo = todo, !.quiet = noJobs]
<1>1. PICK todo \in SUBSET Domains : mesh' = [mesh EXCEPT ![c] = New(todo)]
  BY Zenon DEF Registry!Compose
<1> DEFINE m == New(todo)
<1>2. noJobs \in BOOLEAN
  OBVIOUS
<1>3. /\ m \in Meshes /\ m.at = "verify" /\ m.index = index /\ m.asked = todo /\ m.todo = todo
      /\ m.irs = {} /\ m.quiet = noJobs
  <2>1. RegistryTyped
    BY DEF RegistryInv
  <2> HIDE DEF noJobs
  <2>2. \A quiet \in BOOLEAN :
          LET n == [Registry!NoMesh EXCEPT !.at = "verify", !.index = index, !.asked = todo, !.todo = todo,
                                           !.quiet = quiet]
          IN n \in Meshes /\ n.at = "verify" /\ n.index = index /\ n.asked = todo /\ n.todo = todo
               /\ n.irs = {} /\ n.quiet = quiet
    BY <2>1, NewMeshIs, Zenon
  <2> QED BY <1>2, <2>2, Zenon
<1>5. m \in Meshes
  BY <1>3, Zenon
<1>6. Composing(m)
  <2>1. noJobs => \A q \in Publishers : job[q].at = "idle"
    BY NoJobIs
  <2> HIDE DEF noJobs, m
  <2> QED BY <1>3, <2>1 DEF Composing
<1>7. UNCHANGED <<files, index, job, count, last, clean, whole>>
  BY DEF Registry!Compose
<1> HIDE DEF m
<1>8. mesh' = [mesh EXCEPT ![c] = m]
  BY <1>1 DEF m
<1> QED BY <1>5, <1>6, <1>7, <1>8, ComposerKeeps

\* While publications do not overlap, what verifies is the build last published.
LEMMA VerifiedIsLast ==
  ASSUME RegistryInv, clean, NEW p \in Registry!Packs, Registry!Verify(p, index, FALSE)
  PROVE  files[p].ir = last[p] /\ files[p].manifest = last[p]
BY DEF RegistryInv, Orderly, Registry!Verify

LEMMA RegistryComposeDomain ==
  ASSUME RegistryInv, NEW c \in Composers, NEW d \in Domains, Registry!ComposeDomain(c, d)
  PROVE  RegistryInv'
<1> DEFINE p == Registry!Latest(d, index)
           valid == Registry!Verify(p, index, FALSE)
           m == mesh[c]
           adds == valid /\ m.index[p] # Registry!NoEntry
           irs == IF adds THEN m.irs \cup {<<p, files[p].ir>>} ELSE m.irs
           new == [[[m EXCEPT !.todo = m.todo \ {d}] EXCEPT !.errors = m.errors \/ ~valid] EXCEPT !.irs = irs]
<1>1. /\ m.at = "verify" /\ d \in m.todo
      /\ mesh' = [mesh EXCEPT ![c] = new]
      /\ UNCHANGED <<files, index, job, count, last, clean, whole>>
  BY Zenon DEF Registry!ComposeDomain
<1>2. m \in Meshes /\ Composing(m) /\ files \in [Registry!Packs -> Copies]
  BY DEF RegistryInv, RegistryTyped
<1>3. valid \in BOOLEAN
  BY Zenon DEF Registry!Verify
<1>4. valid => p \in Registry!Packs /\ p[1] = d /\ files[p].ir \in Builds \cup {NoFile}
                 /\ index[p] # Registry!NoEntry /\ (clean => files[p].ir = last[p])
  <2>1. valid => p # <<>> /\ index[p] # Registry!NoEntry
    BY DEF Registry!Verify
  <2>2. p # <<>> => p \in Registry!Packs /\ p[1] = d
    BY LatestIsPack
  <2> HIDE DEF p
  <2>3. valid /\ clean => files[p].ir = last[p]
    BY <2>1, <2>2, VerifiedIsLast
  <2> HIDE DEF valid
  <2>4. p \in Registry!Packs => files[p].ir \in Builds \cup {NoFile}
    BY <1>2 DEF Copies
  <2> QED BY <2>1, <2>2, <2>3, <2>4
<1> HIDE DEF p, valid
<1>5. irs \in SUBSET (Registry!Packs \X (Builds \cup {NoFile}))
  <2>1. m.irs \in SUBSET (Registry!Packs \X (Builds \cup {NoFile}))
    BY <1>2 DEF Meshes
  <2> HIDE DEF m
  <2> QED BY <1>4, <2>1
<1>6. /\ new \in Meshes /\ new.at = m.at /\ new.index = m.index /\ new.asked = m.asked /\ new.todo = m.todo \ {d}
      /\ new.quiet = m.quiet /\ new.irs = irs /\ (new.errors <=> m.errors \/ ~valid)
  <2> HIDE DEF irs, m
  <2>1. m.errors \in BOOLEAN /\ (m.errors \/ ~valid) \in BOOLEAN
    BY <1>2, <1>3 DEF Meshes
  <2> DEFINE errors == m.errors \/ ~valid
  <2> HIDE DEF errors
  <2>2. errors \in BOOLEAN
    BY <2>1 DEF errors
  <2> DEFINE other == [[[m EXCEPT !.todo = m.todo \ {d}] EXCEPT !.errors = errors] EXCEPT !.irs = irs]
  <2>3. /\ other \in Meshes /\ other.at = m.at /\ other.index = m.index /\ other.asked = m.asked
        /\ other.todo = m.todo \ {d} /\ other.quiet = m.quiet /\ other.irs = irs /\ other.errors = errors
    BY <1>2, <1>5, <2>2 DEF Meshes
  <2> QED BY <2>3 DEF errors
<1> HIDE DEF new
<1>7. Composing(new)
  <2>1. new.todo \subseteq new.asked /\ (new.at = "ended" => new.todo = {})
    BY <1>1, <1>2, <1>6 DEF Composing
  <2>2. ASSUME new.quiet, new.at # "idle"
        PROVE  /\ new.index = index /\ \A q \in Publishers : job[q].at \in {"idle", "ir"}
               /\ clean => \A pair \in new.irs : pair[2] = last[pair[1]]
               /\ ~new.errors => {pair[1][1] : pair \in new.irs} = new.asked \ new.todo
    <3>1. /\ m.index = index /\ \A q \in Publishers : job[q].at \in {"idle", "ir"}
          /\ clean => \A pair \in m.irs : pair[2] = last[pair[1]]
          /\ ~m.errors => {pair[1][1] : pair \in m.irs} = m.asked \ m.todo
      BY <2>2, <1>2, <1>6 DEF Composing
    <3>2. clean => \A pair \in new.irs : pair[2] = last[pair[1]]
      BY <3>1, <1>4, <1>6
    <3>3. ASSUME ~new.errors PROVE {pair[1][1] : pair \in new.irs} = new.asked \ new.todo
      <4>1. valid /\ ~m.errors
        BY <3>3, <1>6
      <4>2. new.irs = m.irs \cup {<<p, files[p].ir>>}
        BY <4>1, <3>1, <1>4, <1>6
      <4>3. {pair[1][1] : pair \in new.irs} = {pair[1][1] : pair \in m.irs} \cup {p[1]}
        <5> DEFINE added == <<p, files[p].ir>>
        <5>1. added[1] = p /\ new.irs = m.irs \cup {added}
          BY <4>2
        <5> HIDE DEF added, m
        <5> QED BY <5>1
      <4>4. d \in m.asked /\ d \in m.todo
        BY <1>1, <1>2 DEF Composing
      <4> HIDE DEF m
      <4> QED BY <4>1, <4>3, <4>4, <3>1, <1>4, <1>6
    <3> QED BY <1>6, <3>1, <3>2, <3>3
  <2> QED BY <2>1, <2>2 DEF Composing
<1> QED BY <1>1, <1>6, <1>7, ComposerKeeps

LEMMA RegistryEndCompose ==
  ASSUME RegistryInv, NEW c \in Composers, Registry!EndCompose(c) PROVE RegistryInv'
<1> DEFINE m == mesh[c]
           new == [[m EXCEPT !.at = "ended"] EXCEPT !.index = index]
<1>1. /\ m.at = "verify" /\ m.todo = {}
      /\ mesh' = [mesh EXCEPT ![c] = new]
      /\ UNCHANGED <<files, index, job, count, last, clean, whole>>
  BY DEF Registry!EndCompose
<1>2. m \in Meshes /\ Composing(m) /\ index \in Indexes
  BY DEF RegistryInv, RegistryTyped
<1>3. /\ new \in Meshes /\ new.at = "ended" /\ new.index = index /\ new.asked = m.asked /\ new.todo = m.todo
      /\ new.quiet = m.quiet /\ new.irs = m.irs /\ new.errors = m.errors
  <2> HIDE DEF m
  <2> QED BY <1>2 DEF Meshes
<1> HIDE DEF new
<1>4. Composing(new)
  BY <1>1, <1>2, <1>3 DEF Composing
<1> QED BY <1>1, <1>3, <1>4, ComposerKeeps

LEMMA RegistryStep == RegistryInv /\ [Registry!Next]_registryVars => RegistryInv'
<1> SUFFICES ASSUME RegistryInv, [Registry!Next]_registryVars PROVE RegistryInv'
  OBVIOUS
<1>1. ASSUME NEW q \in Publishers,
             \/ Registry!Publish(q) \/ Registry!CopyIr(q) \/ Registry!CopyManifest(q) \/ Registry!HashCopies(q)
             \/ Registry!LoadIndex(q) \/ Registry!SaveIndex(q) \/ Registry!Dies(q)
      PROVE  RegistryInv'
  BY <1>1, RegistryPublish, RegistryCopyIr, RegistryCopyManifest, RegistryHashCopies, RegistryLoadIndex,
     RegistrySaveIndex, RegistryDies
<1>2. ASSUME NEW c \in Composers,
             Registry!Compose(c) \/ Registry!EndCompose(c) \/ \E d \in Domains : Registry!ComposeDomain(c, d)
      PROVE  RegistryInv'
  BY <1>2, RegistryCompose, RegistryEndCompose, RegistryComposeDomain
<1>3. CASE UNCHANGED registryVars
  BY <1>3 DEF registryVars, RegistryInv, RegistryTyped, Orderly, Copied, Settled, Composing
<1> QED BY <1>1, <1>2, <1>3 DEF Registry!Next

LEMMA RegistryIsWhole ==
  ASSUME RegistryInv
  PROVE  Registry!TypeOK /\ Registry!ValidIsWhole /\ Registry!PublishedVerifies /\ Registry!MeshIsComplete
<1>1. Registry!TypeOK
  <2>1. ASSUME NEW p \in Registry!Packs
        PROVE  /\ {files[p].ir, files[p].manifest, files[p].att, last[p]} \subseteq Builds \cup {NoFile}
               /\ index[p].signed \in BOOLEAN
    <3>1. files[p] \in Copies /\ index[p] \in PackEntries /\ last[p] \in Builds \cup {NoFile}
      BY DEF RegistryInv, RegistryTyped, Indexes
    <3> QED BY <3>1 DEF Copies, PackEntries
  <2>2. \A c \in Composers : mesh[c].todo \subseteq Domains
    BY DEF RegistryInv, RegistryTyped, Meshes
  <2> QED BY <2>1, <2>2 DEF Registry!TypeOK
<1>2. Registry!ValidIsWhole
  BY VerifiedIsLast DEF Registry!ValidIsWhole
<1>3. Registry!PublishedVerifies
  <2> SUFFICES ASSUME clean, whole, \A q \in Publishers : job[q] = Registry!NoJob,
                      NEW p \in Registry!Packs, last[p] # NoFile
               PROVE  Registry!Verify(p, index, FALSE)
    BY DEF Registry!PublishedVerifies
  <2>1. files[p].ir = last[p] /\ files[p].manifest = last[p]
    BY NoJobIs DEF RegistryInv, Settled
  <2>2. index[p] # Registry!NoEntry /\ index[p].ir = last[p] /\ index[p].manifest = last[p]
    BY DEF RegistryInv, Orderly
  <2>3. p # <<>>
    BY DEF Registry!Packs
  <2> QED BY <2>1, <2>2, <2>3 DEF Registry!Verify
<1>4. Registry!MeshIsComplete
  BY DEF RegistryInv, Composing, Registry!MeshIsComplete
<1> QED BY <1>1, <1>2, <1>3, <1>4

-----------------------------------------------------------------------------
(* The mesh *)

MeshInv == composed \subseteq MeshDomains

LEMMA SameCardinality == \A S : Registry!Cardinality(S) = Cardinality(S)
BY Zenon DEF Cardinality, Registry!Cardinality

\* What a reference of a domain means among its own concepts, it means in every mesh
\* that the domain is in.
LEMMA ResolvedAlone ==
  ASSUME MeshInv, NEW d \in composed, NEW ref, NEW t \in Registry!ResolveTargetId({d}, ref, d)
  PROVE  t \in Registry!ResolveTargetId(composed, ref, d)
<1> DEFINE own == Registry!Nodes({d})
           all == Registry!Nodes(composed)
<1>1. own \subseteq all /\ all \subseteq composed \X MeshIds
  BY DEF Registry!Nodes
<1>2. CASE ref \in own
  BY <1>1, <1>2 DEF Registry!ResolveTargetId
<1>3. CASE ref \notin own /\ ref[1] = NoDomain /\ <<d, ref[2]>> \in own
  <2>1. ref \notin all
    BY <1>1, <1>3, MCAssumption DEF MeshInv, Registry!MeshAssumption
  <2>2. t = <<d, ref[2]>>
    BY <1>3 DEF Registry!ResolveTargetId
  <2> QED BY <1>1, <1>3, <2>1, <2>2 DEF Registry!ResolveTargetId
<1>4. CASE ref \notin own /\ ref[1] = NoDomain /\ <<d, ref[2]>> \notin own
  <2>1. Registry!Owners({d}, ref[2]) = {}
    BY <1>4 DEF Registry!Owners
  <2>2. Registry!Cardinality(Registry!Owners({d}, ref[2])) # 1
    BY <2>1, FS_EmptySet, SameCardinality
  <2> QED BY <1>4, <2>2 DEF Registry!ResolveTargetId
<1>5. CASE ref \notin own /\ ref[1] # NoDomain
  BY <1>5 DEF Registry!ResolveTargetId
<1> QED BY <1>2, <1>3, <1>4, <1>5

LEMMA ResolvedStays ==
  ASSUME MeshInv, NEW d \in composed, NEW n, n[1] = d, NEW refs
  PROVE  Registry!Resolved({d}, n, refs) \subseteq Registry!Resolved(composed, n, refs)
<1> SUFFICES ASSUME NEW t, t \in Registry!Resolved({d}, n, refs)
             PROVE  t \in Registry!Resolved(composed, n, refs)
  OBVIOUS
<1>1. PICK r \in refs : t \in Registry!ResolveTargetId({d}, r, d)
  BY DEF Registry!Resolved
<1>2. t \in Registry!ResolveTargetId(composed, r, d)
  BY <1>1, ResolvedAlone
<1>3. t # n
  BY DEF Registry!Resolved
<1> QED BY <1>2, <1>3 DEF Registry!Resolved

\* A link: its source is a concept, and it is found in what the concept depends on or in
\* what its body links to.
LEMMA EdgeIs ==
  ASSUME NEW ds, NEW n, NEW t
  PROVE  (\E e \in Registry!Edges(ds) : e.src = n /\ e.to = t) <=>
           /\ n \in Registry!Nodes(ds)
           /\ \/ t \in Registry!Resolved(ds, n, bundles[n[1]][n[2]].deps)
              \/ t \in Registry!Resolved(ds, n, bundles[n[1]][n[2]].body)
<1> DEFINE Deps(m) == Registry!Resolved(ds, m, bundles[m[1]][m[2]].deps)
           Body(m) == Registry!Resolved(ds, m, bundles[m[1]][m[2]].body)
           Of(m) == {[src |-> m, to |-> u, rel |-> "depends_on"] : u \in Deps(m)}
                      \cup {[src |-> m, to |-> u, rel |-> "references"] : u \in Body(m) \ Deps(m)}
<1>1. Registry!Edges(ds) = UNION {Of(m) : m \in Registry!Nodes(ds)}
  BY DEF Registry!Edges
<1>2. \A m, e : e \in Of(m) => e.src = m /\ (e.to \in Deps(m) \/ e.to \in Body(m))
  <2> HIDE DEF Deps, Body
  <2> QED OBVIOUS
<1>3. \A m, u : u \in Deps(m) \/ u \in Body(m) => \E e \in Of(m) : e.src = m /\ e.to = u
  <2> HIDE DEF Deps, Body
  <2> SUFFICES ASSUME NEW m, NEW u, u \in Deps(m) \/ u \in Body(m)
               PROVE  \E e \in Of(m) : e.src = m /\ e.to = u
    OBVIOUS
  <2>1. CASE u \in Deps(m)
    <3> DEFINE e == [src |-> m, to |-> u, rel |-> "depends_on"]
    <3>1. e \in Of(m) /\ e.src = m /\ e.to = u
      BY <2>1
    <3> QED BY <3>1
  <2>2. CASE u \in Body(m) \ Deps(m)
    <3> DEFINE e == [src |-> m, to |-> u, rel |-> "references"]
    <3>1. e \in Of(m) /\ e.src = m /\ e.to = u
      BY <2>2
    <3> QED BY <3>1
  <2> QED BY <2>1, <2>2
<1> HIDE DEF Of
<1>4. \A e : e \in Registry!Edges(ds) <=> \E m \in Registry!Nodes(ds) : e \in Of(m)
  BY <1>1
<1> HIDE DEF Deps, Body
<1>5. (\E e \in Registry!Edges(ds) : e.src = n /\ e.to = t) <=>
        n \in Registry!Nodes(ds) /\ (t \in Deps(n) \/ t \in Body(n))
  BY <1>2, <1>3, <1>4
<1> QED BY <1>5 DEF Deps, Body

LEMMA MeshSurvives == ASSUME MeshInv PROVE Registry!LocalLinksSurvive
<1> SUFFICES ASSUME NEW d \in composed, NEW e \in Registry!Edges({d})
             PROVE  \E f \in Registry!Edges(composed) : e.src = f.src /\ e.to = f.to
  BY Zenon DEF Registry!LocalLinksSurvive
<1> DEFINE n == e.src
           t == e.to
           c == bundles[n[1]][n[2]]
<1>1. n \in Registry!Nodes({d}) /\ (t \in Registry!Resolved({d}, n, c.deps) \/ t \in Registry!Resolved({d}, n, c.body))
  BY EdgeIs
<1>2. n \in Registry!Nodes(composed) /\ n[1] = d
  BY <1>1 DEF Registry!Nodes
<1>3. t \in Registry!Resolved(composed, n, c.deps) \/ t \in Registry!Resolved(composed, n, c.body)
  BY <1>1, <1>2, ResolvedStays
<1>4. \E f \in Registry!Edges(composed) : f.src = n /\ f.to = t
  BY <1>2, <1>3, EdgeIs
<1> QED BY <1>4

LEMMA MeshGuessesNot == Registry!NoGuessedLink
<1> SUFFICES ASSUME NEW e \in Registry!CrossDomainEdges(composed)
             PROVE  LET c == bundles[e.src[1]][e.src[2]] IN
                      e.to \in c.deps \cup c.body \/ e.to[2] \notin Registry!Collisions(composed)
  BY DEF Registry!NoGuessedLink
<1> DEFINE n == e.src
           t == e.to
           c == bundles[n[1]][n[2]]
<1>1. e \in Registry!Edges(composed) /\ n[1] # t[1]
  BY DEF Registry!CrossDomainEdges
<1>2. t \in Registry!Resolved(composed, n, c.deps) \/ t \in Registry!Resolved(composed, n, c.body)
  BY <1>1, EdgeIs
<1> HIDE DEF n, t, c
<1>3. PICK ref \in c.deps \cup c.body : t \in Registry!ResolveTargetId(composed, ref, n[1])
  BY <1>2 DEF Registry!Resolved
<1>4. CASE t = ref
  BY <1>4, <1>3 DEF n, t, c
<1>5. CASE t # ref
  <2>1. Registry!Cardinality(Registry!Owners(composed, ref[2])) = 1
          /\ t \in {<<d, ref[2]>> : d \in Registry!Owners(composed, ref[2])}
    BY <1>1, <1>3, <1>5 DEF Registry!ResolveTargetId
  <2>2. t[2] = ref[2]
    BY <2>1
  <2>3. t[2] \notin Registry!Collisions(composed)
    BY <2>1, <2>2 DEF Registry!Collisions
  <2> QED BY <2>3 DEF t
<1> QED BY <1>4, <1>5

LEMMA MeshStep == MeshInv /\ [Registry!ComposeMore]_meshVars => MeshInv'
BY DEF MeshInv, Registry!ComposeMore, meshVars

LEMMA RegistrySteps == [Next]_vars => /\ [part = "registry" /\ Registry!Next]_<<part, registryVars>>
                                      /\ [part = "mesh" /\ Registry!ComposeMore]_<<part, meshVars>>
BY DEF Next, vars

\* Of publications that do not overlap, what verifies is one build, the one last
\* published, and a mesh that nothing disturbed has it of every domain; and a mesh keeps
\* the links of each domain and guesses none.
THEOREM FederationWhole == Spec => []FederationIsWhole
<1> DEFINE I == (part = "registry" => RegistryInv) /\ (part = "mesh" => MeshInv)
<1>1. Init => I
  BY RegistryInit DEF Init, Registry!MeshInit, MeshInv
<1>2. I /\ [Next]_vars => I'
  BY RegistryStep, MeshStep, RegistrySteps DEF registryVars, meshVars
<1>3. I => FederationIsWhole
  BY RegistryIsWhole, MeshSurvives, MeshGuessesNot DEF FederationIsWhole
<1> QED
  BY <1>1, <1>2, <1>3, PTL DEF Spec

-----------------------------------------------------------------------------
(* Proofs of decisions *)

\* The root and the digest are those that the proof was made with.
ProofInv ==
  /\ proof.root = [a \in Attributes |-> Credential!Commitment(a, request[a], "nonce")]
  /\ proof.digest = <<policy, proof.root, decision>>
  /\ DOMAIN proof.openings \subseteq Attributes

LEMMA ProofStarts == Credential!ProofInit => ProofInv
BY DEF Credential!ProofInit, Credential!Generate, Credential!MerkleRoot, Credential!ProofDigest, ProofInv

LEMMA ProofStep == ProofInv /\ [Credential!Edit]_proofVars => ProofInv'
<1> SUFFICES ASSUME ProofInv, [Credential!Edit]_proofVars PROVE ProofInv'
  OBVIOUS
<1>1. CASE UNCHANGED proofVars
  BY <1>1 DEF proofVars, ProofInv
<1>2. CASE Credential!Edit
  <2>1. request' = request /\ policy' = policy /\ decision' = decision
    BY <1>2 DEF Credential!Edit
  <2>2. /\ proof'.root = proof.root /\ proof'.digest = proof.digest
        /\ DOMAIN proof'.openings \subseteq DOMAIN proof.openings
    <3>1. CASE \E a \in DOMAIN proof.openings, v \in Values : proof' = [proof EXCEPT !.openings[a].value = v]
      BY <3>1
    <3>2. CASE \E a \in DOMAIN proof.openings, v \in Values :
                 proof' = [proof EXCEPT !.openings[a].value = v, !.commitments[a].value = v]
      BY <3>2
    <3>3. CASE \E a \in Attributes, v \in Values : proof' = [proof EXCEPT !.commitments[a].value = v]
      BY <3>3
    <3>4. CASE \E a \in DOMAIN proof.openings :
                 proof' = [proof EXCEPT !.openings = [b \in (DOMAIN proof.openings) \ {a} |-> proof.openings[b]]]
      BY <3>4
    <3>5. CASE \E d \in Decisions : proof' = [proof EXCEPT !.decision = d]
      BY <3>5
    <3>6. CASE \E h \in PolicySets : proof' = [proof EXCEPT !.hash = h]
      BY <3>6
    <3> QED BY <1>2, <3>1, <3>2, <3>3, <3>4, <3>5, <3>6 DEF Credential!Edit
  <2> QED BY <2>1, <2>2 DEF ProofInv
<1> QED BY <1>1, <1>2

LEMMA ProofTells == ProofInv => Credential!VerifiedIsTrue
<1> SUFFICES ASSUME ProofInv, NEW expected \in PolicySets, NEW required \in SUBSET Attributes,
                    Credential!VerifyProof(proof, expected, required)
             PROVE  /\ expected = policy /\ proof.decision = decision /\ required \subseteq DOMAIN proof.openings
                    /\ \A a \in DOMAIN proof.openings : proof.openings[a].value = request[a]
  BY DEF Credential!VerifiedIsTrue
<1>1. /\ proof.hash = expected /\ \A a \in DOMAIN proof.openings : proof.openings[a] = proof.commitments[a]
      /\ required \subseteq DOMAIN proof.openings /\ proof.commitments = proof.root
      /\ <<proof.hash, proof.root, proof.decision>> = proof.digest
  BY DEF Credential!VerifyProof, Credential!MerkleRoot, Credential!ProofDigest
<1>2. expected = policy /\ proof.decision = decision
  BY <1>1 DEF ProofInv
<1>3. ASSUME NEW a \in DOMAIN proof.openings PROVE proof.openings[a].value = request[a]
  <2>1. a \in Attributes /\ proof.openings[a] = Credential!Commitment(a, request[a], "nonce")
    BY <1>1 DEF ProofInv
  <2> QED BY <2>1 DEF Credential!Commitment
<1> QED BY <1>1, <1>2, <1>3

-----------------------------------------------------------------------------
(* Attestations *)

\* What akcp verify answers of the files as they are.
AnswerOf(k) ==
  [key |-> k, tampered |-> Credential!Report.tampered, missing |-> Credential!Report.missing,
   signature |-> IF k = NoKeyPair THEN Nothing ELSE IF Credential!SignatureValid(k) THEN "good" ELSE "bad",
   valid |-> /\ Credential!Report.tampered = {} /\ Credential!Report.missing = {}
             /\ k # NoKeyPair => Credential!SignatureValid(k)]

\* The manifest has the hashes of what was built, and the last answer is still true.
AttestationInv ==
  /\ disk \in [Credential!Files -> FileContents \cup {"dir", Nothing}]
  /\ built \in [Credential!Files -> FileContents \cup {"dir"}]
  /\ manifest = [t \in Targets |-> Credential!HashOf(t, built)]
  /\ attestation.by \in KeyPairs \cup {NoKeyPair} /\ keyFile \in KeyPairs \cup {NoKeyPair}
  /\ answer = Credential!NoAnswer \/ \E k \in KeyPairs \cup {NoKeyPair} : answer = AnswerOf(k)

LEMMA OutputsAreFiles == \A t \in Targets : Outputs[t] \subseteq Credential!Files
BY DEF Credential!Files

LEMMA AttestationStarts == Credential!AttestationInit => AttestationInv
BY DEF Credential!AttestationInit, AttestationInv, Credential!NoAttestation

LEMMA AttestationStep == AttestationInv /\ [Credential!AttestationNext]_buildVars => AttestationInv'
<1> SUFFICES ASSUME AttestationInv, [Credential!AttestationNext]_buildVars PROVE AttestationInv'
  OBVIOUS
<1>1. CASE UNCHANGED buildVars
  <2>1. /\ disk' = disk /\ built' = built /\ manifest' = manifest /\ attestation' = attestation
        /\ keyFile' = keyFile /\ answer' = answer
    BY <1>1 DEF buildVars
  <2>2. \A k : AnswerOf(k)' = AnswerOf(k)
    BY <2>1 DEF AnswerOf, Credential!Report, Credential!Compared, Credential!IsFile, Credential!SignatureValid
  <2> QED BY <2>1, <2>2 DEF AttestationInv
<1>2. CASE Credential!Build
  BY <1>2 DEF Credential!Build, AttestationInv
<1>3. ASSUME NEW f \in Credential!Files, Credential!Change(f) PROVE AttestationInv'
  BY <1>3 DEF Credential!Change, AttestationInv
<1>4. CASE Credential!Sign
  BY <1>4 DEF Credential!Sign, Credential!BuildAttestation, AttestationInv
<1>5. ASSUME NEW k \in KeyPairs \cup {NoKeyPair}, Credential!Verify(k) PROVE AttestationInv'
  <2>1. /\ disk' = disk /\ built' = built /\ manifest' = manifest /\ attestation' = attestation
        /\ keyFile' = keyFile /\ answer' = AnswerOf(k)
    BY <1>5 DEF Credential!Verify, AnswerOf
  <2>2. AnswerOf(k)' = AnswerOf(k)
    BY <2>1 DEF AnswerOf, Credential!Report, Credential!Compared, Credential!IsFile, Credential!SignatureValid
  <2> QED BY <2>1, <2>2 DEF AttestationInv
<1> QED BY <1>1, <1>2, <1>3, <1>4, <1>5 DEF Credential!AttestationNext

\* The file of a target that has one.
LEMMA TheOutputIs ==
  ASSUME NEW t \in Targets, Credential!Single(t)
  PROVE  Outputs[t] = {Credential!TheOutput(t)} /\ Credential!TheOutput(t) \in Credential!Files
BY OutputsAreFiles DEF Credential!Single, Credential!TheOutput

LEMMA NothingBuilt ==
  ASSUME AttestationInv, NEW t \in Targets, Credential!Single(t)
  PROVE  /\ t \in Hashed => manifest[t] = built[Credential!TheOutput(t)] /\ manifest[t] # Nothing
         /\ manifest[t] # Nothing => t \in Hashed
<1>1. manifest[t] = IF t \in Hashed THEN built[Credential!TheOutput(t)] ELSE Nothing
  BY DEF AttestationInv, Credential!HashOf
<1>2. built[Credential!TheOutput(t)] \in FileContents \cup {"dir"}
  BY TheOutputIs DEF AttestationInv
<1> QED BY <1>1, <1>2, MCAssumption DEF Credential!AttestationAssumption

LEMMA ValidIsBuilt == AttestationInv => Credential!ValidMeansBuilt
<1> SUFFICES ASSUME AttestationInv, answer.valid
             PROVE  /\ \A f \in Credential!Files : disk[f] # Nothing
                    /\ \A t \in Hashed :
                         Credential!Single(t) /\ Credential!IsFile(Credential!TheOutput(t)) =>
                           disk[Credential!TheOutput(t)] = built[Credential!TheOutput(t)]
  BY DEF Credential!ValidMeansBuilt
<1>1. Credential!Report.tampered = {} /\ Credential!Report.missing = {}
  <2>1. answer # Credential!NoAnswer
    BY DEF Credential!NoAnswer
  <2>2. PICK k \in KeyPairs \cup {NoKeyPair} : answer = AnswerOf(k)
    BY <2>1 DEF AttestationInv
  <2> QED BY <2>2 DEF AnswerOf
<1>2. ASSUME NEW t \in Targets, Credential!Compared(t)
      PROVE  disk[Credential!TheOutput(t)] = manifest[t]
  BY <1>1, <1>2 DEF Credential!Report
<1>3. ASSUME NEW f \in Credential!Files PROVE disk[f] # Nothing
  <2>1. PICK t \in Targets : f \in Outputs[t]
    BY DEF Credential!Files
  <2>2. CASE Credential!Compared(t)
    <3>1. f = Credential!TheOutput(t) /\ disk[f] \in FileContents
      BY <2>1, <2>2, TheOutputIs DEF Credential!Compared, Credential!IsFile
    <3> QED BY <3>1, MCAssumption DEF Credential!AttestationAssumption
  <2>3. CASE ~Credential!Compared(t)
    BY <1>1, <2>1, <2>3 DEF Credential!Report
  <2> QED BY <2>2, <2>3
<1>4. ASSUME NEW t \in Hashed, Credential!Single(t), Credential!IsFile(Credential!TheOutput(t))
      PROVE  disk[Credential!TheOutput(t)] = built[Credential!TheOutput(t)]
  <2>1. t \in Targets
    BY MCAssumption DEF Credential!AttestationAssumption
  <2>2. manifest[t] = built[Credential!TheOutput(t)] /\ manifest[t] # Nothing
    BY <1>4, <2>1, NothingBuilt
  <2> QED BY <1>2, <1>4, <2>1, <2>2 DEF Credential!Compared
<1> QED BY <1>3, <1>4

LEMMA AsBuiltIsValid == AttestationInv => Credential!BuiltIsValid
<1> SUFFICES ASSUME AttestationInv, answer # Credential!NoAnswer, disk = built
             PROVE  answer.valid = (answer.key # NoKeyPair => attestation.by = answer.key)
  BY DEF Credential!BuiltIsValid
<1>1. PICK k \in KeyPairs \cup {NoKeyPair} : answer = AnswerOf(k)
  BY DEF AttestationInv
<1>2. Credential!Report.tampered = {}
  <2> SUFFICES ASSUME NEW t \in Targets, Credential!Compared(t)
               PROVE  disk[Credential!TheOutput(t)] = manifest[t]
    BY DEF Credential!Report
  <2>1. Credential!Single(t) /\ manifest[t] # Nothing
    BY DEF Credential!Compared
  <2> QED BY <2>1, NothingBuilt
<1>3. Credential!Report.missing = {}
  <2> SUFFICES ASSUME NEW t \in Targets, NEW f \in Outputs[t] PROVE disk[f] # Nothing
    BY DEF Credential!Report
  <2>1. disk[f] \in FileContents \cup {"dir"}
    BY OutputsAreFiles DEF AttestationInv
  <2> QED BY <2>1, MCAssumption DEF Credential!AttestationAssumption
<1> QED BY <1>1, <1>2, <1>3 DEF AnswerOf, Credential!SignatureValid

LEMMA AttestationTyped == AttestationInv => Credential!AttestationTypeOK
<1> SUFFICES ASSUME AttestationInv PROVE answer.tampered \cup answer.missing \subseteq Credential!Files
  BY DEF AttestationInv, Credential!AttestationTypeOK
<1>1. Credential!Report.tampered \subseteq Credential!Files
  BY TheOutputIs DEF Credential!Report, Credential!Compared
<1>2. Credential!Report.missing \subseteq Credential!Files
  BY OutputsAreFiles DEF Credential!Report
<1>3. CASE answer = Credential!NoAnswer
  BY <1>3 DEF Credential!NoAnswer
<1>4. CASE \E k \in KeyPairs \cup {NoKeyPair} : answer = AnswerOf(k)
  BY <1>1, <1>2, <1>4 DEF AnswerOf
<1> QED BY <1>3, <1>4 DEF AttestationInv

-----------------------------------------------------------------------------
(* Delegation *)

First(a) == [Credential!Open EXCEPT !.delegate = a]
CaveatSet == Caveats \cup {First(a) : a \in Agents}

\* A macaroon names the delegate of its caveats, the first of which names one, or has an
\* empty name, and is signed with a secret and with them.
WellMade(m) ==
  /\ m.caveats \in Seq(CaveatSet) /\ m.caveats # <<>> /\ Len(m.caveats) <= MaxCaveats
  /\ m.caveats[1].delegate \in Agents
  /\ m.delegate \in {Credential!DelegateOf(m.caveats), Credential!NoName}
  /\ \E s \in Secrets : m.signature = <<s, m.caveats>>

\* The caveats of the one are the first of the other.
Restricts(m, root) ==
  /\ m.signature[1] = root.signature[1]
  /\ \A i \in DOMAIN root.caveats : i \in DOMAIN m.caveats /\ m.caveats[i] = root.caveats[i]

MacaroonInv ==
  /\ time \in 0 .. MaxExpiry
  /\ roots = {} => macaroons = {}
  /\ \A m \in roots \cup macaroons : WellMade(m)
  /\ \A root \in roots : root.delegate = Credential!DelegateOf(root.caveats)
  /\ \A root \in roots, m \in macaroons : Restricts(m, root)

LEMMA CaveatTyped ==
  ASSUME NEW c \in CaveatSet
  PROVE  c.delegate \in Agents \cup {Credential!Nobody, Credential!NoName}
<1>1. CASE c \in Caveats
  BY <1>1, MCAssumption DEF Credential!DelegationAssumption
<1>2. ASSUME NEW a \in Agents, c = First(a) PROVE c.delegate = a
  BY <1>2 DEF First, Credential!Open
<1> QED BY <1>1, <1>2 DEF CaveatSet

Names(c) == c.delegate \notin {Credential!Nobody, Credential!NoName}
Named(cs) == {i \in DOMAIN cs : Names(cs[i])}

LEMMA LastNamed ==
  ASSUME NEW cs \in Seq(CaveatSet), Named(cs) # {}
  PROVE  /\ Credential!Max(Named(cs)) \in Named(cs)
         /\ \A j \in Named(cs) : j <= Credential!Max(Named(cs))
         /\ Credential!DelegateOf(cs) = cs[Credential!Max(Named(cs))].delegate
<1>1. Len(cs) \in Nat /\ Named(cs) \subseteq 1 .. Len(cs)
  BY DEF Named
<1>2. PICK i \in Named(cs) : \A j \in Named(cs) : j <= i
  BY <1>1, GreatestExists
<1>3. Credential!Max(Named(cs)) = CHOOSE x \in Named(cs) : \A y \in Named(cs) : x >= y
  BY DEF Credential!Max
<1>4. \A y \in Named(cs) : i >= y
  BY <1>1, <1>2
<1>5. Credential!Max(Named(cs)) \in Named(cs) /\ \A y \in Named(cs) : Credential!Max(Named(cs)) >= y
  BY <1>3, <1>4
<1>6. Credential!DelegateOf(cs) = cs[Credential!Max(Named(cs))].delegate
  BY DEF Credential!DelegateOf, Named, Names
<1> QED BY <1>1, <1>5, <1>6

LEMMA DelegateNamed ==
  ASSUME NEW cs \in Seq(CaveatSet), cs # <<>>, cs[1].delegate \in Agents
  PROVE  Credential!DelegateOf(cs) \in Agents
<1>1. 1 \in Named(cs)
  BY MCAssumption DEF Named, Names, Credential!DelegationAssumption
<1>2. PICK i \in Named(cs) : Credential!DelegateOf(cs) = cs[i].delegate
  BY <1>1, LastNamed
<1>3. cs[i] \in CaveatSet /\ cs[i].delegate \notin {Credential!Nobody, Credential!NoName}
  BY DEF Named, Names
<1> QED BY <1>2, <1>3, CaveatTyped

\* The delegate of one more caveat is the one it names, if it names one.
LEMMA DelegateOfMore ==
  ASSUME NEW cs \in Seq(CaveatSet), NEW c \in CaveatSet
  PROVE  Credential!DelegateOf(Append(cs, c))
           = IF Names(c) THEN c.delegate ELSE Credential!DelegateOf(cs)
<1> DEFINE more == Append(cs, c)
           n == Len(cs)
<1>1. /\ more \in Seq(CaveatSet) /\ DOMAIN more = 1 .. n + 1 /\ more[n + 1] = c
      /\ \A i \in DOMAIN cs : more[i] = cs[i]
      /\ DOMAIN cs = 1 .. n /\ n \in Nat
  OBVIOUS
<1> HIDE DEF more, n
<1>2. CASE Names(c)
  <2>1. n + 1 \in Named(more)
    BY <1>1, <1>2 DEF Named
  <2>2. Credential!Max(Named(more)) = n + 1
    <3>1. Credential!Max(Named(more)) \in 1 .. n + 1 /\ n + 1 <= Credential!Max(Named(more))
      BY <1>1, <2>1, LastNamed DEF Named
    <3> QED BY <1>1, <3>1
  <2> QED BY <1>1, <1>2, <2>1, <2>2, LastNamed DEF more
<1>3. CASE ~Names(c)
  <2>1. Named(more) = Named(cs)
    BY <1>1, <1>3 DEF Named
  <2>2. CASE Named(cs) = {}
    BY <1>3, <2>1, <2>2 DEF Credential!DelegateOf, Named, Names, more
  <2>3. CASE Named(cs) # {}
    <3>1. /\ Credential!DelegateOf(more) = more[Credential!Max(Named(cs))].delegate
          /\ Credential!DelegateOf(cs) = cs[Credential!Max(Named(cs))].delegate
          /\ Credential!Max(Named(cs)) \in DOMAIN cs
      BY <1>1, <2>1, <2>3, LastNamed DEF Named
    <3> QED BY <1>1, <1>3, <3>1 DEF more
  <2> QED BY <2>2, <2>3
<1> QED BY <1>2, <1>3

LEMMA MintStep ==
  ASSUME MacaroonInv, Credential!MintOne
  PROVE  MacaroonInv'
<1>1. PICK s \in Secrets, a \in Agents, cs \in {<<>>} \cup {<<c>> : c \in Caveats} :
        roots' = {Credential!Mint(s, a, cs)} /\ macaroons' = roots' /\ time' = time
  BY DEF Credential!MintOne
<1> DEFINE all == <<First(a)>> \o cs
           m == Credential!Mint(s, a, cs)
<1>2. /\ all \in Seq(CaveatSet) /\ all # <<>> /\ Len(all) <= 2 /\ all[1] = First(a)
  <2>1. First(a) \in CaveatSet /\ Caveats \subseteq CaveatSet
    BY DEF CaveatSet
  <2>2. cs \in Seq(CaveatSet) /\ Len(cs) <= 1
    <3>1. CASE cs = <<>>
      BY <3>1
    <3>2. CASE cs \in {<<c>> : c \in Caveats}
      <4>1. PICK c \in Caveats : cs = <<c>>
        BY <3>2
      <4>2. c \in CaveatSet
        BY <2>1, <4>1
      <4> QED BY <4>1, <4>2
    <3> QED BY <3>1, <3>2
  <2> QED BY <2>1, <2>2
<1>3. m = [delegate |-> Credential!DelegateOf(all), caveats |-> all, signature |-> <<s, all>>]
  BY DEF Credential!Mint, First
<1>4. First(a).delegate = a
  BY DEF First, Credential!Open
<1> HIDE DEF all, m
<1>5. WellMade(m)
  <2>1. m.caveats = all /\ m.delegate = Credential!DelegateOf(all) /\ m.signature = <<s, all>>
    BY <1>3
  <2>2. Len(all) <= MaxCaveats
    BY <1>2, MCAssumption DEF Credential!DelegationAssumption
  <2> QED BY <1>2, <1>4, <2>1, <2>2 DEF WellMade
<1>6. Restricts(m, m)
  BY DEF Restricts
<1>7. m.delegate = Credential!DelegateOf(m.caveats)
  BY <1>3
<1> QED BY <1>1, <1>5, <1>6, <1>7 DEF MacaroonInv, m

LEMMA AttenuateStep ==
  ASSUME MacaroonInv, Credential!AttenuateOne
  PROVE  MacaroonInv'
<1>1. PICK m \in macaroons, c \in Caveats :
        /\ Len(m.caveats) < MaxCaveats
        /\ macaroons' = {Credential!Attenuate(m, c)} \cup {h \in macaroons : h # m}
        /\ roots' = roots /\ time' = time
  BY DEF Credential!AttenuateOne
<1> DEFINE new == Credential!Attenuate(m, c)
           cs == m.caveats
           more == Append(cs, c)
<1>2. WellMade(m) /\ c \in CaveatSet
  BY <1>1 DEF MacaroonInv, CaveatSet
<1>3. PICK s \in Secrets : m.signature = <<s, cs>>
  BY <1>2 DEF WellMade
<1>4. /\ new.caveats = more /\ new.signature = <<s, more>>
      /\ new.delegate = IF c.delegate # Credential!Nobody THEN c.delegate ELSE m.delegate
  BY <1>3 DEF Credential!Attenuate
<1>5. /\ cs \in Seq(CaveatSet) /\ cs # <<>> /\ cs[1].delegate \in Agents
      /\ m.delegate \in {Credential!DelegateOf(cs), Credential!NoName}
  BY <1>2 DEF WellMade
<1>6. /\ more \in Seq(CaveatSet) /\ more # <<>> /\ Len(more) = Len(cs) + 1 /\ Len(cs) \in Nat
      /\ \A i \in DOMAIN cs : i \in DOMAIN more /\ more[i] = cs[i]
      /\ 1 \in DOMAIN cs
  <2>1. cs \in Seq(CaveatSet) /\ c \in CaveatSet /\ cs # <<>>
    BY <1>2, <1>5
  <2> HIDE DEF cs
  <2> QED BY <2>1
<1> HIDE DEF new, more, cs
<1>7. WellMade(new)
  <2>1. new.delegate \in {Credential!DelegateOf(more), Credential!NoName}
    BY <1>2, <1>4, <1>5, DelegateOfMore DEF more, Names
  <2>2. Len(more) <= MaxCaveats
    BY <1>1, <1>6, MCAssumption DEF Credential!DelegationAssumption, cs
  <2> QED BY <1>4, <1>5, <1>6, <2>1, <2>2 DEF WellMade
<1>8. ASSUME NEW root \in roots PROVE Restricts(new, root)
  <2>1. Restricts(m, root)
    BY <1>1 DEF MacaroonInv
  <2> QED BY <1>3, <1>4, <1>6, <2>1 DEF Restricts, cs
<1>9. roots # {}
  BY <1>1 DEF MacaroonInv
<1> QED BY <1>1, <1>7, <1>8, <1>9 DEF MacaroonInv, new

LEMMA MacaroonStep == MacaroonInv /\ [Credential!DelegationNext]_macaroonVars => MacaroonInv'
<1> SUFFICES ASSUME MacaroonInv, [Credential!DelegationNext]_macaroonVars PROVE MacaroonInv'
  OBVIOUS
<1>1. CASE UNCHANGED macaroonVars
  BY <1>1 DEF macaroonVars, MacaroonInv
<1>2. CASE Credential!TimePasses
  BY <1>2, MCAssumption DEF Credential!TimePasses, MacaroonInv, Credential!DelegationAssumption
<1>3. CASE \E m \in macaroons, s \in Secrets, call \in Credential!Calls : Credential!CallWith(m, s, call)
  BY <1>3 DEF Credential!CallWith, MacaroonInv
<1> QED BY <1>1, <1>2, <1>3, MintStep, AttenuateStep DEF Credential!DelegationNext

LEMMA MacaroonStarts == Credential!DelegationInit => MacaroonInv
BY MCAssumption DEF Credential!DelegationInit, MacaroonInv, Credential!DelegationAssumption

LEMMA MacaroonTyped == MacaroonInv => Credential!DelegationTypeOK
BY DelegateNamed DEF MacaroonInv, WellMade, Credential!DelegationTypeOK

LEMMA HeldIsNarrower == MacaroonInv => Credential!NarrowerThanMinted
<1> SUFFICES ASSUME MacaroonInv, NEW root \in roots, NEW m \in macaroons, NEW s \in Secrets,
                    NEW call \in Credential!Calls, NEW at \in 0 .. MaxExpiry,
                    Credential!VerifyAndAuthorize(m, s, call, at)
             PROVE  Credential!VerifyAndAuthorize(root, s, [call EXCEPT !.agent = root.delegate], at)
  BY DEF Credential!NarrowerThanMinted
<1>1. PICK kept : kept = [call EXCEPT !.agent = root.delegate]
  OBVIOUS
<1>2. kept.agent = root.delegate /\ kept.tool = call.tool /\ kept.risk = call.risk /\ kept.used = call.used
  BY <1>1 DEF Credential!Calls
<1>3. WellMade(root) /\ Restricts(m, root)
  BY DEF MacaroonInv
<1>7. root.delegate = Credential!DelegateOf(root.caveats)
  BY DEF MacaroonInv
<1>4. m.signature = <<s, m.caveats>> /\ \A i \in DOMAIN m.caveats : Credential!Permits(m.caveats[i], call, at)
  BY DEF Credential!VerifyAndAuthorize
<1>5. root.signature = <<s, root.caveats>>
  BY <1>3, <1>4 DEF WellMade, Restricts
<1>6. ASSUME NEW i \in DOMAIN root.caveats PROVE Credential!Permits(root.caveats[i], kept, at)
  <2>1. Credential!Permits(root.caveats[i], call, at)
    BY <1>3, <1>4 DEF Restricts
  <2> QED BY <1>2, <2>1 DEF Credential!Permits
<1> QED BY <1>1, <1>2, <1>5, <1>6, <1>7 DEF Credential!VerifyAndAuthorize

LEMMA HeldVerifies == MacaroonInv => Credential!StillVerifies
<1> SUFFICES ASSUME MacaroonInv, NEW m \in macaroons, NEW call \in Credential!Calls, call.agent = m.delegate,
                    \A i \in DOMAIN m.caveats : Credential!Permits(m.caveats[i], call, time)
             PROVE  \E s \in Secrets : Credential!VerifyAndAuthorize(m, s, call, time)
  BY DEF Credential!StillVerifies
<1>1. WellMade(m)
  BY DEF MacaroonInv
<1>2. call.agent # Credential!NoName
  BY MCAssumption DEF Credential!Calls, Credential!DelegationAssumption, Credential!NoName, Credential!Anonymous
<1> QED BY <1>1, <1>2 DEF WellMade, Credential!VerifyAndAuthorize

-----------------------------------------------------------------------------
LEMMA CredentialSteps == [Next]_vars => /\ [part = "build" /\ Credential!AttestationNext]_<<part, buildVars>>
                                        /\ [part = "macaroon" /\ Credential!DelegationNext]_<<part, macaroonVars>>
                                        /\ [part = "proof" /\ Credential!Edit]_<<part, proofVars>>
BY DEF Next, vars

\* Whatever files, macaroons and proofs are changed in any order: an attestation is valid
\* exactly while the outputs are as built (verify.ts), a macaroon grants no more than the
\* one it was made from and verifies for its delegate (delegation-macaroon.ts), and a proof
\* that verifies speaks of what was decided (zk-policy-proof.ts).
THEOREM CredentialsTrue == Spec => []CredentialsAreTrue
<1> DEFINE I == AttestationInv /\ MacaroonInv /\ ProofInv
<1>1. Init => I
  BY AttestationStarts, MacaroonStarts, ProofStarts DEF Init
<1>2. I /\ [Next]_vars => I'
  <2> SUFFICES ASSUME I, [Next]_vars PROVE I'
    OBVIOUS
  <2>1. /\ [Credential!AttestationNext]_buildVars /\ [Credential!DelegationNext]_macaroonVars
        /\ [Credential!Edit]_proofVars
    BY CredentialSteps
  <2> QED BY <2>1, AttestationStep, MacaroonStep, ProofStep
<1>3. I => CredentialsAreTrue
  BY AttestationTyped, ValidIsBuilt, AsBuiltIsValid, MacaroonTyped, HeldIsNarrower, HeldVerifies, ProofTells
     DEF CredentialsAreTrue
<1> QED
  BY <1>1, <1>2, <1>3, PTL DEF Spec

=================================================================================
