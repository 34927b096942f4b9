------------------------------- MODULE KmsKeyring -------------------------------
(***************************************************************************)
(* The keyring of core/src/provenance/kms-keyring.ts and the commands of   *)
(* akcp keys over its file: each command reads the file, changes what it   *)
(* read and writes all of it back.  A key is its id; encryption is that a  *)
(* key opens only with the passphrase it was wrapped with.                 *)
(***************************************************************************)
EXTENDS Naturals, Sequences, FiniteSets, SequencesExt

CONSTANTS
  Commands,  \* processes that run commands
  KeyIds,    \* keys that are ever generated: a bound
  Keks, Short,  \* passphrases, and those of fewer than four characters
  NoKey

KeyringAssumption == Short \subseteq Keks /\ KeyIds \subseteq Nat /\ NoKey \notin KeyIds

Torn == [active |-> NoKey, keys |-> <<[id |-> NoKey, status |-> "torn", kek |-> "none"]>>]
Empty == [active |-> NoKey, keys |-> <<>>]

VARIABLES
  file,     \* the manifest on disk
  held,     \* held[p]: the manifest a command has read, with what it is to do
  signed,   \* keys that signed an attestation
  revoked,  \* keys that a command said it revoked
  minted,   \* keys generated
  alone     \* no two commands overlapped so far, and none died

vars == <<file, held, signed, revoked, minted, alone>>

Idle == [cmd |-> "none", key |-> NoKey, kek |-> "none", ring |-> Empty]

Ids(ring) == {ring.keys[i].id : i \in DOMAIN ring.keys}
\* The first entry of a key, as Array.find takes it.
Entry(ring, k) == ring.keys[Min({i \in DOMAIN ring.keys : ring.keys[i].id = k})]
SetStatus(keys, k, status) ==
  [i \in DOMAIN keys |-> IF keys[i].id = k THEN [keys[i] EXCEPT !.status = status] ELSE keys[i]]

TypeOK ==
  /\ file # Torn =>
       /\ file.active \in KeyIds \cup {NoKey}
       /\ \A i \in DOMAIN file.keys :
            file.keys[i] \in [id : KeyIds, status : {"active", "retired", "revoked"}, kek : Keks]
  /\ revoked \subseteq KeyIds /\ signed \subseteq KeyIds
  /\ \A p \in Commands : held[p].cmd \in {"none", "rotate", "add", "revoke", "sign"}

Init ==
  /\ file = Empty
  /\ held = [p \in Commands |-> Idle]
  /\ signed = {} /\ revoked = {} /\ minted = {}
  /\ alone = TRUE

\* generateKey: a new active key retires the one that was active.
GenerateKey(ring, k, kek, makeActive) ==
  LET former == IF makeActive /\ ring.active \in Ids(ring)
                     /\ Entry(ring, ring.active).status = "active"
                THEN SetStatus(ring.keys, ring.active, "retired") ELSE ring.keys
  IN [active |-> IF makeActive THEN k ELSE ring.active,
      keys |-> Append(former, [id |-> k, status |-> IF makeActive THEN "active" ELSE "retired",
                               kek |-> kek])]

\* revokeKey: if it was the active key, another active one takes its place.
RevokeKey(ring, k) ==
  LET keys == SetStatus(ring.keys, k, "revoked")
      others == {i \in DOMAIN keys : keys[i].status = "active"}
  IN [keys |-> keys,
      active |-> IF ring.active # k THEN ring.active
                 ELSE IF others = {} THEN NoKey ELSE keys[Min(others)].id]

\* signWithActiveKey needs an active entry and its passphrase.
MaySign(ring, kek) ==
  /\ ring.active \in Ids(ring)
  /\ Entry(ring, ring.active).status = "active"
  /\ Entry(ring, ring.active).kek = kek

\* A mistaken verification: any signature that is good makes up for the others.
VerifyAnySignature(ring, signatures) ==
  \E i \in DOMAIN signatures :
    /\ signatures[i].good /\ signatures[i].key \in Ids(ring)
    /\ Entry(ring, signatures[i].key).status # "revoked"

\* verifyWithKeyring: the first signature of a key in the ring decides.
VerifyWithKeyring(ring, signatures) ==
  LET known == {i \in DOMAIN signatures : signatures[i].key \in Ids(ring)}
  IN /\ known # {}
     /\ Entry(ring, signatures[Min(known)].key).status # "revoked"
     /\ signatures[Min(known)].good

\* The pair that is generated next: none was generated twice.
NextKey(k) ==
  LET used == minted \cup {held[q].key : q \in Commands}
  IN k \in KeyIds \ used /\ \A l \in KeyIds \ used : k <= l

\* loadFromFile; a file that does not parse makes every command fail.
Load(p) ==
  /\ held[p] = Idle /\ file # Torn
  /\ \E cmd \in {"rotate", "add", "revoke", "sign"}, k \in KeyIds \cup {NoKey}, kek \in Keks :
       /\ CASE cmd = "sign" -> k = NoKey
            [] cmd = "revoke" -> k # NoKey /\ kek \notin Short
            [] OTHER -> NextKey(k)
       /\ held' = [held EXCEPT ![p] = [cmd |-> cmd, key |-> k, kek |-> kek, ring |-> file]]
  /\ alone' = (alone /\ \A q \in Commands : held[q] = Idle)
  /\ UNCHANGED <<file, signed, revoked, minted>>

End(p) == held' = [held EXCEPT ![p] = Idle]

Fails(p) == End(p) /\ UNCHANGED <<file, signed, revoked, minted, alone>>

\* keys init, keys rotate, and generateKey of a key that is not to be active.  A
\* passphrase that is too short is refused before anything has changed.
RunGenerate(p) ==
  /\ held[p].cmd \in {"rotate", "add"}
  /\ IF held[p].kek \in Short THEN Fails(p)
     ELSE /\ file' = GenerateKey(held[p].ring, held[p].key, held[p].kek, held[p].cmd = "rotate")
          /\ End(p)
          /\ minted' = minted \cup {held[p].key}
          /\ UNCHANGED <<signed, revoked, alone>>

RunRevoke(p) ==
  /\ held[p].cmd = "revoke"
  /\ IF held[p].key \notin Ids(held[p].ring) THEN Fails(p)
     ELSE /\ file' = RevokeKey(held[p].ring, held[p].key)
          /\ revoked' = revoked \cup {held[p].key}
          /\ End(p)
          /\ UNCHANGED <<signed, minted, alone>>

RunSign(p) ==
  /\ held[p].cmd = "sign"
  /\ IF ~MaySign(held[p].ring, held[p].kek) THEN Fails(p)
     ELSE /\ signed' = signed \cup {held[p].ring.active}
          /\ End(p)
          /\ UNCHANGED <<file, revoked, minted, alone>>

\* A command dies, perhaps in the midst of writing the file.
Dies(p) ==
  /\ held[p] # Idle
  /\ End(p)
  /\ alone' = FALSE
  /\ file' \in {file} \cup {t \in {Torn} : held[p].cmd # "sign"}
  /\ UNCHANGED <<signed, revoked, minted>>

Next == \E p \in Commands : Load(p) \/ RunGenerate(p) \/ RunRevoke(p) \/ RunSign(p) \/ Dies(p)

Spec == Init /\ [][Next]_vars

-----------------------------------------------------------------------------
(* Properties *)

\* However commands overlap, at most one key of the file is active, and the
\* manifest names it.
OneActiveKey ==
  file # Torn => \A i \in DOMAIN file.keys :
    (file.keys[i].status = "active") = (file.keys[i].id = file.active)

\* While commands do not overlap: what a key signed verifies after any number of
\* rotations, until the key is revoked and never after.
SignedUntilRevoked ==
  alone => \A k \in signed :
    VerifyWithKeyring(file, <<[key |-> k, good |-> TRUE]>>) <=> k \notin revoked

\* A revoked key stays so.  Not so when a command that read the file before the
\* revocation writes it back after.
RevocationIsKept ==
  file # Torn => \A k \in revoked : k \in Ids(file) => Entry(file, k).status = "revoked"

\* A second signature never makes up for a first one that is revoked or bad.
FirstKnownDecides ==
  file # Torn => \A k, l \in KeyIds : \A good \in BOOLEAN :
    LET first == <<[key |-> k, good |-> good]>>
        both == first \o <<[key |-> l, good |-> TRUE]>>
    IN VerifyWithKeyring(file, both) /\ k \in Ids(file) => VerifyWithKeyring(file, first)

=================================================================================
