------------------------------ MODULE Credentials ------------------------------
(***************************************************************************)
(* What is signed in one place and verified in another: the attestation of *)
(* a build, the macaroon by which one agent lets another act for it, and   *)
(* the proof of a decision.                                                *)
(***************************************************************************)
EXTENDS Naturals, Sequences, FiniteSetsExt, SequencesExt

-----------------------------------------------------------------------------
(* akcp sign and akcp verify (core/src/provenance/sign.ts, verify.ts and   *)
(* the two commands): a manifest of targets with their outputs and, for    *)
(* some, a hash; an attestation, which carries the manifest it signs; and  *)
(* the files, which people change meanwhile.  A hash is the content.       *)

CONSTANTS Targets, Outputs, Hashed, Contents, KeyPairs, NoKeyPair, Nothing
\* Outputs[t]: the outputs of a target; Hashed: the targets whose hash is recorded

\* No content, and no hash of the file of one output, is one of the other marks.
AttestationAssumption ==
  /\ Hashed \subseteq Targets
  /\ Nothing \notin Contents \cup {"dir", "many"} /\ "dir" \notin Contents

Files == UNION {Outputs[t] : t \in Targets}

VARIABLES
  disk,         \* disk[f]: a content, "dir" or Nothing
  built,        \* the same when the manifest was made
  manifest,     \* hash of each target, or Nothing
  attestation,  \* the signed attestation next to the manifest
  keyFile,      \* the key pair in the key directory
  answer        \* what the last akcp verify said

attestationVars == <<disk, built, manifest, attestation, keyFile, answer>>

NoAnswer == [key |-> NoKeyPair, valid |-> FALSE, tampered |-> {}, missing |-> {}, signature |-> Nothing]
NoAttestation == [by |-> NoKeyPair, predicate |-> Nothing, subjects |-> {}]

AttestationTypeOK ==
  /\ disk \in [Files -> Contents \cup {"dir", Nothing}]
  /\ attestation.by \in KeyPairs \cup {NoKeyPair}
  /\ answer.tampered \cup answer.missing \subseteq Files

Single(t) == \E f \in Outputs[t] : Outputs[t] = {f}
TheOutput(t) == CHOOSE f \in Outputs[t] : TRUE

\* A build: an output is a file or, of a target that writes many, a directory.
HashOf(t, files) ==
  IF t \in Hashed THEN (IF Single(t) THEN files[TheOutput(t)] ELSE "many") ELSE Nothing

AttestationInit ==
  /\ disk \in {f \in [Files -> Contents \cup {"dir"}] : TRUE}
  /\ built = disk
  /\ manifest = [t \in Targets |-> HashOf(t, disk)]
  /\ attestation = NoAttestation
  /\ keyFile = NoKeyPair
  /\ answer = NoAnswer

Build ==
  /\ \E c \in Contents : disk' = [f \in Files |-> IF disk[f] = "dir" THEN "dir" ELSE c]
  /\ built' = disk'
  /\ manifest' = [t \in Targets |-> HashOf(t, disk')]
  /\ answer' = NoAnswer
  /\ UNCHANGED <<attestation, keyFile>>

Change(f) ==
  /\ \E c \in Contents \cup {Nothing} : disk' = [disk EXCEPT ![f] = c]
  /\ answer' = NoAnswer
  /\ UNCHANGED <<built, manifest, attestation, keyFile>>

\* buildAttestation: a subject for each target with a hash.
BuildAttestation(k) ==
  [by |-> k, predicate |-> manifest, subjects |-> {t \in Targets : manifest[t] # Nothing}]

\* akcp sign, with new keys, which replace those in the directory, or with those.
Sign ==
  /\ \/ \E k \in KeyPairs : keyFile' = k
     \/ keyFile # NoKeyPair /\ keyFile' = keyFile
  /\ attestation' = BuildAttestation(keyFile')
  /\ answer' = NoAnswer
  /\ UNCHANGED <<disk, built, manifest>>

IsFile(f) == disk[f] \in Contents

\* Targets whose hash can be compared, and those of which only existence is known.
Compared(t) == Single(t) /\ IsFile(TheOutput(t)) /\ manifest[t] # Nothing

\* verifyManifest
Report ==
  [tampered |-> {TheOutput(t) : t \in {u \in Targets : Compared(u) /\ disk[TheOutput(u)] # manifest[u]}},
   missing |-> UNION {{f \in Outputs[t] : disk[f] = Nothing} : t \in {u \in Targets : ~Compared(u)}}]

\* verifyAttestationSignature: the key must have signed what the file carries.
SignatureValid(k) == attestation.by = k

\* akcp verify, without a key or with a public key and an attestation file.
Verify(k) ==
  /\ k # NoKeyPair => attestation # NoAttestation
  /\ LET good == Report.tampered = {} /\ Report.missing = {}
     IN answer' = [key |-> k, tampered |-> Report.tampered, missing |-> Report.missing,
                   signature |-> IF k = NoKeyPair THEN Nothing ELSE IF SignatureValid(k) THEN "good" ELSE "bad",
                   valid |-> good /\ (k # NoKeyPair => SignatureValid(k))]
  /\ UNCHANGED <<disk, built, manifest, attestation, keyFile>>

AttestationNext ==
  \/ Build \/ Sign
  \/ \E f \in Files : Change(f)
  \/ \E k \in KeyPairs \cup {NoKeyPair} : Verify(k)

AttestationSpec == AttestationInit /\ [][AttestationNext]_attestationVars

-----------------------------------------------------------------------------
(* Properties *)

\* A verification that succeeds has seen every output, and the one output of each
\* target with a hash as it was built, unless a directory stood where the file was
\* or a file where the directory was.
ValidMeansBuilt ==
  answer.valid =>
    /\ \A f \in Files : disk[f] # Nothing
    /\ \A t \in Hashed : Single(t) /\ IsFile(TheOutput(t)) => disk[TheOutput(t)] = built[TheOutput(t)]

\* Files as they were built verify, and with a key exactly when it signed.
BuiltIsValid ==
  answer # NoAnswer /\ disk = built =>
    answer.valid = (answer.key # NoKeyPair => attestation.by = answer.key)

\* What verifies with a key is of the manifest that it signed.  Not so: a build
\* after the signature makes a new manifest, and the attestation's own copy is not
\* compared with it.
AttestationIsOfManifest ==
  answer.valid /\ answer.key # NoKeyPair => attestation.predicate = manifest

-----------------------------------------------------------------------------
(* Delegation macaroons (core/src/identity/delegation-macaroon.ts): a root *)
(* macaroon is minted for an agent, whoever holds one appends caveats, and *)
(* the gateway verifies what it is given against a call, at a time and for *)
(* the tokens that the agent has used.  A signature is the root secret and *)
(* the caveats that were chained into it.                                  *)

CONSTANTS Agents, Tools, Risks, Secrets, Caveats, MaxCaveats, MaxExpiry
\* Risks: 0 .. some level; Caveats: those that may be appended; the last two are bounds

Anonymous == "anonymous"
Nobody == "none"
NoName == "unnamed"
\* A caveat restricts what it gives and leaves the rest open; a delegate of Nobody
\* names nobody, and so does an empty name, except where it is appended.
Open == [tools |-> Tools, risk |-> 3, expires |-> MaxExpiry + 1, budget |-> 100, delegate |-> Nobody]

\* No agent is called nobody or has an empty name; a root macaroon has one caveat or two.
DelegationAssumption ==
  /\ Nobody \notin Agents /\ NoName \notin Agents
  /\ \A c \in Caveats : c.delegate \in Agents \cup {Nobody, NoName}
  /\ MaxCaveats \in Nat \ {0, 1} /\ MaxExpiry \in Nat

VARIABLES minted, held, time, granted
delegationVars == <<minted, held, time, granted>>

DelegateOf(caveats) ==
  LET named == {i \in DOMAIN caveats : caveats[i].delegate \notin {Nobody, NoName}}
  IN IF named = {} THEN Nobody ELSE caveats[Max(named)].delegate

DelegationTypeOK ==
  /\ time \in 0 .. MaxExpiry
  /\ \A m \in held : m.delegate \in Agents \cup {NoName} /\ m.caveats # <<>> /\ Len(m.caveats) <= MaxCaveats

\* mintRootMacaroon: the first caveat names the delegate; later ones may name another.
Mint(secret, agent, caveats) ==
  LET all == <<[Open EXCEPT !.delegate = agent]>> \o caveats
  IN [delegate |-> DelegateOf(all), caveats |-> all, signature |-> <<secret, all>>]

\* attenuateMacaroon: the caveat is chained onto the signature.  Its delegate is taken if
\* it is given at all (191), even as an empty name, which the verification passes over (269).
Attenuate(m, c) ==
  [delegate |-> IF c.delegate # Nobody THEN c.delegate ELSE m.delegate,
   caveats |-> Append(m.caveats, c),
   signature |-> <<m.signature[1], Append(m.signature[2], c)>>]

Calls == [tool : Tools, risk : Risks, agent : Agents \cup {Anonymous}, used : {0, 5}]

Permits(c, call, at) ==
  /\ call.tool \in c.tools /\ call.risk <= c.risk
  /\ at <= c.expires /\ call.used <= c.budget

\* A mistaken verification: the last caveat stands for all.
AuthorizeByLast(m, secret, call, at) ==
  /\ m.signature = <<secret, m.caveats>>
  /\ m.delegate = DelegateOf(m.caveats)
  /\ call.agent \in {Anonymous, m.delegate}
  /\ Permits(Last(m.caveats), call, at)

\* verifyAndAuthorize: the chain, the delegate that it binds, the caller, each caveat.
VerifyAndAuthorize(m, secret, call, at) ==
  /\ m.signature = <<secret, m.caveats>>
  /\ m.delegate = DelegateOf(m.caveats)
  /\ call.agent \in {Anonymous, m.delegate}
  /\ \A i \in DOMAIN m.caveats : Permits(m.caveats[i], call, at)

DelegationInit == minted = {} /\ held = {} /\ time = 0 /\ granted = {}

MintOne ==
  /\ minted = {}
  /\ \E s \in Secrets, a \in Agents : \E cs \in {<<>>} \cup {<<c>> : c \in Caveats} :
       minted' = {Mint(s, a, cs)} /\ held' = minted'
  /\ UNCHANGED <<time, granted>>

AttenuateOne ==
  /\ \E m \in held, c \in Caveats :
       /\ Len(m.caveats) < MaxCaveats
       /\ held' = {Attenuate(m, c)} \cup {h \in held : h # m}
  /\ UNCHANGED <<minted, time, granted>>

TimePasses == time < MaxExpiry /\ time' = time + 1 /\ UNCHANGED <<minted, held, granted>>

\* A call at the gateway, which acts for the delegate when the caller is unknown.
\* What was granted is kept for the last time that it was.
CallWith(m, s, call) ==
  /\ VerifyAndAuthorize(m, s, call, time)
  /\ granted' = {[root |-> m.signature[1], tool |-> call.tool, secret |-> s, time |-> time,
                  as |-> IF call.agent = Anonymous THEN m.delegate ELSE call.agent]}
  /\ UNCHANGED <<minted, held, time>>

DelegationNext == MintOne \/ AttenuateOne \/ TimePasses
          \/ \E m \in held, s \in Secrets, call \in Calls : CallWith(m, s, call)

DelegationSpec == DelegationInit /\ [][DelegationNext]_delegationVars

-----------------------------------------------------------------------------
(* Properties *)

\* What is held after any number of attenuations grants nothing that the minted
\* macaroon does not grant to its own delegate, at any time.
NarrowerThanMinted ==
  \A root \in minted, m \in held, s \in Secrets, call \in Calls, at \in 0 .. MaxExpiry :
    VerifyAndAuthorize(m, s, call, at)
      => VerifyAndAuthorize(root, s, [call EXCEPT !.agent = root.delegate], at)

\* An attenuation does not make a macaroon unusable as such: it verifies for the agent
\* that it names, for a call that every caveat permits.  One with an empty name names none.
StillVerifies ==
  \A m \in held, call \in Calls :
    call.agent = m.delegate /\ (\A i \in DOMAIN m.caveats : Permits(m.caveats[i], call, time))
      => \E s \in Secrets : VerifyAndAuthorize(m, s, call, time)

-----------------------------------------------------------------------------
(* Proofs of decisions: a proof commits to every attribute of a request,   *)
(* opens some of them and binds the decision and the hash of the rules. On *)
(* its way to the auditor a proof may be edited.  A hash is what was        *)
(* hashed; the nonce of an attribute is fresh, so a commitment hides its   *)
(* value.                                                                  *)

CONSTANTS
  Attributes, Values,
  PolicySets,    \* sets of rules, by their hash
  Effects, MaxEdits   \* MaxEdits: a bound

VARIABLES request, policy, decision, proof, edits
proofVars == <<request, policy, decision, proof, edits>>

\* computeAttributeCommitment and the Merkle root over the seven of them, which is
\* another one for other commitments.
Commitment(a, v, nonce) == [attribute |-> a, value |-> v, nonce |-> nonce]
MerkleRoot(commitments) == commitments
ProofDigest(hash, root, d) == <<hash, root, d>>

\* generatePolicyExecutionProof, which opens the attributes of disclose.
Generate(disclose) ==
  LET commitments == [a \in Attributes |-> Commitment(a, request[a], "nonce")] IN
    [hash |-> policy, commitments |-> commitments, root |-> MerkleRoot(commitments),
     openings |-> [a \in disclose |-> Commitment(a, request[a], "nonce")],
     decision |-> decision, digest |-> ProofDigest(policy, MerkleRoot(commitments), decision)]

\* verifyPolicyExecutionProof: the rules, the openings, those that are required, the
\* root and the digest.
VerifyProof(p, expected, required) ==
  /\ p.hash = expected
  /\ \A a \in DOMAIN p.openings : p.openings[a] = p.commitments[a]
  /\ required \subseteq DOMAIN p.openings
  /\ MerkleRoot(p.commitments) = p.root
  /\ ProofDigest(p.hash, p.root, p.decision) = p.digest

ProofInit ==
  /\ request \in [Attributes -> Values] /\ policy \in PolicySets /\ decision \in Effects
  /\ \E disclose \in SUBSET Attributes : proof = Generate(disclose)
  /\ edits = 0

\* Somebody puts another value into the proof, in an opening, in a commitment or in
\* both, takes an opening away, or changes the decision or the hash of the rules.
Edit ==
  /\ edits < MaxEdits /\ edits' = edits + 1
  /\ \/ \E a \in DOMAIN proof.openings, v \in Values :
          \/ proof' = [proof EXCEPT !.openings[a].value = v]
          \/ proof' = [proof EXCEPT !.openings[a].value = v, !.commitments[a].value = v]
     \/ \E a \in Attributes, v \in Values : proof' = [proof EXCEPT !.commitments[a].value = v]
     \/ \E a \in DOMAIN proof.openings :
          proof' = [proof EXCEPT !.openings = [b \in (DOMAIN proof.openings) \ {a} |-> proof.openings[b]]]
     \/ \E d \in Effects : proof' = [proof EXCEPT !.decision = d]
     \/ \E h \in PolicySets : proof' = [proof EXCEPT !.hash = h]
  /\ UNCHANGED <<request, policy, decision>>

ProofSpec == ProofInit /\ [][Edit]_proofVars

-----------------------------------------------------------------------------
(* Properties *)

\* However the fields of a proof were edited, as long as its root and its digest are
\* the ones it was made with: a proof that verifies speaks of the request, the rules
\* and the decision that it was made for, and opens what is required.
VerifiedIsTrue ==
  \A expected \in PolicySets, required \in SUBSET Attributes :
    VerifyProof(proof, expected, required) =>
      /\ expected = policy /\ proof.decision = decision /\ required \subseteq DOMAIN proof.openings
      /\ \A a \in DOMAIN proof.openings : proof.openings[a].value = request[a]
=================================================================================
