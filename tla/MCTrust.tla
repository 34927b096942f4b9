-------------------------------- MODULE MCTrust --------------------------------
(***************************************************************************)
(* What vouches for a bundle and for those who use it, for TLC: the        *)
(* keyring, the attestation of a build, the registry with the mesh         *)
(* composed of it, the audit ledger, the command that shows all this, the  *)
(* plugins, delegation and the proofs of decisions.  They share no state,  *)
(* so a behaviour exercises one.                                           *)
(***************************************************************************)
EXTENDS Naturals, FiniteSets, Sequences, SequencesExt

CONSTANTS
  KeyCommands, KeyIds, Keks, Short, NoKey,
  Publishers, Composers, Domains, Versions, Builds, NoFile, MaxPublications,
  MeshDomains, MeshIds, NoDomain, Referring,
  Ledgers, LedgerContents, MaxEvents,
  Permissions, Handlers, Root, Paths, MaxCalls,
  Targets, Outputs, Hashed, FileContents, KeyPairs, NoKeyPair, Nothing,
  Agents, Tools, Risks, Secrets, Caveats, MaxCaveats, MaxExpiry,
  Attributes, Values, PolicySets, Decisions, MaxEdits

MCKeyIds == 1 .. 2
MCVersions == <<"0.10.0", "0.9.0">>   \* by strings, the first is the lesser
\* Of the domain with references, one concept has them.
MCReferring == {<<"d1", "x">>}
MCOutputs == [t \in {"ir", "agents"} |->
  IF t = "ir" THEN {"ir.json"} ELSE {"a.md", "b.md"}]
AnyCaveat == [tools |-> {"t1", "t2"}, risk |-> 3, expires |-> 3, budget |-> 100, delegate |-> "none"]
MCCaveats ==
  {[AnyCaveat EXCEPT !.tools = {"t1"}], [AnyCaveat EXCEPT !.risk = 1], [AnyCaveat EXCEPT !.expires = 1, !.delegate = "unnamed"],
   [AnyCaveat EXCEPT !.budget = 2, !.delegate = "a2"], [AnyCaveat EXCEPT !.tools = {"t2"}, !.delegate = "a1"]}
MCRoot == <<"a", "b">>
\* Within the root and out of it, once by a name that begins as the root's does.
MCPaths == {<<"f">>, <<"..", "bx">>, <<"..", "..">>, <<"f", "..">>, <<"..", "b", "f">>}

VARIABLES part
VARIABLES ring, held, signed, revoked, minted, keyAlone
VARIABLES disk, built, manifest, attestation, keyFile, answer
VARIABLES files, index, job, mesh, count, last, clean, whole
VARIABLES bundles, composed
VARIABLES ledger, pending, written, alone, edited
VARIABLES bundle, build, log, approvals, shownAnswer
VARIABLES roots, macaroons, time, granted
VARIABLES request, policy, decision, proof, edits
VARIABLES declared, loaded, phase, calls, used, effects, report

Keyring == INSTANCE KmsKeyring WITH Commands <- KeyCommands, file <- ring, alone <- keyAlone
Credential == INSTANCE Credentials WITH
  Contents <- FileContents, Effects <- Decisions, minted <- roots, held <- macaroons
Registry == INSTANCE FederatedRegistry WITH Ids <- MeshIds, None <- NoFile
Ledger == INSTANCE AuditLedger WITH
  Writers <- Ledgers, Contents <- LedgerContents, file <- ledger,
  Lines <- {0, 1}, Actions <- {"tool", "policy"}, MaxVersion <- 2, answer <- shownAnswer
Plugin == INSTANCE Plugins

ASSUME MCAssumption ==
  /\ Keyring!KeyringAssumption /\ Registry!RegistryAssumption /\ Registry!MeshAssumption
  /\ Plugin!PluginsAssumption /\ Credential!AttestationAssumption /\ Credential!DelegationAssumption
  /\ Ledger!LedgerAssumption

ringVars == <<ring, held, signed, revoked, minted, keyAlone>>
buildVars == <<disk, built, manifest, attestation, keyFile, answer>>
registryVars == <<files, index, job, mesh, count, last, clean, whole>>
meshVars == <<bundles, composed>>
ledgerVars == <<ledger, pending, written, alone, edited>>
pluginVars == <<declared, loaded, phase, calls, used, effects, report>>
macaroonVars == <<roots, macaroons, time, granted>>
proofVars == <<request, policy, decision, proof, edits>>
consoleVars == <<bundle, build, log, approvals, shownAnswer>>
vars == <<part, ringVars, buildVars, registryVars, meshVars, ledgerVars, consoleVars, pluginVars,
          macaroonVars, proofVars>>

\* A part that does not act stands in one of its initial states.
Init ==
  /\ part \in {"keyring", "build", "registry", "mesh", "ledger", "console", "plugin",
              "macaroon", "proof"}
  /\ Keyring!Init /\ Registry!Init /\ Ledger!Init
  /\ part # "build" => disk = [f \in Credential!Files |-> "dir"]
  /\ Credential!AttestationInit /\ Credential!DelegationInit
  /\ part # "proof" =>
       /\ request = [a \in Attributes |-> CHOOSE v \in Values : TRUE]
       /\ policy = CHOOSE p \in PolicySets : TRUE
       /\ decision = CHOOSE d \in Decisions : TRUE
  /\ Credential!ProofInit
  /\ part # "proof" => proof.openings = <<>>
  /\ part # "mesh" => bundles = [d \in MeshDomains |-> [id \in MeshIds |-> Registry!NoConcept]]
  /\ part = "mesh" => Registry!MeshInit
  /\ part # "mesh" => composed = {}
  /\ part # "plugin" => declared = {}
  /\ Plugin!Init
  /\ part # "console" => approvals = [p \in {1, 2} |-> Ledger!Absent]
  /\ Ledger!ConsoleInit /\ (part = "console" => approvals[1] = Ledger!Corrupt)

Next ==
  \/ /\ part = "keyring" /\ Keyring!Next
     /\ UNCHANGED <<part, buildVars, registryVars, meshVars, ledgerVars, consoleVars, pluginVars, macaroonVars, proofVars>>
  \/ /\ part = "build" /\ Credential!AttestationNext
     /\ UNCHANGED <<part, ringVars, registryVars, meshVars, ledgerVars, consoleVars, pluginVars, macaroonVars, proofVars>>
  \/ /\ part = "registry" /\ Registry!Next
     /\ UNCHANGED <<part, ringVars, buildVars, meshVars, ledgerVars, consoleVars, pluginVars, macaroonVars, proofVars>>
  \/ /\ part = "mesh" /\ Registry!ComposeMore
     /\ UNCHANGED <<part, ringVars, buildVars, registryVars, ledgerVars, consoleVars, pluginVars, macaroonVars, proofVars>>
  \/ /\ part = "ledger" /\ Ledger!Next
     /\ UNCHANGED <<part, ringVars, buildVars, registryVars, meshVars, consoleVars, pluginVars, macaroonVars, proofVars>>
  \/ /\ part = "console" /\ Ledger!ConsoleNext
     /\ UNCHANGED <<part, ringVars, buildVars, registryVars, meshVars, ledgerVars, pluginVars, macaroonVars, proofVars>>
  \/ /\ part = "plugin" /\ Plugin!Next
     /\ UNCHANGED <<part, ringVars, buildVars, registryVars, meshVars, ledgerVars, consoleVars, macaroonVars, proofVars>>
  \/ /\ part = "macaroon" /\ Credential!DelegationNext
     /\ UNCHANGED <<part, ringVars, buildVars, registryVars, meshVars, ledgerVars, consoleVars, pluginVars, proofVars>>
  \/ /\ part = "proof" /\ Credential!Edit
     /\ UNCHANGED <<part, ringVars, buildVars, registryVars, meshVars, ledgerVars, consoleVars, pluginVars, macaroonVars>>

Spec == Init /\ [][Next]_vars

\* One key signs, what a key signed verifies until the key is revoked, and the first
\* signature of a known key decides.
KeysAreSound ==
  part = "keyring" =>
    Keyring!TypeOK /\ Keyring!OneActiveKey /\ Keyring!SignedUntilRevoked /\ Keyring!FirstKnownDecides

\* The attestation of a build is valid exactly while the outputs are as built, a macaroon
\* verifies along its chain and grants no more than any caveat of it, and a proof of a
\* decision that verifies speaks of what was decided.
CredentialsAreTrue ==
  /\ part = "build" =>
       Credential!AttestationTypeOK /\ Credential!ValidMeansBuilt /\ Credential!BuiltIsValid
  /\ part = "macaroon" =>
       Credential!DelegationTypeOK /\ Credential!NarrowerThanMinted /\ Credential!StillVerifies
  /\ part = "proof" => Credential!VerifiedIsTrue

\* A ledger verifies exactly while its entries are as written, by one writer, and the
\* control plane shows the latest of them and fails for one that was edited.
RecordsTellEdits ==
  /\ [](part = "ledger" => Ledger!TypeOK /\ Ledger!UneditedVerifies /\ Ledger!EditIsFound
                           /\ Ledger!RootNamesLedger)
  /\ Ledger!ShownIsLatest /\ Ledger!EditIsRefused

\* A pack that verifies is one build, published packs verify, and a mesh has what was
\* published before it and no link that its domains do not have.
FederationIsWhole ==
  /\ part = "registry" =>
       Registry!TypeOK /\ Registry!ValidIsWhole /\ Registry!PublishedVerifies /\ Registry!MeshIsComplete
  /\ part = "mesh" => Registry!LocalLinksSurvive /\ Registry!NoGuessedLink

\* Code in the sandbox has no effect that its manifest does not declare, and its report has
\* every effect that it had before it ended.
PluginsAreContained ==
  part = "plugin" => Plugin!TypeOK /\ Plugin!EffectsAreDeclared /\ Plugin!ReportCoversRun

\* A plugin that was loaded does nothing that it does not declare.
LoadedPluginsAreContained == part = "plugin" => Plugin!LoadedKeepsToDeclared
=============================================================================
