------------------------------- MODULE Reconcile -------------------------------
(***************************************************************************)
(* reconcile (core/src/reconcile/reconcile.ts): the outputs on disk are    *)
(* compared with the configuration and, by their hash, with the manifest;  *)
(* what is missing or has drifted is compiled again.  A file's content is  *)
(* the version of the sources that it was compiled from, or an edit.       *)
(***************************************************************************)
EXTENDS Naturals, FiniteSets

CONSTANTS Targets, Known, MaxVersion
\* Known: the targets whose type has an implementation; MaxVersion: a bound

\* A configuration has a target (akcp-config-schema.ts:52).
ReconcileAssumption == Targets # {} /\ Known \subseteq Targets /\ MaxVersion \in Nat

Missing == MaxVersion + 1
Edited == MaxVersion + 2
Unrecorded == MaxVersion + 3

VARIABLES
  version,   \* of the sources; sources gives whether their directory exists
  sources,
  outs,      \* outs[t]: the content of the output of t
  manifest,  \* "missing", "corrupt" or "read"
  recorded,  \* recorded[t]: its hash in the manifest
  result     \* of the last reconcile

vars == <<version, sources, outs, manifest, recorded, result>>

NoResult == [status |-> "none", hashes |-> FALSE, dry |-> FALSE, differences |-> FALSE]

TypeOK ==
  /\ version \in 0 .. MaxVersion
  /\ outs \in [Targets -> 0 .. MaxVersion \cup {Missing, Edited}]
  /\ recorded \in [Targets -> 0 .. MaxVersion \cup {Edited, Unrecorded}]
  /\ manifest = "read" \/ \A t \in Targets : recorded[t] = Unrecorded

Init ==
  /\ version = 0 /\ sources = TRUE
  /\ outs = [t \in Targets |-> Missing]
  /\ manifest = "missing"
  /\ recorded = [t \in Targets |-> Unrecorded]
  /\ result = NoResult

-----------------------------------------------------------------------------
(* People and the other commands *)

EditSources ==
  /\ version < MaxVersion /\ version' = version + 1
  /\ result' = NoResult /\ UNCHANGED <<sources, outs, manifest, recorded>>

LoseSources ==
  /\ sources' = FALSE
  /\ result' = NoResult /\ UNCHANGED <<version, outs, manifest, recorded>>

EditOutput(t) ==
  /\ \E c \in {Missing, Edited} : outs' = [outs EXCEPT ![t] = c]
  /\ result' = NoResult /\ UNCHANGED <<version, sources, manifest, recorded>>

LoseManifest ==
  /\ manifest' \in {"missing", "corrupt"}
  /\ recorded' = [t \in Targets |-> Unrecorded]
  /\ result' = NoResult /\ UNCHANGED <<version, sources, outs>>

\* akcp compile of all targets, see IncrementalCompile.
CompileAll ==
  /\ sources
  /\ outs' = [t \in Targets |-> IF t \in Known THEN version ELSE outs[t]]
  /\ manifest' = "read"
  /\ recorded' = [t \in Targets |-> IF t \in Known THEN version ELSE Unrecorded]
  /\ result' = NoResult /\ UNCHANGED <<version, sources>>

-----------------------------------------------------------------------------
(* reconcile *)

Absent == {t \in Targets : outs[t] = Missing}

\* Only outputs that exist and that the manifest knows can drift.
Drifted == {t \in Targets : recorded[t] # Unrecorded /\ outs[t] # Missing /\ outs[t] # recorded[t]}

\* What a dry run reports.
Differences(hashes) ==
  \/ ~sources \/ Absent # {}
  \/ hashes /\ (manifest # "read" \/ Drifted # {})

\* A mistaken choice: what has drifted is reported and not compiled.
CompileAbsent(hashes) ==
  IF hashes /\ manifest = "missing" THEN Targets ELSE Absent

TargetsToCompile(hashes) ==
  IF ~hashes THEN Absent
  ELSE IF manifest = "missing" THEN Targets
  ELSE Absent \cup Drifted

DryRun(hashes) ==
  /\ result' = [status |-> IF Differences(hashes) THEN "out-of-sync" ELSE "in-sync",
                hashes |-> hashes, dry |-> TRUE, differences |-> Differences(hashes)]
  /\ UNCHANGED <<version, sources, outs, manifest, recorded>>

\* A missing source directory is made, empty.  The manifest that is written has the
\* targets compiled now, and no other.
Apply(hashes) ==
  LET todo == TargetsToCompile(hashes)
      made == todo \cap Known
  IN /\ sources' = TRUE
     /\ outs' = [t \in Targets |-> IF t \in made THEN version ELSE outs[t]]
     /\ manifest' = IF todo = {} THEN manifest ELSE "read"
     /\ recorded' = IF todo = {} THEN recorded
                    ELSE [t \in Targets |-> IF t \in made THEN version ELSE Unrecorded]
     /\ result' = [status |-> "in-sync", hashes |-> hashes, dry |-> FALSE, differences |-> FALSE]
     /\ UNCHANGED version

Next ==
  \/ EditSources \/ LoseSources \/ LoseManifest \/ CompileAll
  \/ \E t \in Targets : EditOutput(t)
  \/ \E hashes \in BOOLEAN : DryRun(hashes) \/ Apply(hashes)

Spec == Init /\ [][Next]_vars

-----------------------------------------------------------------------------
(* Properties *)

\* What an apply calls in sync is so for a dry run of the same kind, with the targets
\* that the program knows and a manifest that can be read.
AppliedIsInSync ==
  result.status = "in-sync" /\ ~result.dry /\ Absent \subseteq Known /\ manifest # "corrupt"
    => ~Differences(result.hashes)

\* While nobody lost the manifest, apply leaves no known target that was in it edited.
ApplyUndoesEdits ==
  [][\A t \in Known : recorded[t] # Unrecorded /\ result' # result /\ result'.hashes /\ ~result'.dry
       => outs'[t] # Edited]_vars

=================================================================================
