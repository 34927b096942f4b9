-------------------------------- MODULE Plugins --------------------------------
(***************************************************************************)
(* A plugin's way from its directory to its effects.  The loader           *)
(* (core/src/plugins/loader.ts) checks the manifest and what the host      *)
(* requires of it, and then imports the entrypoint into the host's own     *)
(* process, where its code does as it likes.  The sandbox                  *)
(* (sandbox-runner.ts) is another way to run code under a manifest: it     *)
(* offers four host calls and reports the permissions that a run has used. *)
(* A path is a sequence of names and "..": symbolic links are left out,    *)
(* and that the context of node:vm is one that code cannot leave through   *)
(* the host's functions is assumed.                                        *)
(***************************************************************************)
EXTENDS Naturals, Sequences, FiniteSets, SequencesExt

CONSTANTS
  Permissions,        \* the permissions a manifest may declare
  Handlers,           \* the calls (fetchUrl, executeMcp) that the host answers
  Root, Paths,        \* the allowed directory and the paths that code asks for
  MaxCalls            \* a bound

PluginsAssumption == Root \in Seq(STRING) /\ MaxCalls \in Nat

VARIABLES
  declared,  \* the permissions of the manifest
  loaded,    \* by the loader: "not", "refused", "imported" or "threw"
  phase,     \* of the sandbox: "found", "running", "returned", "failed" or "refused"
  calls,     \* calls so far
  used,      \* usedPermissions of the sandbox
  effects,   \* what was done: [by, perm, path], by "import" or "sandbox"
  report     \* permissionsUsed of the result, and the effects at that moment
vars == <<declared, loaded, phase, calls, used, effects, report>>

NeedsPath == {"fs:read", "fs:write"}
NoReport == [perms |-> {}, effects |-> {}]

TypeOK ==
  /\ used \subseteq declared /\ calls \in 0 .. MaxCalls
  /\ phase \in {"found", "running", "returned", "failed", "refused"}
  /\ loaded \in {"not", "refused", "imported", "threw"}
  /\ phase \in {"found", "refused"} => \A e \in effects : e.by = "import"
  /\ loaded \in {"not", "refused"} => \A e \in effects : e.by = "sandbox"

Init ==
  /\ declared \in SUBSET Permissions
  /\ loaded = "not" /\ phase = "found" /\ calls = 0 /\ used = {} /\ effects = {} /\ report = NoReport

-----------------------------------------------------------------------------
(* The loader *)

\* A manifest that does not parse, that does not declare what the host requires, or whose
\* entrypoint is not there is refused; any other entrypoint is imported.
LoadPlugin ==
  /\ loaded = "not"
  /\ \E required \in SUBSET Permissions, sound \in BOOLEAN :
       loaded' = IF sound /\ required \subseteq declared THEN "imported" ELSE "refused"
  /\ UNCHANGED <<declared, phase, calls, used, effects, report>>

\* The import throws, be it after the code has done something.
ImportThrows ==
  /\ loaded = "imported" /\ loaded' = "threw"
  /\ UNCHANGED <<declared, phase, calls, used, effects, report>>

-----------------------------------------------------------------------------
(* The sandbox *)

\* Code whose hash is not the expected one does not run.
ExecuteCode ==
  /\ phase = "found"
  /\ \E expected \in BOOLEAN : phase' = IF expected THEN "running" ELSE "refused"
  /\ UNCHANGED <<declared, loaded, calls, used, effects, report>>

\* path.resolve: ".." drops the last name.
Resolve(path) ==
  FoldLeft(LAMBDA at, name : IF name # ".." THEN Append(at, name)
                             ELSE IF at = <<>> THEN at ELSE Front(at),
           Root, path)

\* The mistake of comparing with the root and no separator after it: b is in bx.
Siblings == {<<"b", "bx">>}
ConfinedByText(at) ==
  Len(at) >= Len(Root) /\ \A i \in DOMAIN Root : at[i] = Root[i] \/ (i = Len(Root) /\ <<Root[i], at[i]>> \in Siblings)

\* The root itself or what begins with the root and a separator.
Confined(at) == IsPrefix(Root, at)

Allows(perm) == perm \in declared

Effect(by, perm, path) ==
  [by |-> by, perm |-> perm, path |-> IF perm \in NeedsPath THEN Resolve(path) ELSE <<>>]

\* Imported code asks nobody.
ImportedCode ==
  /\ loaded \in {"imported", "threw"} /\ calls < MaxCalls /\ calls' = calls + 1
  /\ \E perm \in Permissions, path \in Paths : effects' = effects \cup {Effect("import", perm, path)}
  /\ UNCHANGED <<declared, loaded, phase, used, report>>

\* A host call asserts the permission, then confines the path or looks for the handler,
\* then acts.  Code may go on after a call that throws, or fail with it.
Call(perm, path) ==
  LET inside == IF perm \in NeedsPath THEN Confined(Resolve(path)) ELSE perm \in Handlers
  IN /\ calls < MaxCalls /\ calls' = calls + 1
     /\ used' = IF Allows(perm) THEN used \cup {perm} ELSE used
     /\ IF Allows(perm) /\ inside
        THEN /\ effects' = effects \cup {Effect("sandbox", perm, path)}
             /\ phase' = phase
        ELSE effects' = effects /\ phase' \in {phase, IF phase = "running" THEN "failed" ELSE phase}
     /\ UNCHANGED <<declared, loaded, report>>

\* The run ends with a result; or it throws, runs out of time, or does neither.
Return ==
  /\ phase = "running" /\ phase' = "returned"
  /\ report' = [perms |-> used, effects |-> {e \in effects : e.by = "sandbox"}]
  /\ UNCHANGED <<declared, loaded, calls, used, effects>>

Fail ==
  /\ phase = "running" /\ phase' = "failed"
  /\ UNCHANGED <<declared, loaded, calls, used, effects, report>>

\* While it runs, and from a callback after it returned or failed.
HostCall == phase \in {"running", "returned", "failed"} /\ \E perm \in Permissions, path \in Paths : Call(perm, path)

Next == LoadPlugin \/ ImportThrows \/ ImportedCode \/ ExecuteCode \/ HostCall \/ Return \/ Fail

Spec == Init /\ [][Next]_vars

-----------------------------------------------------------------------------
(* Properties *)

\* Whatever code in the sandbox tries, catches and tries again, and whenever, it does
\* nothing that the manifest does not declare, and touches no file out of the allowed
\* directory, be its name the beginning of another's.
EffectsAreDeclared ==
  \A e \in effects :
    e.by = "sandbox" =>
      e.perm \in declared /\ (e.perm \in NeedsPath => SubSeq(e.path, 1, Len(Root)) = Root)

\* The report of a sandboxed run lists the permission of everything that it had done.
ReportCoversRun == \A e \in report.effects : e.perm \in report.perms

\* A plugin that the loader has loaded does nothing that it does not declare
\* (docs/guides/create-connector.md:32).  Not so: its code is imported, and asks nobody.
LoadedKeepsToDeclared == \A e \in effects : e.by = "import" => e.perm \in declared
=================================================================================
