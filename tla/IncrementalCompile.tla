-------------------------- MODULE IncrementalCompile --------------------------
(***************************************************************************)
(* The incremental build of `akcp compile`                                 *)
(* (cli/src/commands/core/compile.ts and core/src/compiler): three files   *)
(* remember the previous build, and no two are written together:           *)
(*                                                                         *)
(*   cache     .akcp/cache/build-state.json: the hash of each document     *)
(*             that NormalizeStage last normalised                         *)
(*   file      the targets.  That of IR, dist/agent-knowledge-ir.json,     *)
(*             is also where NormalizeStage takes the concept of an        *)
(*             unchanged document from                                     *)
(*   manifest  dist/akcp-manifest.json: the hash of sources and config     *)
(*             whose targets need not be generated again                   *)
(*                                                                         *)
(* A document is its version; the hash of a document, and its concept,     *)
(* are that version too.  Documents are edited, and taken back, while      *)
(* builds run; builds overlap, watch, are asked for one target, and fail   *)
(* or are killed between any two steps.                                    *)
(***************************************************************************)
EXTENDS Naturals

CONSTANTS
  Docs,
  Targets,      \* the configured targets
  IR,           \* the target of type context-pack
  NonConcept,   \* those of type policy-bundle and mcp-tools
  Named,        \* those that --target names
  Provenance,   \* the option --provenance
  Builders,     \* processes that build, and may overlap
  None,
  MaxVersion    \* bound: versions of a document and of the config

ASSUME CompileAssumption ==
  /\ NonConcept \subseteq Targets /\ IR \in Targets \ NonConcept
  /\ Named \subseteq Targets
  /\ Provenance \in BOOLEAN
  /\ MaxVersion \in Nat \ {0}

VARIABLES
  src,       \* src[d]: the version of document d on disk
  conf,      \* the version of akcp.yaml
  cache,     \* cache[d]: sourceHash, or None
  file,      \* file[t]: what target t holds, or None
  manifest,  \* source.hash of the manifest, or None
  build,     \* build[b]: where build b is and what it read
  calm       \* history: nothing has disturbed the three files; no action reads it

vars == <<src, conf, cache, file, manifest, build, calm>>

Versions == 1 .. MaxVersion

Contents == [conf : Versions, hashes : [Docs -> Versions], concepts : [Docs -> Versions]]

\* None is no hash, no target and no manifest.
ASSUME NoneAssumption ==
  None \notin Versions \cup Contents \cup ((Versions \cup {None}) \X [Docs -> Versions])

\* targetsToRun: all targets, or those of one type.
Scopes == {Targets} \cup {{t} : t \in Named}

NoBuild ==
  [at |-> "idle", watch |-> FALSE, scope |-> {}, force |-> FALSE, raw |-> None, conf |-> None,
   concepts |-> None, todo |-> {}]

At(b, step) == build[b].at = step
UnderWay(b) == build[b].at \in {"ingested", "normalized", "writing"}
Alone(b) == \A c \in Builders \ {b} : ~UnderWay(c)

Set(b, rec) == build' = [build EXCEPT ![b] = rec]

Init ==
  /\ src = [d \in Docs |-> 1]
  /\ conf = 1
  /\ cache = [d \in Docs |-> None]
  /\ file = [t \in Targets |-> None]
  /\ manifest = None
  /\ build = [b \in Builders |-> NoBuild]
  /\ calm = TRUE

-----------------------------------------------------------------------------
(* The people who write the documents *)

RunHashOf(config, hashes) == <<IF Provenance THEN config ELSE None, hashes>>

\* Target t was generated from these documents and this config.
Holds(t, config, hashes) ==
  file[t] # None /\ file[t].concepts = hashes /\ (Provenance => file[t].conf = config)

\* The manifest stands for what the targets hold.
Agree == manifest # None => \A t \in Targets : Holds(t, manifest[1], manifest[2])

\* It stands for what is on disk.
Back == manifest = RunHashOf(conf, src)

\* An edit disturbs when it takes documents and config back to what the manifest
\* stands for, though targets were generated from others since, or may be.
EditCalm == calm' = (calm /\ (Back' => Agree /\ \A b \in Builders : ~UnderWay(b)))

EditDocument(d) ==
  /\ \E v \in Versions \ {src[d]} : src' = [src EXCEPT ![d] = v]
  /\ UNCHANGED <<conf, cache, file, manifest, build>>
  /\ EditCalm

EditConfig ==
  /\ conf' \in Versions \ {conf}
  /\ UNCHANGED <<src, cache, file, manifest, build>>
  /\ EditCalm

\* rm -r dist, with which everything starts anew.
RemoveOutput ==
  /\ file' = [t \in Targets |-> None] /\ manifest' = None
  /\ UNCHANGED <<src, conf, cache, build>>
  /\ calm' = \A b \in Builders : ~UnderWay(b)

-----------------------------------------------------------------------------
(* A build *)

\* The config is loaded and IngestStage reads the documents.  A build that begins
\* while another one is on its way disturbs.
Ingest(b) ==
  /\ ~UnderWay(b)
  /\ \E s \in Scopes, f \in BOOLEAN :
       Set(b, [NoBuild EXCEPT !.at = "ingested", !.scope = s, !.force = f, !.raw = src, !.conf = conf])
  /\ UNCHANGED <<src, conf, cache, file, manifest>>
  /\ calm' = (calm /\ Alone(b))

\* The watcher of a build that is done begins a rebuild, with the config and the
\* targets of that build; it disturbs too when the config is another one by now.
Rebuild(b) ==
  /\ At(b, "done")
  /\ Set(b, [build[b] EXCEPT !.at = "ingested", !.watch = TRUE, !.force = FALSE, !.raw = src])
  /\ UNCHANGED <<src, conf, cache, file, manifest>>
  /\ calm' = (calm /\ Alone(b) /\ build[b].conf = conf)

\* A mistaken shouldCompile: a document is compiled once.
ShouldCompileOnce(d, hash) == cache[d] = None

ShouldCompile(d, hash) == cache[d] # hash

\* NormalizeStage: the concept of a document that the cache says is unchanged
\* is taken from the IR on disk; the cache is saved before any later stage.
Normalize(b) ==
  /\ At(b, "ingested")
  /\ LET raw == build[b].raw
         reused(d) == ~ShouldCompile(d, raw[d]) /\ file[IR] # None
     IN /\ Set(b, [build[b] EXCEPT !.at = "normalized",
              !.concepts = [d \in Docs |-> IF reused(d) THEN file[IR].concepts[d] ELSE raw[d]]])
        /\ cache' = [d \in Docs |-> IF reused(d) THEN cache[d] ELSE raw[d]]
  /\ UNCHANGED <<src, conf, file, manifest, calm>>

\* A mistaken run hash: that of the sources alone, whatever the options.
RunHashSourcesOnly(b) == <<None, build[b].raw>>

RunHash(b) == RunHashOf(build[b].conf, build[b].raw)

EndBuild(b) == Set(b, [build[b] EXCEPT !.at = "done", !.concepts = None, !.todo = {}])

\* The remaining stages pass, and the manifest says that there is nothing to do.
Skip(b) ==
  /\ At(b, "normalized")
  /\ ~build[b].watch /\ ~build[b].force /\ manifest = RunHash(b)
  /\ EndBuild(b)
  /\ UNCHANGED <<src, conf, cache, file, manifest, calm>>

\* computeWatchImpactPlan for a document that is known: the targets of its concepts.
Affected(scope) == IF scope \subseteq NonConcept THEN scope ELSE scope \ NonConcept

\* Or the targets are generated; a rebuild looks at no manifest.  To leave out some that
\* are configured disturbs, since the manifest will be taken to speak of all.
Proceed(b) ==
  /\ At(b, "normalized")
  /\ build[b].watch \/ build[b].force \/ manifest # RunHash(b)
  /\ \E todo \in {build[b].scope} \cup (IF build[b].watch THEN {Affected(build[b].scope)} ELSE {}) :
       Set(b, [build[b] EXCEPT !.at = "writing", !.todo = todo])
  /\ UNCHANGED <<src, conf, cache, file, manifest>>
  /\ calm' = (calm /\ build[b].scope = Targets)

WriteTarget(b) ==
  /\ At(b, "writing")
  /\ \E t \in build[b].todo :
       /\ file' = [file EXCEPT ![t] = [conf |-> build[b].conf, hashes |-> build[b].raw,
                                       concepts |-> build[b].concepts]]
       /\ Set(b, [build[b] EXCEPT !.todo = @ \ {t}])
  /\ UNCHANGED <<src, conf, cache, manifest, calm>>

\* The manifest is the last to be written; the watcher writes none.
Finish(b) ==
  /\ At(b, "writing") /\ build[b].todo = {}
  /\ manifest' = IF build[b].watch THEN manifest ELSE RunHash(b)
  /\ EndBuild(b)
  /\ UNCHANGED <<src, conf, cache, file, calm>>

\* Between the save of the cache and the write of the IR.
IRPending(b) == At(b, "normalized") \/ (At(b, "writing") /\ IR \in build[b].todo)

\* A stage or a target throws, or the process is killed; a watcher survives a
\* stage that fails.  Between the cache and the IR this disturbs, if there is an IR.
Stop(b) ==
  /\ UnderWay(b)
  /\ Set(b, NoBuild) \/ (build[b].watch /\ EndBuild(b))
  /\ UNCHANGED <<src, conf, cache, file, manifest>>
  /\ calm' = (calm /\ (IRPending(b) => file[IR] = None))

Next ==
  \/ EditConfig \/ RemoveOutput
  \/ \E d \in Docs : EditDocument(d)
  \/ \E b \in Builders :
       \/ Ingest(b) \/ Rebuild(b) \/ Normalize(b) \/ Skip(b) \/ Proceed(b)
       \/ WriteTarget(b) \/ Finish(b) \/ Stop(b)

Spec == Init /\ [][Next]_vars

(***************************************************************************)
(* Properties                                                              *)
(***************************************************************************)

TypeOK ==
  /\ src \in [Docs -> Versions]
  /\ conf \in Versions
  /\ cache \in [Docs -> Versions \cup {None}]
  /\ file \in [Targets -> Contents \cup {None}]
  /\ calm \in BOOLEAN
  /\ \A b \in Builders :
       /\ build[b].scope \in Scopes \cup {{}} /\ build[b].todo \subseteq Targets
       /\ At(b, "idle") \/ build[b].raw \in [Docs -> Versions]
       /\ At(b, "writing") => build[b].concepts \in [Docs -> Versions]

\* Build b ends, having trusted the manifest or written all it had to.
Ends(b) ==
  /\ (At(b, "normalized") /\ ~build[b].watch) \/ (At(b, "writing") /\ build[b].todo = {})
  /\ At(b, "done")'

\* When a build ends, every target holds the documents and the config that it read,
\* whatever was edited, failed or was killed before; when a rebuild of the watcher ends,
\* those of concepts do.  Unless something disturbed since dist was last removed.
FreshWhenDone ==
  [][\A b \in Builders : calm /\ Ends(b) =>
       \A t \in IF build[b].watch THEN Targets \ NonConcept ELSE Targets :
         Holds(t, build[b].conf, build[b].raw)']_vars

\* A concept is never older than the hash that stands beside it in a target,
\* and the cache vouches only for concepts that the IR holds: what NormalizeStage
\* relies on when it skips a document (93-109).
CacheMatchesIR ==
  /\ \A t \in Targets : file[t] # None => file[t].concepts = file[t].hashes
  /\ (\A b \in Builders : ~IRPending(b)) =>
       \A d \in Docs : (cache[d] # None /\ file[IR] # None) => file[IR].concepts[d] = cache[d]

\* The cache, the IR and the targets hold no concept under another hash, unless
\* something disturbed since dist was last removed.
CacheIsRight == TypeOK /\ (calm => CacheMatchesIR)

\* docs/reference/cli.md: --force bypasses the incremental-build cache.
ForcedBuildFresh ==
  \A b \in Builders : (At(b, "done") /\ build[b].force /\ build[b].scope = Targets /\ file[IR] # None) =>
    file[IR].concepts = build[b].raw

==============================================================================
