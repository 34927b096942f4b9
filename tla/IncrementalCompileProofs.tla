----------------------- MODULE IncrementalCompileProofs -----------------------
(* What the three files of the incremental build keep until something disturbs  *)
(* them, for any documents, targets, versions and builds.                       *)
EXTENDS IncrementalCompile, TLAPS

Hashes == [Docs -> Versions]
RunHashes == (Versions \cup {None}) \X Hashes

Steps == {"idle", "ingested", "normalized", "writing", "done"}

Builds ==
  [at : Steps, watch : BOOLEAN, scope : Scopes \cup {{}}, force : BOOLEAN,
   raw : Hashes \cup {None}, conf : Versions \cup {None}, concepts : Hashes \cup {None},
   todo : SUBSET Targets]

\* TypeOK, and the types of what it leaves out.
Typed ==
  /\ TypeOK
  /\ manifest \in {None} \cup RunHashes
  /\ build \in [Builders -> Builds]
  /\ \A b \in Builders : ~At(b, "idle") => build[b].raw \in Hashes /\ build[b].conf \in Versions
  /\ \A b \in Builders : At(b, "normalized") \/ At(b, "writing") => build[b].concepts \in Hashes

Vouched == \A d \in Docs : (cache[d] # None /\ file[IR] # None) => file[IR].concepts[d] = cache[d]

\* A target holds what it says it holds.
SoundTargets == \A t \in Targets : file[t] # None => file[t].concepts = file[t].hashes

\* A build that is on its way is the only one.  It read what the manifest stands for, and
\* then the targets hold that, or documents and config are not what it stands for.  The
\* cache is of what it read, and so is every target that it need not write any more.
BuildSound(b) ==
  LET k == build[b] IN
  UnderWay(b) =>
    /\ Alone(b)
    /\ Back => manifest = RunHash(b)
    /\ manifest = RunHash(b) => Agree
    /\ k.at \in {"normalized", "writing"} => k.concepts = k.raw /\ \A d \in Docs : cache[d] = k.raw[d]
    /\ k.at = "writing" => \A t \in Targets \ k.todo :
         \/ k.watch /\ t \in NonConcept
         \/ file[t] = [conf |-> k.conf, hashes |-> k.raw, concepts |-> k.raw]

Quiet == \A b \in Builders : build[b].at \notin {"normalized", "writing"}

\* What holds until something disturbs.
Sound ==
  calm =>
    /\ SoundTargets
    /\ Back => Agree
    /\ \A b \in Builders : BuildSound(b)
    /\ Quiet => Vouched

-----------------------------------------------------------------------------
(* Types *)

LEMMA SetMember ==
  ASSUME NEW b \in Builders, NEW k \in Builds, build \in [Builders -> Builds], Set(b, k)
  PROVE  build' \in [Builders -> Builds] /\ build'[b] = k /\ \A c \in Builders \ {b} : build'[c] = build[c]
BY DEF Set

LEMMA RunHashTyped ==
  ASSUME NEW c \in Versions, NEW h \in Hashes
  PROVE  /\ RunHashOf(c, h) \in RunHashes /\ RunHashOf(c, h) # None
         /\ RunHashOf(c, h)[2] = h /\ (Provenance => RunHashOf(c, h)[1] = c)
BY NoneAssumption DEF RunHashOf, RunHashes, Hashes

LEMMA NoBuildTyped == NoBuild \in Builds /\ NoBuild.at = "idle"
BY DEF NoBuild, Builds, Steps

LEMMA InitTyped == Init => Typed
<1> SUFFICES ASSUME Init PROVE Typed
  OBVIOUS
<1> USE CompileAssumption, NoneAssumption DEF Versions
<1>1. build \in [Builders -> Builds] /\ \A b \in Builders : build[b] = NoBuild
  BY NoBuildTyped DEF Init
<1>2. \A b \in Builders : At(b, "idle")
  BY <1>1 DEF At, NoBuild
<1>3. TypeOK
  BY <1>1, <1>2 DEF Init, TypeOK, Contents, At, NoBuild
<1> QED BY <1>1, <1>2, <1>3 DEF Init, Typed, At

\* A step that only changes a build, into another one that is well typed.
LEMMA BuildTyped ==
  ASSUME Typed, NEW b \in Builders, NEW k \in Builds, Set(b, k),
         k.at # "idle" => k.raw \in Hashes /\ k.conf \in Versions,
         k.at \in {"normalized", "writing"} => k.concepts \in Hashes,
         src' \in Hashes, conf' \in Versions, cache' \in [Docs -> Versions \cup {None}],
         file' \in [Targets -> Contents \cup {None}], calm' \in BOOLEAN,
         manifest' \in {None} \cup RunHashes
  PROVE  Typed'
<1>1. build' \in [Builders -> Builds] /\ build'[b] = k /\ \A c \in Builders \ {b} : build'[c] = build[c]
  BY SetMember DEF Typed
<1>2. ASSUME NEW c \in Builders
      PROVE  /\ build'[c].at # "idle" => build'[c].raw \in Hashes /\ build'[c].conf \in Versions
             /\ build'[c].at \in {"normalized", "writing"} => build'[c].concepts \in Hashes
             /\ build'[c].scope \in Scopes \cup {{}} /\ build'[c].todo \subseteq Targets
  BY <1>1 DEF Typed, At, Builds
<1>3. TypeOK'
  BY <1>2 DEF TypeOK, At, Hashes
<1> QED BY <1>1, <1>2, <1>3 DEF Typed, At

\* How the steps of a build change its record.
LEMMA IngestMoves ==
  ASSUME Typed, NEW b \in Builders, Ingest(b)
  PROVE  \E k \in Builds :
           /\ Set(b, k) /\ k.at = "ingested" /\ k.raw = src /\ k.conf = conf /\ ~k.watch
<1>1. PICK s \in Scopes, f \in BOOLEAN :
        Set(b, [NoBuild EXCEPT !.at = "ingested", !.scope = s, !.force = f, !.raw = src, !.conf = conf])
  BY DEF Ingest
<1> DEFINE k == [NoBuild EXCEPT !.at = "ingested", !.scope = s, !.force = f, !.raw = src, !.conf = conf]
<1>2. k \in Builds /\ k.at = "ingested" /\ k.raw = src /\ k.conf = conf /\ ~k.watch
  BY DEF Typed, TypeOK, Hashes, NoBuild, Builds, Steps
<1>3. Set(b, k)
  BY <1>1
<1> HIDE DEF k
<1> QED BY <1>2, <1>3

LEMMA RebuildMoves ==
  ASSUME Typed, NEW b \in Builders, Rebuild(b)
  PROVE  \E k \in Builds :
           /\ Set(b, k) /\ k.at = "ingested" /\ k.raw = src /\ k.conf = build[b].conf /\ k.watch
<1> DEFINE k == [build[b] EXCEPT !.at = "ingested", !.watch = TRUE, !.force = FALSE, !.raw = src]
<1>1. k \in Builds /\ k.at = "ingested" /\ k.raw = src /\ k.conf = build[b].conf /\ k.watch
  BY DEF Typed, TypeOK, Hashes, Builds, Steps
<1>2. Set(b, k)
  BY DEF Rebuild
<1> HIDE DEF k
<1> QED BY <1>1, <1>2

LEMMA EndMoves ==
  ASSUME Typed, NEW b \in Builders, EndBuild(b)
  PROVE  \E k \in Builds :
           /\ Set(b, k) /\ k.at = "done" /\ k.raw = build[b].raw /\ k.conf = build[b].conf
           /\ k.watch = build[b].watch
<1> DEFINE k == [build[b] EXCEPT !.at = "done", !.concepts = None, !.todo = {}]
<1>1. /\ k \in Builds /\ k.at = "done" /\ k.raw = build[b].raw /\ k.conf = build[b].conf
      /\ k.watch = build[b].watch
  BY DEF Typed, Builds, Steps
<1>2. Set(b, k)
  BY DEF EndBuild
<1> HIDE DEF k
<1> QED BY <1>1, <1>2

LEMMA NormalizeMoves ==
  ASSUME Typed, NEW b \in Builders, Normalize(b)
  PROVE  \E k \in Builds :
           /\ Set(b, k) /\ k.at = "normalized" /\ k.raw = build[b].raw /\ k.conf = build[b].conf
           /\ k.watch = build[b].watch /\ k.concepts \in Hashes
           /\ \A d \in Docs :
                \/ k.concepts[d] = k.raw[d] /\ cache'[d] = k.raw[d]
                \/ /\ cache[d] = k.raw[d] /\ file[IR] # None
                   /\ k.concepts[d] = file[IR].concepts[d] /\ cache'[d] = cache[d]
<1> DEFINE raw == build[b].raw
           reused(d) == ~ShouldCompile(d, raw[d]) /\ file[IR] # None
           cs == [d \in Docs |-> IF reused(d) THEN file[IR].concepts[d] ELSE raw[d]]
           k == [build[b] EXCEPT !.at = "normalized", !.concepts = cs]
<1>1. raw \in Hashes /\ build[b] \in Builds
  BY DEF Normalize, At, Typed
<1>2. cs \in Hashes
  <2>1. file[IR] # None => file[IR].concepts \in Hashes
    BY CompileAssumption DEF Typed, TypeOK, Contents, Hashes
  <2> QED BY <1>1, <2>1 DEF Hashes
<1>3. cache' = [d \in Docs |-> IF reused(d) THEN cache[d] ELSE raw[d]] /\ Set(b, k)
  BY DEF Normalize
<1>4. \A d \in Docs : \/ cs[d] = raw[d] /\ cache'[d] = raw[d]
                      \/ /\ cache[d] = raw[d] /\ file[IR] # None
                         /\ cs[d] = file[IR].concepts[d] /\ cache'[d] = cache[d]
  BY <1>3 DEF ShouldCompile
<1> HIDE DEF cs
<1>5. /\ k \in Builds /\ k.at = "normalized" /\ k.concepts = cs /\ k.raw = raw /\ k.conf = build[b].conf
      /\ k.watch = build[b].watch
  BY <1>1, <1>2 DEF Builds, Steps
<1> HIDE DEF k, raw
<1> QED BY <1>2, <1>3, <1>4, <1>5 DEF raw

LEMMA ProceedMoves ==
  ASSUME Typed, NEW b \in Builders, Proceed(b)
  PROVE  \E k \in Builds :
           /\ Set(b, k) /\ k.at = "writing" /\ k.raw = build[b].raw /\ k.conf = build[b].conf
           /\ k.watch = build[b].watch /\ k.concepts = build[b].concepts
           /\ k.todo = build[b].scope \/ (k.watch /\ k.todo = Affected(build[b].scope))
<1>1. PICK todo \in {build[b].scope} \cup (IF build[b].watch THEN {Affected(build[b].scope)} ELSE {}) :
        Set(b, [build[b] EXCEPT !.at = "writing", !.todo = todo])
  BY DEF Proceed
<1> DEFINE k == [build[b] EXCEPT !.at = "writing", !.todo = todo]
<1>2. build[b] \in Builds /\ build[b].scope \subseteq Targets
  BY CompileAssumption DEF Typed, Builds, Scopes
<1>3. todo \subseteq Targets
  BY <1>1, <1>2 DEF Affected
<1>4. /\ k \in Builds /\ k.at = "writing" /\ k.raw = build[b].raw /\ k.conf = build[b].conf
      /\ k.watch = build[b].watch /\ k.concepts = build[b].concepts /\ k.todo = todo
  BY <1>2, <1>3 DEF Builds, Steps
<1>5. todo = build[b].scope \/ (build[b].watch /\ todo = Affected(build[b].scope))
  BY <1>1
<1>6. Set(b, k)
  BY <1>1
<1> HIDE DEF k
<1> QED BY <1>4, <1>5, <1>6

LEMMA WriteMoves ==
  ASSUME Typed, NEW b \in Builders, WriteTarget(b)
  PROVE  \E k \in Builds, t \in Targets :
           /\ Set(b, k) /\ k.at = "writing" /\ k.raw = build[b].raw /\ k.conf = build[b].conf
           /\ k.watch = build[b].watch /\ k.concepts = build[b].concepts
           /\ t \in build[b].todo /\ k.todo = build[b].todo \ {t}
           /\ file' = [file EXCEPT ![t] = [conf |-> k.conf, hashes |-> k.raw, concepts |-> k.concepts]]
<1>1. PICK t \in build[b].todo :
        /\ file' = [file EXCEPT ![t] = [conf |-> build[b].conf, hashes |-> build[b].raw,
                                        concepts |-> build[b].concepts]]
        /\ Set(b, [build[b] EXCEPT !.todo = @ \ {t}])
  BY DEF WriteTarget
<1> DEFINE k == [build[b] EXCEPT !.todo = @ \ {t}]
<1>2. build[b] \in Builds /\ build[b].at = "writing" /\ t \in Targets
  BY DEF Typed, Builds, WriteTarget, At
<1>3. /\ k \in Builds /\ k.at = "writing" /\ k.raw = build[b].raw /\ k.conf = build[b].conf
      /\ k.watch = build[b].watch /\ k.concepts = build[b].concepts /\ k.todo = build[b].todo \ {t}
  BY <1>2 DEF Builds
<1>4. Set(b, k)
  BY <1>1
<1> HIDE DEF k
<1> QED BY <1>1, <1>2, <1>3, <1>4

LEMMA StepTyped == Typed /\ [Next]_vars => Typed'
<1> SUFFICES ASSUME Typed, [Next]_vars PROVE Typed'
  OBVIOUS
<1>0. /\ src \in Hashes /\ conf \in Versions /\ cache \in [Docs -> Versions \cup {None}]
      /\ file \in [Targets -> Contents \cup {None}] /\ build \in [Builders -> Builds] /\ calm \in BOOLEAN
      /\ manifest \in {None} \cup RunHashes
  BY DEF Typed, TypeOK, Hashes
<1>1. CASE UNCHANGED vars
  BY <1>1 DEF vars, Typed, TypeOK, At
<1>2. CASE EditConfig \/ \E d \in Docs : EditDocument(d)
  <2>1. /\ UNCHANGED <<cache, file, manifest, build>> /\ src' \in Hashes /\ conf' \in Versions
        /\ calm' \in BOOLEAN
    BY <1>0, <1>2 DEF EditConfig, EditDocument, EditCalm, Hashes
  <2> QED BY <2>1 DEF Typed, TypeOK, At, Hashes
<1>3. CASE RemoveOutput
  <2>1. /\ UNCHANGED <<src, conf, cache, build>> /\ file' \in [Targets -> Contents \cup {None}]
        /\ manifest' = None /\ calm' \in BOOLEAN
    BY <1>3 DEF RemoveOutput
  <2> QED BY <2>1 DEF Typed, TypeOK, At
<1>4. ASSUME NEW b \in Builders, Ingest(b) PROVE Typed'
  <2>1. calm' \in BOOLEAN /\ UNCHANGED <<src, conf, cache, file, manifest>>
    BY <1>4 DEF Ingest
  <2> QED BY <1>0, <1>4, <2>1, IngestMoves, BuildTyped
<1>5. ASSUME NEW b \in Builders, Rebuild(b) PROVE Typed'
  <2>1. /\ calm' \in BOOLEAN /\ UNCHANGED <<src, conf, cache, file, manifest>>
        /\ build[b].conf \in Versions
    BY <1>5 DEF Rebuild, Typed, At
  <2> QED BY <1>0, <1>5, <2>1, RebuildMoves, BuildTyped
<1>6. ASSUME NEW b \in Builders, Normalize(b) PROVE Typed'
  <2>1. /\ UNCHANGED <<src, conf, file, manifest, calm>>
        /\ build[b].raw \in Hashes /\ build[b].conf \in Versions
    BY <1>6 DEF Normalize, Typed, At
  <2>2. cache' \in [Docs -> Versions \cup {None}]
    BY <1>0, <1>6, <2>1 DEF Normalize, Hashes
  <2> QED BY <1>0, <1>6, <2>1, <2>2, NormalizeMoves, BuildTyped
<1>7. ASSUME NEW b \in Builders, UnderWay(b), EndBuild(b), UNCHANGED <<src, conf, cache, file>>,
             manifest' \in {None} \cup RunHashes, calm' \in BOOLEAN
      PROVE  Typed'
  <2>1. build[b].raw \in Hashes /\ build[b].conf \in Versions
    BY <1>7 DEF UnderWay, Typed, At
  <2> QED BY <1>0, <1>7, <2>1, EndMoves, BuildTyped
<1>8. ASSUME NEW b \in Builders, Skip(b) PROVE Typed'
  BY <1>0, <1>7, <1>8 DEF Skip, At, UnderWay
<1>9. ASSUME NEW b \in Builders, Proceed(b) PROVE Typed'
  <2>1. /\ calm' \in BOOLEAN /\ UNCHANGED <<src, conf, cache, file, manifest>>
        /\ build[b].raw \in Hashes /\ build[b].conf \in Versions /\ build[b].concepts \in Hashes
    BY <1>9 DEF Proceed, Typed, At
  <2> QED BY <1>0, <1>9, <2>1, ProceedMoves, BuildTyped
<1>10. ASSUME NEW b \in Builders, WriteTarget(b) PROVE Typed'
  <2>1. /\ UNCHANGED <<src, conf, cache, manifest, calm>>
        /\ build[b].raw \in Hashes /\ build[b].conf \in Versions /\ build[b].concepts \in Hashes
    BY <1>10 DEF WriteTarget, Typed, At
  <2>2. file' \in [Targets -> Contents \cup {None}]
    BY <1>0, <1>10, <2>1, WriteMoves DEF Contents, Hashes
  <2> QED BY <1>0, <1>10, <2>1, <2>2, WriteMoves, BuildTyped
<1>11. ASSUME NEW b \in Builders, Finish(b) PROVE Typed'
  <2>1. build[b].raw \in Hashes /\ build[b].conf \in Versions
    BY <1>11 DEF Finish, Typed, At
  <2>2. manifest' \in {None} \cup RunHashes
    BY <1>0, <1>11, <2>1, RunHashTyped DEF Finish, RunHash
  <2> QED BY <1>0, <1>7, <1>11, <2>2 DEF Finish, At, UnderWay
<1>12. ASSUME NEW b \in Builders, Stop(b) PROVE Typed'
  <2>1. calm' \in BOOLEAN /\ UNCHANGED <<src, conf, cache, file, manifest>>
    BY <1>12 DEF Stop
  <2>2. CASE Set(b, NoBuild)
    BY <1>0, <2>1, <2>2, NoBuildTyped, BuildTyped
  <2>3. CASE EndBuild(b)
    BY <1>0, <1>7, <1>12, <2>1, <2>3 DEF Stop
  <2> QED BY <1>12, <2>2, <2>3 DEF Stop
<1> QED BY <1>1, <1>2, <1>3, <1>4, <1>5, <1>6, <1>8, <1>9, <1>10, <1>11, <1>12 DEF Next

\* The three files and what each build has read keep their types, whatever overlaps,
\* stops or is edited meanwhile.
THEOREM TypeCorrect == Spec => []TypeOK
<1>1. Typed => TypeOK
  BY DEF Typed
<1> QED BY <1>1, InitTyped, StepTyped, PTL DEF Spec

-----------------------------------------------------------------------------
(* What the files say of each other *)

\* Nothing but a build on its way to the IR makes the cache differ from it.
LEMMA VouchedUnlessPending ==
  ASSUME Typed, Sound, calm, \A b \in Builders : ~IRPending(b)
  PROVE  Vouched
<1>1. CASE Quiet
  BY <1>1 DEF Sound
<1>2. ASSUME NEW b \in Builders, build[b].at \in {"normalized", "writing"} PROVE Vouched
  <2>1. build[b].at = "writing" /\ IR \notin build[b].todo
    BY <1>2 DEF IRPending, At
  <2>2. BuildSound(b) /\ UnderWay(b)
    BY <1>2 DEF Sound, UnderWay
  <2>3. file[IR] = [conf |-> build[b].conf, hashes |-> build[b].raw, concepts |-> build[b].raw]
        /\ \A d \in Docs : cache[d] = build[b].raw[d]
    BY <2>1, <2>2, CompileAssumption DEF BuildSound
  <2> QED BY <2>3 DEF Vouched
<1> QED BY <1>1, <1>2 DEF Quiet

\* What holds of the only build that is on its way is all there is.
LEMMA OfTheBuild ==
  ASSUME NEW b \in Builders, SoundTargets', (Back => Agree)', Alone(b)', BuildSound(b)', (Quiet => Vouched)'
  PROVE  Sound'
BY DEF Alone, BuildSound, Sound

\* When none is.
LEMMA NoneUnderWay ==
  ASSUME SoundTargets', (Back => Agree)', \A b \in Builders : ~UnderWay(b)', (Quiet => Vouched)'
  PROVE  Sound'
BY DEF BuildSound, Sound

LEMMA InitSound == Init => Sound
<1> SUFFICES ASSUME Init PROVE Sound
  OBVIOUS
<1>1. \A b \in Builders : ~UnderWay(b)
  BY DEF Init, NoBuild, UnderWay
<1>2. IR \in Targets
  BY CompileAssumption
<1> QED BY <1>1, <1>2 DEF Init, Sound, SoundTargets, Agree, BuildSound, Vouched

LEMMA EditSound ==
  ASSUME Typed, Sound, EditConfig \/ \E d \in Docs : EditDocument(d)
  PROVE  Sound'
<1> SUFFICES ASSUME calm' PROVE Sound'
  BY DEF Sound
<1>1. /\ UNCHANGED <<cache, file, manifest, build>>
      /\ calm /\ (Back' => Agree /\ \A b \in Builders : ~UnderWay(b))
  BY DEF EditConfig, EditDocument, EditCalm
<1>2. ASSUME NEW b \in Builders PROVE BuildSound(b)'
  BY <1>1 DEF Sound, BuildSound, UnderWay, Alone, RunHash, RunHashOf, Agree, Holds
<1>3. (Back => Agree)'
  BY <1>1 DEF Agree, Holds
<1> QED BY <1>1, <1>2, <1>3 DEF Sound, SoundTargets, Quiet, Vouched

LEMMA RemoveSound ==
  ASSUME Typed, RemoveOutput
  PROVE  Sound'
<1> SUFFICES ASSUME calm' PROVE Sound'
  BY DEF Sound
<1>1. /\ UNCHANGED build /\ manifest' = None /\ \A b \in Builders : ~UnderWay(b)
      /\ \A t \in Targets : file'[t] = None
  BY DEF RemoveOutput
<1>2. \A b \in Builders : ~UnderWay(b)'
  BY <1>1 DEF UnderWay
<1>3. IR \in Targets
  BY CompileAssumption
<1> QED BY <1>1, <1>2, <1>3, NoneUnderWay DEF SoundTargets, Agree, Vouched

\* A build that begins alone, with the config of the disk.
LEMMA BeginSound ==
  ASSUME Typed, Sound, NEW b \in Builders, NEW k \in Builds, Set(b, k), ~UnderWay(b),
         k.at = "ingested", k.raw = src, UNCHANGED <<src, conf, cache, file, manifest>>,
         calm' => calm /\ Alone(b) /\ k.conf = conf
  PROVE  Sound'
<1> SUFFICES ASSUME calm' PROVE Sound'
  BY DEF Sound
<1>1. build'[b] = k /\ \A c \in Builders \ {b} : build'[c] = build[c]
  BY SetMember DEF Typed
<1>2. Alone(b)' /\ \A c \in Builders : ~UnderWay(c)
  BY <1>1 DEF Alone, UnderWay
<1>3. Quiet /\ Vouched
  BY <1>2 DEF UnderWay, Quiet, Sound
<1>4. (Back => Agree)' /\ SoundTargets'
  BY DEF Sound, Back, RunHashOf, Agree, Holds, SoundTargets
<1>5. RunHash(b)' = RunHashOf(conf, src) /\ build'[b].at = "ingested"
  BY <1>1 DEF RunHash, RunHashOf
<1>6. BuildSound(b)'
  BY <1>2, <1>4, <1>5 DEF BuildSound, Back, RunHashOf
<1>7. Vouched'
  BY <1>3 DEF Vouched
<1> QED BY <1>2, <1>4, <1>6, <1>7, OfTheBuild

LEMMA IngestSound ==
  ASSUME Typed, Sound, NEW b \in Builders, Ingest(b)
  PROVE  Sound'
<1>1. /\ ~UnderWay(b) /\ UNCHANGED <<src, conf, cache, file, manifest>>
      /\ calm' = (calm /\ Alone(b))
  BY DEF Ingest
<1> QED BY <1>1, IngestMoves, BeginSound

LEMMA RebuildSound ==
  ASSUME Typed, Sound, NEW b \in Builders, Rebuild(b)
  PROVE  Sound'
<1>1. /\ ~UnderWay(b) /\ UNCHANGED <<src, conf, cache, file, manifest>>
      /\ calm' = (calm /\ Alone(b) /\ build[b].conf = conf)
  BY DEF Rebuild, At, UnderWay
<1> QED BY <1>1, RebuildMoves, BeginSound

\* A step of the build on its way that leaves the disk alone but for its cache: what was
\* said of its manifest and of the others stays.
LEMMA SameBuild ==
  ASSUME Typed, Sound, calm, NEW b \in Builders, UnderWay(b), NEW k \in Builds, Set(b, k), UnderWay(b)',
         k.raw = build[b].raw, k.conf = build[b].conf, k.watch = build[b].watch,
         UNCHANGED <<src, conf, manifest>>
  PROVE  /\ Alone(b)' /\ build'[b] = k
         /\ Back' = Back /\ RunHash(b)' = RunHash(b)
         /\ Back => manifest = RunHash(b)
         /\ manifest = RunHash(b) => Agree
<1>1. build'[b] = k /\ \A c \in Builders \ {b} : build'[c] = build[c]
  BY SetMember DEF Typed
<1>2. /\ Alone(b)
      /\ Back => manifest = RunHash(b)
      /\ manifest = RunHash(b) => Agree
  BY DEF Sound, BuildSound
<1>3. Alone(b)'
  BY <1>1, <1>2 DEF Alone, UnderWay
<1>4. Back' = Back /\ RunHash(b)' = RunHash(b)
  BY <1>1 DEF Back, RunHash, RunHashOf
<1> QED BY <1>1, <1>2, <1>3, <1>4

\* What NormalizeStage takes from the IR is what it would have made of the document.
LEMMA NormalizeSound ==
  ASSUME Typed, Sound, NEW b \in Builders, Normalize(b)
  PROVE  Sound'
<1> SUFFICES ASSUME calm' PROVE Sound'
  BY DEF Sound
<1>1. /\ build[b].at = "ingested" /\ UnderWay(b) /\ build[b].raw \in Hashes /\ calm
      /\ UNCHANGED <<src, conf, file, manifest>>
  BY DEF Normalize, Typed, At, UnderWay
<1>2. Quiet /\ Vouched
  BY <1>1 DEF Sound, BuildSound, Alone, UnderWay, Quiet
<1>3. PICK k \in Builds :
        /\ Set(b, k) /\ k.at = "normalized" /\ k.raw = build[b].raw /\ k.conf = build[b].conf
        /\ k.watch = build[b].watch /\ k.concepts \in Hashes
        /\ \A d \in Docs :
             \/ k.concepts[d] = k.raw[d] /\ cache'[d] = k.raw[d]
             \/ /\ cache[d] = k.raw[d] /\ file[IR] # None
                /\ k.concepts[d] = file[IR].concepts[d] /\ cache'[d] = cache[d]
  BY NormalizeMoves
<1>4. \A d \in Docs : k.concepts[d] = k.raw[d] /\ cache'[d] = k.raw[d]
  <2> SUFFICES ASSUME NEW d \in Docs, cache[d] = k.raw[d], file[IR] # None
               PROVE  file[IR].concepts[d] = k.raw[d]
    BY <1>3
  <2>1. k.raw[d] # None
    BY <1>1, <1>3, NoneAssumption DEF Hashes
  <2> QED BY <1>2, <2>1 DEF Vouched
<1>5. k.concepts = k.raw
  BY <1>1, <1>3, <1>4 DEF Hashes
<1>6. build'[b] = k
  BY <1>3, SetMember DEF Typed
<1>7. UnderWay(b)'
  BY <1>3, <1>6 DEF UnderWay
<1>8. /\ Alone(b)' /\ Back' = Back /\ RunHash(b)' = RunHash(b)
      /\ Back => manifest = RunHash(b)
      /\ manifest = RunHash(b) => Agree
  BY <1>1, <1>3, <1>7, SameBuild
<1>9. Agree' = Agree /\ SoundTargets' /\ (Back => Agree)
  BY <1>1 DEF Agree, Holds, Sound, SoundTargets
<1>10. BuildSound(b)'
  BY <1>1, <1>3, <1>4, <1>5, <1>6, <1>8, <1>9 DEF BuildSound
<1>11. ~Quiet'
  BY <1>3, <1>6 DEF Quiet
<1> QED BY <1>8, <1>9, <1>10, <1>11, OfTheBuild

LEMMA ProceedSound ==
  ASSUME Typed, Sound, NEW b \in Builders, Proceed(b)
  PROVE  Sound'
<1> SUFFICES ASSUME calm' PROVE Sound'
  BY DEF Sound
<1>1. /\ build[b].at = "normalized" /\ UnderWay(b) /\ calm /\ build[b].scope = Targets
      /\ UNCHANGED <<src, conf, cache, file, manifest>>
  BY DEF Proceed, At, UnderWay
<1>2. PICK k \in Builds :
        /\ Set(b, k) /\ k.at = "writing" /\ k.raw = build[b].raw /\ k.conf = build[b].conf
        /\ k.watch = build[b].watch /\ k.concepts = build[b].concepts
        /\ k.todo = build[b].scope \/ (k.watch /\ k.todo = Affected(build[b].scope))
  BY ProceedMoves
<1>3. k.todo = Targets \/ (k.watch /\ k.todo = Targets \ NonConcept)
  BY <1>1, <1>2, CompileAssumption DEF Affected
<1>4. build'[b] = k
  BY <1>2, SetMember DEF Typed
<1>5. UnderWay(b)'
  BY <1>2, <1>4 DEF UnderWay
<1>6. /\ Alone(b)' /\ Back' = Back /\ RunHash(b)' = RunHash(b)
      /\ Back => manifest = RunHash(b)
      /\ manifest = RunHash(b) => Agree
  BY <1>1, <1>2, <1>5, SameBuild
<1>7. Agree' = Agree /\ SoundTargets' /\ (Back => Agree)
  BY <1>1 DEF Agree, Holds, Sound, SoundTargets
<1>8. k.concepts = k.raw /\ \A d \in Docs : cache[d] = k.raw[d]
  BY <1>1, <1>2 DEF Sound, BuildSound
<1>9. BuildSound(b)'
  BY <1>1, <1>2, <1>3, <1>4, <1>6, <1>7, <1>8 DEF BuildSound
<1>10. ~Quiet'
  BY <1>2, <1>4 DEF Quiet
<1> QED BY <1>6, <1>7, <1>9, <1>10, OfTheBuild

\* What was written is of the manifest if that is what the build read, and else documents
\* and config are not what the manifest stands for.
LEMMA WriteTargetSound ==
  ASSUME Typed, Sound, NEW b \in Builders, WriteTarget(b)
  PROVE  Sound'
<1> SUFFICES ASSUME calm' PROVE Sound'
  BY DEF Sound
<1>1. /\ build[b].at = "writing" /\ UnderWay(b) /\ calm
      /\ build[b].raw \in Hashes /\ build[b].conf \in Versions
      /\ UNCHANGED <<src, conf, cache, manifest>>
  BY DEF WriteTarget, At, UnderWay, Typed
<1>2. PICK k \in Builds, t \in Targets :
        /\ Set(b, k) /\ k.at = "writing" /\ k.raw = build[b].raw /\ k.conf = build[b].conf
        /\ k.watch = build[b].watch /\ k.concepts = build[b].concepts
        /\ t \in build[b].todo /\ k.todo = build[b].todo \ {t}
        /\ file' = [file EXCEPT ![t] = [conf |-> k.conf, hashes |-> k.raw, concepts |-> k.concepts]]
  BY WriteMoves
<1>3. build'[b] = k
  BY <1>2, SetMember DEF Typed
<1>4. UnderWay(b)'
  BY <1>2, <1>3 DEF UnderWay
<1>5. /\ Alone(b)' /\ Back' = Back /\ RunHash(b)' = RunHash(b)
      /\ Back => manifest = RunHash(b)
      /\ manifest = RunHash(b) => Agree
  BY <1>1, <1>2, <1>4, SameBuild
<1>6. k.concepts = k.raw /\ \A d \in Docs : cache[d] = k.raw[d]
  BY <1>1, <1>2 DEF Sound, BuildSound
<1>7. PICK w : w = [conf |-> k.conf, hashes |-> k.raw, concepts |-> k.raw]
  OBVIOUS
<1>8. file'[t] = w /\ \A u \in Targets \ {t} : file'[u] = file[u]
  BY <1>2, <1>6, <1>7 DEF Typed, TypeOK
<1>9. w # None
  BY <1>1, <1>2, <1>7, NoneAssumption DEF Contents, Hashes
<1>10. SoundTargets'
  BY <1>1, <1>7, <1>8 DEF Sound, SoundTargets
<1>11. manifest = RunHash(b) => Agree'
  <2> SUFFICES ASSUME manifest = RunHash(b), NEW u \in Targets
               PROVE  Holds(u, manifest[1], manifest[2])'
    BY <1>1 DEF Agree
  <2>1. manifest # None /\ manifest[2] = k.raw /\ (Provenance => manifest[1] = k.conf)
    BY <1>1, <1>2, RunHashTyped DEF RunHash
  <2>2. Holds(u, manifest[1], manifest[2])
    BY <1>5, <2>1 DEF Agree
  <2> QED BY <1>1, <1>7, <1>8, <1>9, <2>1, <2>2 DEF Holds
<1>12. ASSUME NEW u \in Targets \ k.todo PROVE (k.watch /\ u \in NonConcept) \/ file'[u] = w
  <2>1. CASE u = t
    BY <1>8, <2>1
  <2>2. CASE u # t
    <3>1. u \in Targets \ build[b].todo
      BY <1>2, <1>12, <2>2
    <3> QED BY <1>1, <1>2, <1>7, <1>8, <2>2, <3>1 DEF Sound, BuildSound
  <2> QED BY <2>1, <2>2
<1>13. BuildSound(b)'
  BY <1>1, <1>2, <1>3, <1>5, <1>6, <1>7, <1>11, <1>12 DEF BuildSound
<1>14. ~Quiet'
  BY <1>2, <1>3 DEF Quiet
<1> QED BY <1>1, <1>5, <1>10, <1>11, <1>13, <1>14, OfTheBuild

\* What a build that has written all it had to write has left in the targets.
LEMMA WrittenHolds ==
  ASSUME Typed, Sound, calm, NEW b \in Builders, build[b].at = "writing", build[b].todo = {}
  PROVE  /\ \A t \in IF build[b].watch THEN Targets \ NonConcept ELSE Targets :
              Holds(t, build[b].conf, build[b].raw)
         /\ Vouched
<1>1. build[b].raw \in Hashes /\ build[b].conf \in Versions /\ UnderWay(b) /\ BuildSound(b)
  BY DEF Typed, At, UnderWay, Sound
<1>2. PICK w : w = [conf |-> build[b].conf, hashes |-> build[b].raw, concepts |-> build[b].raw]
  OBVIOUS
<1>3. w # None
  BY <1>1, <1>2, NoneAssumption DEF Contents, Hashes
<1>4. \A t \in IF build[b].watch THEN Targets \ NonConcept ELSE Targets : file[t] = w
  BY <1>1, <1>2 DEF BuildSound
<1>5. \A d \in Docs : cache[d] = build[b].raw[d]
  BY <1>1 DEF BuildSound
<1>6. file[IR] = w
  BY <1>4, CompileAssumption
<1> QED BY <1>2, <1>3, <1>4, <1>5, <1>6 DEF Holds, Vouched

\* What a build that skips its targets finds in them.
LEMMA SkippedHolds ==
  ASSUME Typed, Sound, calm, NEW b \in Builders, Skip(b)
  PROVE  /\ \A t \in Targets : Holds(t, build[b].conf, build[b].raw)
         /\ Vouched
<1>1. /\ build[b].raw \in Hashes /\ build[b].conf \in Versions /\ UnderWay(b) /\ BuildSound(b)
      /\ build[b].at = "normalized" /\ manifest = RunHash(b)
  BY DEF Skip, Typed, At, UnderWay, Sound
<1>2. manifest # None /\ manifest[2] = build[b].raw /\ (Provenance => manifest[1] = build[b].conf)
  BY <1>1, RunHashTyped DEF RunHash
<1>3. \A t \in Targets : Holds(t, manifest[1], manifest[2])
  BY <1>1, <1>2 DEF BuildSound, Agree
<1>4. \A t \in Targets : Holds(t, build[b].conf, build[b].raw)
  BY <1>2, <1>3 DEF Holds
<1>5. \A d \in Docs : cache[d] = build[b].raw[d]
  BY <1>1 DEF BuildSound
<1>6. file[IR].concepts = build[b].raw
  BY <1>4, CompileAssumption DEF Holds
<1> QED BY <1>4, <1>5, <1>6 DEF Vouched

\* The build that was on its way no longer is, and the cache is right.
LEMMA EndSound ==
  ASSUME Typed, Sound, calm, NEW b \in Builders, UnderWay(b), NEW k \in Builds, Set(b, k),
         k.at \in {"idle", "done"}, UNCHANGED <<src, conf, cache, file>>, Vouched, (Back => Agree)'
  PROVE  Sound'
<1>1. build'[b] = k /\ \A c \in Builders \ {b} : build'[c] = build[c]
  BY SetMember DEF Typed
<1>2. Alone(b)
  BY DEF Sound, BuildSound
<1>3. \A c \in Builders : ~UnderWay(c)'
  BY <1>1, <1>2 DEF Alone, UnderWay
<1>4. Vouched' /\ SoundTargets'
  BY DEF Vouched, Sound, SoundTargets
<1> QED BY <1>3, <1>4, NoneUnderWay

LEMMA SkipSound ==
  ASSUME Typed, Sound, NEW b \in Builders, Skip(b)
  PROVE  Sound'
<1> SUFFICES ASSUME calm' PROVE Sound'
  BY DEF Sound
<1>1. UnderWay(b) /\ calm /\ UNCHANGED <<src, conf, cache, file, manifest>> /\ EndBuild(b)
  BY DEF Skip, At, UnderWay
<1>2. (Back => Agree)'
  BY <1>1 DEF Sound, Back, RunHashOf, Agree, Holds
<1> QED BY <1>1, <1>2, SkippedHolds, EndMoves, EndSound

LEMMA FinishSound ==
  ASSUME Typed, Sound, NEW b \in Builders, Finish(b)
  PROVE  Sound'
<1> SUFFICES ASSUME calm' PROVE Sound'
  BY DEF Sound
<1>1. /\ build[b].at = "writing" /\ build[b].todo = {} /\ UnderWay(b) /\ calm /\ EndBuild(b)
      /\ build[b].raw \in Hashes /\ build[b].conf \in Versions /\ UNCHANGED <<src, conf, cache, file>>
  BY DEF Finish, At, UnderWay, Typed
<1>2. /\ \A t \in IF build[b].watch THEN Targets \ NonConcept ELSE Targets :
           Holds(t, build[b].conf, build[b].raw)
      /\ Vouched
  BY <1>1, WrittenHolds
<1>3. (Back => Agree)'
  <2>1. CASE build[b].watch
    <3>1. manifest' = manifest
      BY <2>1 DEF Finish
    <3> QED BY <1>1, <3>1 DEF Sound, Back, RunHashOf, Agree, Holds
  <2>2. CASE ~build[b].watch
    <3>1. manifest' = RunHash(b)
      BY <2>2 DEF Finish
    <3>2. manifest'[2] = build[b].raw /\ (Provenance => manifest'[1] = build[b].conf)
      BY <1>1, <3>1, RunHashTyped DEF RunHash
    <3> QED BY <1>1, <1>2, <2>2, <3>2 DEF Agree, Holds
  <2> QED BY <2>1, <2>2
<1> QED BY <1>1, <1>2, <1>3, EndMoves, EndSound

\* A build that stops leaves the cache saying no more than the IR holds.
LEMMA StopSound ==
  ASSUME Typed, Sound, NEW b \in Builders, Stop(b)
  PROVE  Sound'
<1> SUFFICES ASSUME calm' PROVE Sound'
  BY DEF Sound
<1>1. /\ UnderWay(b) /\ calm /\ (IRPending(b) => file[IR] = None)
      /\ UNCHANGED <<src, conf, cache, file, manifest>>
      /\ Set(b, NoBuild) \/ EndBuild(b)
  BY DEF Stop
<1>2. Vouched
  <2>1. CASE IRPending(b)
    BY <1>1, <2>1 DEF Vouched
  <2>2. CASE ~IRPending(b)
    <3>1. \A c \in Builders : ~IRPending(c)
      BY <1>1, <2>2 DEF Sound, BuildSound, Alone, UnderWay, IRPending, At
    <3> QED BY <1>1, <3>1, VouchedUnlessPending
  <2> QED BY <2>1, <2>2
<1>3. (Back => Agree)'
  BY <1>1 DEF Sound, Back, RunHashOf, Agree, Holds
<1>4. \E k \in Builds : Set(b, k) /\ k.at \in {"idle", "done"}
  BY <1>1, NoBuildTyped, EndMoves
<1> QED BY <1>1, <1>2, <1>3, <1>4, EndSound

LEMMA StepSound ==
  ASSUME Typed, Sound, [Next]_vars
  PROVE  Sound'
<1>1. CASE UNCHANGED vars
  BY <1>1 DEF vars, Sound, SoundTargets, Back, RunHashOf, RunHash, Agree, Holds, BuildSound, UnderWay, Alone,
     Quiet, Vouched
<1>2. CASE Next
  BY <1>2, EditSound, RemoveSound, IngestSound, RebuildSound, NormalizeSound, SkipSound, ProceedSound,
     WriteTargetSound, FinishSound, StopSound DEF Next
<1> QED BY <1>1, <1>2

THEOREM SpecSound == Spec => [](Typed /\ Sound)
<1>1. Init => Typed /\ Sound
  BY InitTyped, InitSound
<1>2. Typed /\ Sound /\ [Next]_vars => (Typed /\ Sound)'
  BY StepTyped, StepSound
<1> QED BY <1>1, <1>2, PTL DEF Spec

\* For any builds that overlap, watch, are asked for one target or stop anywhere, and any
\* edits: the files keep their types, and as long as nothing disturbs (or nothing has since
\* dist was removed) no target holds a concept under the hash of another version, and the
\* cache vouches for none the IR does not hold (compile.ts, normalize.ts).
THEOREM CacheAlwaysRight == Spec => []CacheIsRight
<1>1. Typed /\ Sound => CacheIsRight
  BY VouchedUnlessPending DEF CacheIsRight, CacheMatchesIR, Vouched, Sound, SoundTargets, Typed
<1> QED BY <1>1, SpecSound, PTL

-----------------------------------------------------------------------------
(* What a build that ends leaves *)

\* Another build that moves leaves this one where it is.
LEMMA OwnSteps ==
  ASSUME Typed, Next, NEW b \in Builders, UnderWay(b), At(b, "done")'
  PROVE  Skip(b) \/ Finish(b) \/ Stop(b)
<1>1. build'[b] # build[b]
  BY DEF UnderWay, At
<1>2. ASSUME NEW c \in Builders \ {b}, NEW k \in Builds, Set(c, k) PROVE FALSE
  BY <1>1, <1>2, SetMember DEF Typed
<1>3. ~EditConfig /\ ~RemoveOutput /\ \A d \in Docs : ~EditDocument(d)
  BY <1>1 DEF EditConfig, RemoveOutput, EditDocument
<1>4. ASSUME NEW c \in Builders \ {b}
      PROVE  /\ ~Ingest(c) /\ ~Rebuild(c) /\ ~Normalize(c) /\ ~Skip(c) /\ ~Proceed(c)
             /\ ~WriteTarget(c) /\ ~Finish(c) /\ ~Stop(c)
  <2>1. ~EndBuild(c) /\ ~Set(c, NoBuild)
    BY <1>2, EndMoves, NoBuildTyped
  <2> QED BY <1>2, <2>1, IngestMoves, RebuildMoves, NormalizeMoves, ProceedMoves, WriteMoves
       DEF Skip, Finish, Stop
<1>5. ASSUME NEW k \in Builds, Set(b, k) PROVE k.at = "done"
  BY <1>5, SetMember DEF Typed, At
<1>6. ~Ingest(b) /\ ~Rebuild(b) /\ ~Normalize(b) /\ ~Proceed(b) /\ ~WriteTarget(b)
  BY <1>5, IngestMoves, RebuildMoves, NormalizeMoves, ProceedMoves, WriteMoves
<1> QED BY <1>3, <1>4, <1>6 DEF Next

LEMMA EndIsFresh ==
  ASSUME Typed, Sound, Next, NEW b \in Builders, calm, Ends(b)
  PROVE  \A t \in IF build[b].watch THEN Targets \ NonConcept ELSE Targets :
           Holds(t, build[b].conf, build[b].raw)'
<1>1. /\ UnderWay(b) /\ At(b, "done")'
      /\ At(b, "normalized") \/ (At(b, "writing") /\ build[b].todo = {})
  BY DEF Ends, UnderWay, At
<1>2. Skip(b) \/ Finish(b) \/ Stop(b)
  BY <1>1, OwnSteps
<1>3. file' = file /\ (EndBuild(b) \/ Set(b, NoBuild))
  BY <1>2 DEF Skip, Finish, Stop
<1>4. EndBuild(b)
  BY <1>1, <1>3, SetMember, NoBuildTyped DEF Typed, At
<1>5. build'[b].conf = build[b].conf /\ build'[b].raw = build[b].raw
  BY <1>4, EndMoves, SetMember DEF Typed
<1>6. \A t \in IF build[b].watch THEN Targets \ NonConcept ELSE Targets :
        Holds(t, build[b].conf, build[b].raw)
  <2>1. CASE At(b, "normalized")
    <3>1. Skip(b)
      <4>1. ~build[b].watch /\ ~Set(b, NoBuild)
        BY <1>1, <2>1, SetMember, NoBuildTyped DEF Ends, Typed, At
      <4> QED BY <1>2, <2>1, <4>1 DEF Finish, Stop, At
    <3> QED BY <3>1, SkippedHolds
  <2>2. CASE At(b, "writing") /\ build[b].todo = {}
    BY <2>2, WrittenHolds DEF At
  <2> QED BY <1>1, <2>1, <2>2
<1> QED BY <1>3, <1>5, <1>6 DEF Holds

\* The build that ends, having generated the targets or having trusted the manifest,
\* leaves in every target the documents and the config it read (compile.ts), as long as
\* nothing disturbs.
THEOREM FreshAlwaysWhenDone == Spec => FreshWhenDone
<1>1. ASSUME Typed, Sound, [Next]_vars
      PROVE  [\A b \in Builders : calm /\ Ends(b) =>
                \A t \in IF build[b].watch THEN Targets \ NonConcept ELSE Targets :
                  Holds(t, build[b].conf, build[b].raw)']_vars
  <2>1. CASE UNCHANGED vars
    BY <2>1
  <2>2. ASSUME Next, NEW b \in Builders, calm, Ends(b)
        PROVE  \A t \in IF build[b].watch THEN Targets \ NonConcept ELSE Targets :
                 Holds(t, build[b].conf, build[b].raw)'
    BY <1>1, <2>2, EndIsFresh
  <2> QED BY <1>1, <2>1, <2>2
<1> QED BY <1>1, SpecSound, PTL DEF Spec, FreshWhenDone
================================================================================
