# AKCP: specifications of the Agent Knowledge Compiler and Control Plane

TLA+ modules for AKCP (`src/packages/*`): how people approve what agents do,
how the gateway enforces it, what the servers, the compiler and the stores keep
on disk, and the algorithms that decide, find and vouch for things. TLC checks
them on small instances; TLAPS proves, for all instances, the properties of the
approval stores, the gateway, the incremental compile, the submissions of the
automation server, documents, synchronisation and releases, keys, registry,
plugins and credentials, and the rules, cards and rate limits of the perimeter.

## 1. The system

A TypeScript monorepo. `core` holds the compiler and the control plane; `cli`
is the `akcp` command; `mcp-automation-server` and `mcp-profile-server` are MCP
servers over it; `dashboard`, `evals`, `conformance` and `vscode-akcp` are tools
around them. In the table, `core/` is `src/packages/core/src`, `auto/`
`src/packages/mcp-automation-server/src`, `profile/`
`src/packages/mcp-profile-server/src` and `cli/` `src/packages/cli/src/commands`.

| Part | State it keeps | Operations | Interacts with | What is hard | What makes it correct |
|---|---|---|---|---|---|
| Quorum approval store, `core/capabilities/quorum-approval-store.ts` | token -> record with votes, one map a cluster | generate, approve, validate and consume, revoke, list, export and merge snapshots | other clusters, the gateway | snapshots late, twice, reordered, lost | a grant needs its quorum; a used token is never reopened |
| Redis approval store, `auto/approval/redis-store.ts` | a key a token, a set as index | the same, as Redis commands | other server processes | interleaved commands, key expiry, lost connections | every use is paid for by an approval; no lost listing |
| SQLite approval store, `auto/approval/approval-store.ts` | a row a token | the same, as SQL statements | other processes on the file | interleaved statements, expiry, crashes | a token is honoured in its window only |
| Gateway and cost tracker, `core/capabilities/gateway.ts`, `cost-tracker.ts` | calls in flight; tokens used, flag and budget of each agent | `execute`; recordUsage, setBudget, reset | limiter, authentication, firewall, policies, store, audit log, tool | awaits between every check and its use | one run a grant, audited first, every call answered; overrun bounded |
| Automation server and its tools, `auto/server.ts`, `action-registry.ts` | tokens, bundle, job site; registered tools | prepare, confirm, log, sync, search, the support desk, dynamic actions | gateway, store, browser, services | edits between prepare and confirm; failures after the click | what is sent is what was approved, once |
| Automation adapters, `auto/adapters` | a cluster's replicas and revisions; a webhook's attempts | restart, scale, roll back, read; dispatch with retries | operators, targets over a network | lost replies, clocks, windows | changes only where allowed; a repetition is the same request |
| Document, index and log services, repositories, `core/services`, `core/repositories` | documents, `index.md`, `log.md`, a cache | create, update, delete, search, reload | the file system, other servers | read-modify-write across awaits, a stop between files | files agree after every operation that did not fail |
| Bidirectional sync, `core/connectors/bidirectional-sync.ts` | bundle, wiki, manifest of the last agreement | sync in three directions with three strategies | people on both sides | lists, readings and writings that edits, deletions and deaths come between | of what stands as it was read, no edit of one side is lost |
| Document factory, `core/factories` | none | seven creators | services | names that differ in dropped characters | a slug keeps what identifies |
| Incremental compile, `cli/core/compile.ts`, `watch-planner.ts`, `core/compiler` | build-state cache, targets, manifest | compile, `--force`, `--watch`, `--target` | people who edit, other builds | builds that overlap or stop between two files, documents taken back | what a finished build leaves is what it read |
| Compilation stages, `core/compiler/compile.ts`, `run-pipeline.ts`, `stages` | the context of one compilation | ingest, extract links, validate, assemble, classify errors | incremental compile, redactor | cycles that share nodes; strict and lax | a build that ends well has named what is broken or circular |
| Reconcile, `core/reconcile` | outputs and manifest | dry run, apply | people who edit outputs | drift, loss, corrupt manifests | after an apply nothing has drifted |
| Knowledge graph, diff, contradictions, `core/graph`, `core/diff` | none | links, impact, comparison, oppositions | compile, release gates | cycles; many small releases | impact is the closure; compatible releases add up |
| Context packing, retrieval, abstention, `core/context` | usage of an agent | plan, pack, compress, rank, abstain | cost tracker | budgets and rounding | within budget; fair; grounded |
| Synthesis, `core/synthesis` | bundle | infer front matter, raise sensitivity, insert links | people who edit between runs | repeated runs over own output | a second run is idle; sensitivity holds |
| Keyring, signing, `core/provenance`, `cli/core/keys.ts` | keyring file; manifest and attestation | init, rotate, revoke, sign, verify | other commands, people | overlapping commands; outputs edited after the build | one active key; valid means as built |
| Federated registry and mesh, `core/federation` | packs, index | publish, verify, compose | other publishers | files copied one by one, index without lock | a valid pack is one build; a mesh is complete |
| Audit ledger, control plane command, `core/infrastructure/audit-log.ts`, `cli/server/control-plane.ts` | hash chain in a file | append, verify, Merkle root; policies, approvals, audit, inspect, replay | several writers, editors | two writers, torn lines | edits are found, and nothing else is called one |
| Plugins, `core/plugins` | permissions used | load (an import), run in the sandbox, host calls | plugin code | denied calls caught, late callbacks; a loader beside the sandbox | in the sandbox, no undeclared effect; the report is complete |
| Policy engine, cards, providers, analysis, recorder, proofs, `core/policies`, `core/policy`, `core/capabilities/flight-recorder.ts` | rules; flight log | evaluate, adapt, lint, verify, replay, prove | gateway, remote providers | order of rules, empty lists, timeouts | what is said of rules is true of decisions |
| Delegation macaroons, `core/identity` | caveat chain | mint, attenuate, verify | gateway | caveats of several holders | narrower than each caveat |
| Rate limiters and authentication, `core/capabilities/*rate-limiter.ts`, `auth.ts`, `jwt-auth.ts` | bucket of a key | consume, reset; authenticate | Redis, several clocks | fractions of refills, clock skew, tolerances | no more than the rate; entitled when let in |
| Personal data and prompt firewall, `core/privacy` | vault entries | detect, merge, redact, tokenize, resolve, screen | gateway, profile server | overlapping spans, restarts, outages | found is gone; nothing is mistaken |
| Profile server, `profile/server.ts`, `http-server.ts` | sessions, loaded knowledge | sessions over SSE, `POST /mcp`, chunks, resources | clients, firewall | knowledge loaded anew meanwhile | one version in a reading; nothing without bearer |
| Dashboard server, `dashboard/server` | windows of requests, two clients | middlewares and routes | both servers | start of one client after the other | what is handed on was checked |
| Connectors, compile targets, migrations, query planner, evals, editor, user interface | none, or text only | conversion, generation, views | - | - | not modelled, section 7 |

`PROJECT.json` lists every component with its status, and every hazard at its
line with the properties aimed at it.

## 2. Modules

### Approval, gateway and compile

`ApprovalLifecycle` is the abstract specification: what
`IApprovalStore` (`core/capabilities/approval-store.ts`) promises for a set
of keys, each with a phase (`none`, `waiting`, `granted`, `closed`) and a count
of uses. Its steps are Learn, Grant, Use and Close; Use closes what it uses. The
quorum store implements it, the SQLite store as long as one process has the file,
the Redis store not (finding 1). So do two users of a store, with an effect in the
place of the answer of `validateAndConsume`: the gateway with the run of a tool, the
automation server with the click of a submit button.

`QuorumApproval` has the map of each cluster as `records[c]`, the snapshots in
flight, the clock, and the history variable `uses`. Every method of the class
runs without an await and is one action with the method's name; the late
branches of `approveToken` and `validateAndConsume`, which change the status
before refusing, are `ApproveTooLate` and `ValidateTooLate`. `MergeVotes`,
`JoinStatus`, `MergeRecord` and `MergeStore` are the inner parts of
`mergeRemoteSnapshot`. Snapshots are never removed from the set: they may be
merged late, again, in any order, or not at all. Each cluster, with a token as
seen there, refines `ApprovalLifecycle` (`ImplementsLifecycle`).

`RedisApproval` has one action per awaited Redis command (`ConsumeGet`,
`ConsumeDel`, `ConsumeSrem`, ...): `call[p]` is what the call awaits next and
what it has read. `Crash` ends a call at any await. `Tick` moves the clock and
drops expired keys; it and `TtlReplies` model Redis itself and are external.

`SqliteApproval` has one action per SQL statement; `call[p]` is the next
statement of process p. `Sweep` is the DELETE of expired rows with which
listing and consuming begin, `Update` the unconditional UPDATE.

`Gateway` is `execute` cut at its awaits, with the methods of the cost tracker
as operators; `job[s]` is where the call in slot s waits, or how it was
answered. The approval store is its interface: a token is waiting, granted,
spent or closed, and validation is atomic (the stores' own races are the subject
of the modules above). What is awaited may answer either way, be slow, or throw:
limiter, firewall and policy provider (`PartyFails`), store (`StoreFails`), audit
log (`AuditFails`) and tool (`ToolFails`); an agent may have no policy at all
(`NoPolicy`). `job[s].trail` holds the decisions written to the audit log,
`runs[t]` counts the runs on the strength of token t.

`IncrementalCompile` has the files as variables: `src` and `conf` as people
edit them (`EditDocument`, `EditConfig`, also back to an earlier version),
`cache` (`.akcp/cache/build-state.json`), `file` (the targets, of which `IR` is
where unchanged concepts are taken from) and `manifest`; `RemoveOutput` is `rm -r
dist`. A build is cut where it writes a file: Ingest, Normalize (which writes
the cache), Skip or Proceed (which look at the manifest), WriteTarget, Finish;
`scope` is what `--target` leaves of the targets. `Stop` is a stage or target
that throws or a process that is killed, at any of these places. A watcher's
`Rebuild` keeps the config and the targets of the build before it, looks at no
manifest and writes none, and may leave out the targets that
`computeWatchImpactPlan` calls unaffected (`Affected`). Builds overlap.
`calm` is a history variable, which no action reads: what must not happen for
the three files to be worth trusting (section 3 lists it).

### Automation (composed by `MCAutomation`)

`AutomationServer` has the tokens, the bundle of documents and the job site.
`prepare` and the other gated tools are one step each; a call of
`confirm_application_submission` is a slot with one action per await (validate,
read the documents, open the page, fill, click, log). `AutomationTools` has the
read-only tools of the support desk, functions of a text that is a set of marks
(`Desk*`), and the registry of dynamic actions, where a tool keeps the
definition that it was made from (`Registry*`). `AutomationAdapters` has the
actions on a cluster beside operators who change it (`Kube*`), and the attempts
of a webhook with lost requests, lost replies and a clock (`Hook*`).

### Bundle (composed by `MCBundle`)

`DocumentService` cuts create, update and delete at each awaited read or write
of a file, for servers with the plain and with the cached repository.
`BidirectionalSync` is `syncOpenWikiBidirectional`: `Start` lists both sides,
once; the lists choose the branch of each file (`Imports`, `Exports`, `Compare`),
whatever stands there when its turn comes. A turn is two steps, `Read` and
`Write`, and what is written goes over whatever stands there by then; a listed
file that is gone makes the run throw (`Die`, which is also a run killed at
any place). Every branch of the three-way comparison is there, the merge of
governed keys, and the manifest that is saved last. `KnowledgeGraph` has the ids and links as paths, the search
of `impact-analysis` one turn at a time, and the contradictions of a bundle that
grows. `SemanticDiff` is the engine as the gate of a sequence of releases.
`Reconcile` is dry run and apply among edits and losses of outputs.
`Context` has planner and adaptive packer over texts that are lines of a kind and
a length, and the three scores, their fusion and the guard, in ten-thousandths. `Synthesis` has the runs of the synthesizer over texts of
tokens, and the document factory, which makes a slug of a name that is typed a
character at a time (`Type`, `Made`).
`CompilePipeline` is `compile` with its stages, whose search for circular
dependencies has an explicit stack (`Start`, `Descend`, `CloseCycle`, `PassBy`,
`Leave`).

### Trust (composed by `MCTrust`)

`KmsKeyring`: each command of `akcp keys` reads the ring, changes what it read
and writes it back. `Credentials`: manifest and attestation, and the outputs that
people change in between; the macaroons (minting, attenuation, verification,
`Delegation*`); the proofs of decisions and their edits on the way to the auditor
(`Proof*`). `FederatedRegistry`: publication file by file,
verification, composition; and the mesh as a function of the bundles that
verified. `AuditLedger`: `FileAuditService` with several writers, where reading
the length and appending are two steps, edits, torn lines, verification, Merkle
root; and the commands of `akcp control-plane` beside servers that write and
people who edit (`Console*`); a torn line ends `audit` and `audit-verify` with exit
code 1. `Plugins` has two ways for a plugin to run: `LoadPlugin` checks the manifest
and imports the entrypoint into the host's process, where its code does as it likes
(`ImportedCode`); `ExecuteCode` runs code in the sandbox, with host calls and a report.

### Perimeter (composed by `MCPerimeter`)

`PolicyRules` is the engine as operators and is used by `PolicyAnalysis`
(linter, verifier, equivalence, policy hash, red-team suite) and `PolicyCards`
(rules of a card, providers, flight recorder and replay). A name is the sequence
of its pieces (characters, or what no pattern cuts apart), a pattern the sequence
of the texts between its stars, which may stand anywhere (`GlobMatch`); a condition
may compare any field of the request (`Expression`). The verifier's requests are
made as in the code, with "sample" in the place of each star (`SampleOf`). `IdealBucket` is what a
limiter promises; `RateLimiter` is one key in memory or in Redis and refines it;
`Authentication` extends it with API keys and web tokens. `PersonalData`:
detectors' spans, merge and replacement; the vault over a text of words.
`DashboardServer`: the middlewares in their order, the parser of bodies before the
limiter, and the routes.
`ProfileServer`: sessions, chunks, `POST /mcp`, resources and their screening.

A composing module gives constants their values and puts components that share
no state side by side: the variable `part` says which of them a behaviour
exercises, the others stand in an initial state. A property of such a run is the
conjunction of the named properties of its components, each stated and
commented where its component is. The operators named as mistakes in
comments are the mutated forms that `PROJECT.json` lists; no action uses them.

## 3. Runs

| Run | Question | Distinct states | Result |
|---|---|---|---|
| quorum | one token for either of two calls, of a critical risk or of one configured with quorum zero; two approvers and a requester, two clusters, two snapshots | 78,776 | holds |
| redis_races | one token under all kinds of call at once | 57,929 | holds |
| redis_single_use | is a token single-use with two approvers at once? | - | violated |
| sqlite_two_processes | what survives two processes on one file | 140,936 | holds |
| gateway | two calls of one agent in flight, everything awaited may fail | 324,990 | holds |
| compile_fresh | does a finished build leave what it read, and until what? | 2,503,148 | holds |
| compile_forced | does `--force` recompile after a build that died? | - | violated |
| automation | two confirmations, the desk, the registry, a cluster, a webhook | 1,755,627 | holds |
| bundle | services, sync, factory, graph, contradictions, releases, outputs, packing, finding, synthesis, compilation stages | 687,953 | holds |
| trust | keyring, build, macaroon, proof, registry, mesh, ledger, console, plugin | 911,628 | holds |
| perimeter | rules, cards, limit, auth, redaction, vault, dashboard, profile, front | 135,833 | holds |
| policy_verified | is what `policy verify` calls verified safe, for a rule that forbids a part of what another allows? | - | violated |

The passing runs, property by property; each has a mutant in `PROJECT.json`, a
plausible mistake in the code under which TLC finds it violated in the same run.

* quorum: `QuorumBacked`: any copy of a record, at a cluster or under way, that
  shows a token approved or consumed carries the votes of its quorum, one an
  approver, none by the requester. `CopiesAgree`: copies never differ on what was
  asked. `GrantSound`: a cluster honours a token at most once and for its call.
  `TerminalAbsorbing`, `MonotoneWhileLive`: no call and no merge takes a token
  out of the terminal statuses or loses an approver's vote of a live one.
  `JoinConverges`: merging the same copies in either order gives the same status.
* redis: `ApprovalBackedUse`: each use is paid for by its own write of an
  approver, so executors that race have one winner. `OverlapBoundsUse`: how often
  a token can be used again is bounded by the approvals that overlap.
  `PendingIndexed`: no listing hides a token that waits. `DeadStaysDead`:
  without an approval under way, a key that is gone stays gone.
* sqlite: `HonouredInWindow`, `SweptStaysSwept`: with two processes on one file,
  a use still starts in the token's window and a swept row never comes back.
* gateway: `EffectsAreGranted` (types; a grant is for one run, `OneRunPerGrant`;
  nothing runs before its decision is in the log, `AuditedBeforeEffect`),
  `AnswerTellsEffect`, `OverrunBounded`, `EveryCallAnswered`.
* compile: `FreshWhenDone`: all targets of a build that ends hold what it read,
  generated or trusted (of a watcher's rebuild, those of concepts). `CacheIsRight`:
  the cache vouches only for what the IR holds (`CacheMatchesIR`). Both hold until
  something disturbs, and again once dist is removed while no build is under way.
  What disturbs, and nothing else does: a build or rebuild that begins while
  another one is under way; a rebuild with a config that is not the one on
  disk; a build of some targets only that goes on to write; a stop between
  cache and IR while an IR exists; an edit back to what the manifest stands for
  while a target is of something else or a build is under way; the removal of
  dist while a build is under way. After each of these the code may leave stale
  or missing targets (section 4).
* automation: `SubmissionsAreApproved`: what is submitted is what was approved
  (`SubmittedAsApproved`), once (`OneSubmissionPerApproval`), a success was
  approved and is recorded (`SuccessWasApproved`, `ConfirmedIsRecorded`).
  `ToolsAreGoverned`: built-in tools and handlers are not replaced
  (`BuiltInsStay`, `HandlerIsKept`), a cluster is changed only where and when its
  adapter may (`ChangesAreGoverned`), a repeated webhook is the same one
  (`RepetitionsAreAlike`), and the desk grounds intents, escalates refunds and
  passes only clean replies; what can be applied to can be previewed.
* bundle: `ServiceFilesAgree`: `LogIsComplete`, `CacheWasSaved`,
  `IndexListsDocuments`. `SyncLosesNothing`, of a file that both sides
  have as the run read it: an edit of one side survives as long as no run has died,
  and with the strategy "fail" whatever died (`OneSidedEditSurvives`); the governed keys are kept
  (`GovernanceIsKept`); and a report without a conflict means alike, of what nobody
  edited since the listing (`ReportMeansAlike`). `KnowledgeIsReadRight`:
  slugs (`SlugIsClean`, `SlugKeepsLetters`), graph (`ImpactIsClosure`,
  `OrphanIsUnaffected`, `RelativeLinkFinds`), `OppositionIsCritical`, budgets
  (`PackedWithinBudget`, `PlannedWithinBudget`), retrieval (`RankingIsFair`,
  `RelevanceFollowsLinks`, `AnswerIsGrounded`), compilation (`CyclesAreReal`,
  `EveryCycleIsCut`, `OkMeansWhole`). `ChangesAreSeen`:
  `NoBrokenRelease`, `ReleasesAddUp`, `NeitherIsLooser`, `ApplyUndoesEdits`,
  `AppliedIsInSync`. `SynthesisKeepsText`: `SecondRunIsIdle`, `SensitivityHolds`,
  `LinksAreWhole`.
* trust: `KeysAreSound`: `OneActiveKey`, `SignedUntilRevoked`,
  `FirstKnownDecides`. `CredentialsAreTrue`: `ValidMeansBuilt`, `BuiltIsValid`,
  `NarrowerThanMinted`, `StillVerifies`, `VerifiedIsTrue`. `RecordsTellEdits`:
  `UneditedVerifies`, `EditIsFound`, `RootNamesLedger`, `ShownIsLatest`,
  `EditIsRefused`. `FederationIsWhole`: `ValidIsWhole`, `PublishedVerifies`,
  `MeshIsComplete`, `LocalLinksSurvive`, `NoGuessedLink`. `PluginsAreContained`,
  of code in the sandbox only: `EffectsAreDeclared`, `ReportCoversRun`.
* perimeter: `AnalysisIsRight`: `ShadowedNeverDecides`, `ContradictionIsReal`,
  `VerifiedIsSafe` and `EquivalentDecideAlike` of rule sets that the verifier's requests
  vary enough (`Sampled`), `HashDeterminesDecision`.
  `CardsAreEnforced`: `EnforcedAsWritten`, `OrganisationIsAsked`,
  `ReplayJudgesRight`. `LimitsRate`: the refinement of
  `IdealBucket`, and `RemainingIsThere`. `AskerIsServed`. `EntryIsEntitled`:
  `LetInWasEntitled`, `FailuresAreCounted`, `WindowsBound`,
  `ForwardedWasChecked`, `ReadIsWhole`, `SessionsAreOpen`, `OnlyReadingsAreDone`,
  `NothingWithoutBearer`, `GivenIsAsked`, `OutageIsNoPass`. `PersonalDataIsKept`:
  `HiddenStaysHidden`, `FoundIsGone`, `NothingIsMistaken`.

Where the code fails a stronger property, the property states the strongest
that holds and its comment names the exception; the exceptions are in section 4. Some
stronger properties stand beside the others, with a comment that says "not so":
they state what is missing, and no run checks them.

### Bounds

Two clusters and two snapshots suffice to merge out of order, twice, and back;
two approvers and a requester to reach, miss and cheat a quorum of two. Two of
each racing caller suffice for pairwise races, and properties whose bound
depends on how many race (`OverlapBoundsUse`, `OverrunBounded`) have the
number in their statement. The quorum run takes clusters and actors as
interchangeable (`MCSymmetry`), the automation run tokens and slots, the compile
run builders, the bundle run bodies; this is sound because these runs check safety
only and no constant tells two of them apart. The one token of the quorum run may be
asked for either call and with either risk; tokens share no state. Clocks stop at
`MaxTime`, past every deadline set by the first calls. The gateway runs two slots, a
token and a budget of zero or one, so that the budget is met, raised and overrun.

`compile_fresh` has two builders, one document and a config with two versions each,
the IR and a target that is not of concepts and may be asked for alone: enough to
overlap, to take a document back, to leave out a target, and for a watcher to outlive
the config that it was started with. Nothing is claimed between a disturbance and
the removal of dist, so no build begins there in the run (`NoneBeginsDisturbed`, an
action constraint); those under way go on, and the proofs know no such bound.

The compilations are of three concepts with up to three links each, among them
self-loops, cycles of two and three that share nodes, a link to a file, to the web
and to nothing: the search meets neighbours of every colour, also deep in its stack.

The composed runs: two commands, publishers, writers or servers of each shared
file, which is every pair of interleavings of a read-modify-write; one document
with two titles and three operations (the third meets what two left behind); a
wiki page with three bodies (base, ours, theirs); three concepts for every graph
with cycles; two rules of 117, over names of two pieces (a third rule decides nothing that
two do not, as the engine takes the first of the matching); four caveats over five kinds; buckets
of two tokens in three ticks, with clocks one tick apart, so that refills round;
texts of four cells with spans of every place for overlaps of every kind; two
retries of a webhook, so that the last differs from the others.

Deadlock is checked except where nobody need act any more: in the Redis runs
every token may be used up, in the composed runs every call may have been made.

### Fairness

`Gateway!FairSpec`: weak fairness of each slot's `Continue`, that is, what a
call awaits answers or throws some day. Store, limiter, audit log and tool are
promises with time limits or local I/O, and a promise that is settled resumes
its call. Nothing is assumed of humans or of new calls. Under it every call is
answered: `execute` has no loop and no path without a return or a throw.

`MCPerimeter!MCFairSpec`: the clock of the limiter goes on, and one asker keeps
asking. The limiter itself has no steps of its own, so nothing is assumed of the
code. `AskerIsServed` then says that flooring the refill never starves an asker,
however often it asks: `lastRefill` only moves when whole tokens were added.

## 4. Findings

In runs:

1. `redis_single_use`: `approveToken` writes back the record it read, without a
   condition; of two overlapping approvals the second revives a used token.
2. `compile_forced`: the cache is saved before the IR it vouches for; `--force`
   bypasses the manifest but not the cache.
3. `policy_verified`: the verifier tries, of the tools that a pattern matches, one:
   each star is replaced by "sample" (formal-verifier.ts:139). Of rules that deny `db_s*`
   before they allow `db_*` all samples are denied, so that it answers "verified", and a
   critical call of `db_drop` is allowed. formal-verifier.ts:184-185 speaks of an
   exhaustive exploration, `docs/reference/cli.md:758` of the finite request state space.
   `Sampled` says of which rule sets the verifier's answers can be relied on; it rules
   out, besides such patterns, rules that ask for scopes, name the default agent or
   compare a tool, agent, side effect or token by an expression.

Disagreements met while modelling, which no run states as a violation; the
models follow the code, and the properties leave these cases out by name.

Approval and gateway
* two quorum clusters each honour a token once, as consuming is local; two votes
  of one approver with equal timestamps are never reconciled by a merge
  (quorum-approval-store.ts:327), and CONSUMED is rewritten to EXPIRED (226);
* a Redis approval written after the key's expiry never expires;
* two SQLite processes both consume a token, though `hitl.md:17` speaks of transactions;
* a tool that throws is not in the audit log (`control-plane.md:88` says every call is);
* a raised budget does not unblock an agent (cost-tracker.ts:95); no caller sets
  the gateway's environment, so conditions on it never hold.

Automation
* `registerActionTool` answers success for a handler's `success: false`; a tool
  of the compiled IR keeps its simulated handler when the action comes later;
* `detectPlatform` offers an automated preview of addresses that no strategy
  supports, and of an address with two names may name the other site;
* the audit status of a confirmation that fails is always "blocked", also after the
  click; a second application of a day to one company writes over the record of
  the first; revoking works only on a token that waits;
* the Kubernetes adapter without a runner answers success of what it simulated,
  and any approval token opens a change window;
* a webhook that is reported as failed may have been received.

Compile
* a build of one target writes a manifest that later builds take to speak of all targets
  (compile.ts:286, 325); of two builds that overlap, the manifest of one may stand
  beside targets of the other; a watcher's rebuild writes no manifest, so that a document
  taken back to what the manifest stands for is not compiled again (204).

Bundle
* `log.md` is truncated and then written, so a crash loses it; a title with a
  line break drops older rows; rows of overlapping operations are lost;
* `updateDocument` does not regenerate the index, though its comment says that
  every mutation does; an update through a stale cache brings a deleted document
  back, which no index lists;
* a synchronisation that dies before it saves its manifest leaves an old base, by
  which a later run may write over an edit of one side; a document that is created
  after the listing, at a path that only the wiki had then, is overwritten by the import
  with its governed keys (bidirectional-sync.ts:271-285), a page likewise by the export
  (303-325); what is edited between the reading and the writing of its file is lost; a
  listed file that was deleted since makes the run throw (334, 335) and save no manifest;
* `reconcile` forgets the manifest entries of the targets it did not apply, and
  calls what a corrupt manifest describes in sync;
* the diff lists no tightening of capabilities; a line with MUST and NEVER
  counts only for NEVER; an opposition beyond the top K is not seen;
* the compressor drops an invariant that does not fit, and all after it, though
  its comment says that they are preserved; `preservedLinks` lists those of the
  original; an agent without budget gets the guaranteed minimum at each pack; a
  chunk with its marker can be longer than the body; `maxDocuments` 0 is no limit;
* PageRank's comment speaks of both directions, and only outgoing links are
  followed; a stop word makes a document relevant;
* names that differ only in what a slug drops (C, C++, C#) are one document, and creating the
  second writes over the first (okf-document-factory.ts:447);
* a `.txt` beside its `.md` overwrites the edited `.md` at each synthesis;
  malformed front matter becomes text, and its sensitivity is lost; links nest
  in aliases when names are parts of others;
* a cycle through a link that names a file and not its concept is not found;
  `child_of` and `parent_of` count in the same direction, so two concepts that
  name each other as parent and child are a circular dependency; the CLI does not
  hand `--strict` to `compile`, though docs/project/technical-analysis.md:62 says
  that it catches broken links;
* the migration's backup is overwritten by a second run; the watcher's planner
  matches files by their base name.

Trust
* overlapping `akcp keys` commands lose a revocation; overlapping publications lose an
  index entry or mix two builds; publishing without an
  attestation keeps the old one; an attestation's predicate is not compared with
  the manifest beside it; a mesh omits a domain that was published between its
  two readings of the index; the latest version is the last by string order;
* two audit writers break the chain, and a torn line makes the ledger unreadable;
  `audit-verify` of a missing log is valid; `--filter` looks only at the latest
  lines, `-n 0` shows all; `inspect` shows the last build even if it is stale;
  nobody writes the file of requests that `approvals` shows;
* a plugin's late callback is in no report; the loader imports a plugin's entrypoint
  into the host's process (loader.ts:66-72) and not into the sandbox, so that a loaded
  plugin does what it likes, though docs/guides/create-connector.md:32 says "The AKCP
  loader will throw a `PluginSecurityError` if your plugin attempts an action it didn't
  declare." (`LoadedKeepsToDeclared`, which no run checks);
* attenuating a macaroon for a delegate with an empty name makes one that no longer
  verifies (delegation-macaroon.ts:191 appends the name, 269 passes by it);
* verifying compares no hash of a target with several outputs, or where a directory stands
  for a file or a file for a directory (provenance/verify.ts:44).

Perimeter
* the linter treats an empty list as everything, the engine as nothing; the
  verifier explores neither scopes nor hours nor an absent environment nor more than
  one tool a pattern (finding 3); the hash
  of a policy set forgets the order of equal priorities; a replay without tokens
  misjudges rules that ask for one; globs in the lists of a version-1 card
  differ between `evaluatePolicy` and the adapted rules, and rules of version 2
  come before `forbiddenTools`; the providers' timeout ends before the body is read;
* a Redis bucket of less than a token an interval refills when its key expires;
* overlapping spans leave a part of the data in the text; tokens of the vault are
  not resolved after a restart; the Lakera provider falls back to the heuristics
  unless `failClosed`;
* `POST /mcp resources/read` answers any concept whose path the uri ends in, does
  not screen, and does not skip ids with `..`; a token without scopes gets `*`;
  `/mcp/messages` has its body parsed before the transport reads it; the
  dashboard's route for local reading is answered `not_implemented`;
* the dashboard takes the identity in a body before the user's;
* over `index-sse.ts` a second connection replaces the transport of the first.

## 5. What is proved

TLAPS checks the proofs in eight modules. No theorem bounds clusters, tokens,
processes, calls, slots, builds, documents, servers or the clock. Nothing is
assumed but the named `ASSUME`s of the modules, which TLC evaluates in the runs:

| Assumption | Says |
|---|---|
| `QuorumApproval!ConstantsAssumption` and its like in the other stores | bounds and quorums are integers, a marker is no value |
| `RedisApproval!RolesAssumption`, `CallsFinite` | a call is of one kind; finitely many calls are in flight |
| `Gateway!BudgetsAssumption`, `GatewayAssumption` | costs and budgets are natural numbers; there are finitely many slots; `NoToken` is no token |
| `IncrementalCompile!CompileAssumption`, `NoneAssumption` | the IR is a target, and one of concepts; what `--target` names are targets; there is a version; the marker of an absent file is no version, content or run hash |
| `AutomationServer!AutomationAssumption` | the word for "nothing" is no address of a posting |
| `AutomationTools!RegistryAssumption` | the names of built-in tools are names, the two markers are no handlers |
| `DocumentService!ServiceAssumption` | there is a server; the marker of an absent document is no title |
| `BidirectionalSync!SyncAssumption`, `SemanticDiff!DiffAssumption`, `Reconcile!ReconcileAssumption` | "no body" is no body; levels are numbers and 1 is one; there is a target, and the targets with an implementation are targets |
| `KmsKeyring!KeyringAssumption` | key ids are numbers, and the marker is none; a short key is a key |
| `FederatedRegistry!RegistryAssumption`, `MeshAssumption` | the marker of no build and that of no domain are neither; versions are a list of words |
| `Plugins!PluginsAssumption` | the root of a plugin is a path, the bound of calls a number |
| `Credentials!AttestationAssumption`, `DelegationAssumption` | hashed outputs are outputs, the markers are no content; a caveat delegates to an agent, to nobody or to an empty name, which no agent has; a macaroon has room for two caveats |
| `AuditLedger!LedgerAssumption` | a torn line has no content |
| `RateLimiter!RateAssumption`, `ExpiryAssumption` | sizes, rates and intervals are positive, and a clock may be as much ahead as behind; where keys expire, an interval refills a token at least, and the TTL's margin is twice the largest skew |
| `PolicyCards!CardsAssumption` | fields are absent or present, lists hold patterns, requests are requests |
| `PolicyAnalysis!RulesAssumption` | what a rule lists is a set, of patterns or of side effects; its priority is a number, its conditions are conditions; requests are requests of the four risks |
| `Authentication!AuthAssumption` | times are integers, the tolerance is not negative; the secret of the gateway is not its public key |
| `DashboardServer!WindowAssumption` | the window's length is a number, and a window lets one request through at least |
| `ProfileServer!ProfileAssumption` | chunks have a positive length, paths are sequences of strings |

`ExpiryAssumption` is what the code's TTL (the refill time and a minute) gives for
clocks less than half a minute apart; section 4 says what happens to slower buckets.

### The approval stores

`ApprovalLifecycle`: `LifecycleSingleUse`, what implements the lifecycle
honours a token at most once. The strengthening is `SingleUse` itself with its
second half: a token that was used is closed.

`QuorumApprovalProofs`: `TypeCorrect`, `QuorumAlwaysBacked`,
`CopiesAlwaysAgree`, `GrantsAlwaysSound`, `TerminalAlwaysAbsorbing`,
`StatusesClimb`, `JoinAlwaysConverges` and `Refinement`. None of these is
inductive about the clusters alone, because any snapshot ever exported may be
merged next. `IInv` therefore speaks of `Copies`, the maps of the clusters and the
snapshots under way: each copy is good (votes, quorum and status fit together),
any two agree on what was asked, snapshots are about tokens known to a cluster, and
grants are sound. The proof goes through one lemma on the merge of two good
records, and one on a cluster that advances (`QuietAdvance`), which every method
except consuming reduces to. `StatusesClimb` needs that a record is not past its
time: `validateAndConsume` makes a consumed or revoked one that is past it EXPIRED,
which ranks lower. `JoinAlwaysConverges` is about the records that can meet: of
records at large the merge is neither idempotent nor associative, because it raises
PENDING to APPROVED where the joined votes meet the quorum, and takes the quorum of
whichever copy is local. That copies agree on the quorum, and that a pending copy
lacks it, is what makes it a join.

`RedisApprovalProofs`: `TypeCorrect`, `UseAlwaysBacked`, `OverlapAlwaysBounds`,
`DeadAlwaysStays`, `PendingAlwaysIndexed` and `OneApproverSingleUse`. The
strengthenings: `Begun` (a call in flight about a token, and a token handed out,
is about a generated token, so generating never collides with one in flight);
`Ledger` (a record that waits was never taken, and the record an executor is about
to delete does not wait, hence a DEL that removes one removes an approved one);
`Overlap` (what was taken, plus the record if it is approved, plus the approvers
that will still write, is at most the number of approvers: a writer starts only
while the record waits, when the other two terms are zero). `Effect` lists the four
things a step can do to one token. For `PendingAlwaysIndexed`, what is about to be
removed from the index does not wait: a listing removes what it found without a
record or already approved, and neither ever waits again, because a token is
generated once. `OneApproverSingleUse` is the condition under which finding 1
cannot happen.

`PerimeterProofs` (which also holds the perimeter's): `TypeCorrect`, `SweptAlwaysStays`,
`AlwaysHonouredInWindow` and `OneProcessImplements`. `HonouredInWindow` needs
`InWindow`: a call past its DELETE holds the time it swept at, and the row it may
find had not expired then. `OneProcessImplements` needs `RowsAsRead`: with one
process a row is still what the SELECT read when the UPDATE comes. It is
stated for `Single`, one process: with two, both may consume a row that both
have read.

### The gateway

`GatewayProofs`: `SpecEffectsAreGranted`, `SpecAnswerTellsEffect`,
`SpecOverrunBounded` and `RunsAreUses`. `IInv` has, beside the types, what the code has done for a
call by the time it is where it is:

* `Told`: which audit event may be pending, that the tool was called in the places
  after it and in none before, and what is in the trail when a call is answered;
* `Presented`: a gated call has a token from its validation on, and its consumption
  is in the trail when the tool is called;
* `Granted`: what runs on the strength of a token is the call the token was
  granted for;
* `Paid`: a token that is not spent is owed to nobody and has no run, and a spent
  one is owed to one call at most or has had its run. This is the part that
  `OneRunPerGrant` lacks: it counts runs and debts, and cannot tell that two calls do
  not owe for one token;
* for the budget, that a flag not raised means a usage within the largest budget:
  a call passes the check only then, so that every further call in flight adds at
  most its own cost. The counting is by `FiniteSetTheorems`.

`RunsAreUses` is the refinement of `ApprovalLifecycle` with the tool in the place of
`validateAndConsume`'s answer: `uses` is the number of runs, and a token stays
"granted" from its consumption until its run is owed no more. A run is then the
single step from granted to closed that counts a use; a store that fails after it
consumed, and an audit log that fails before the run, close the token unused. Each step
of a slot is compared by `LifeStep`, token by token; that one call at most owes
a run (`Paid`) is what lets the run close the token.

### The incremental compile

`IncrementalCompileProofs`: `TypeCorrect`, `CacheAlwaysRight` and
`FreshAlwaysWhenDone`, of `Spec` as it is: any builds at once, any modes and targets,
edits forwards and back, stops at any step. What they claim is claimed while `calm`
(section 3); finding 2 and the hazards at compile.ts:204, 286 and 325 show that
more would be false.
The inductive invariant, `Sound`, has while `calm`: targets hold what they say they
hold (`SoundTargets`); if the manifest stands for what is on disk, the targets hold
that (`Back => Agree`); a build under way is the only one, the manifest stands for
the disk only if it stands for what this build read, and a build knows, by where it
is, what the cache says of what it read and which targets hold it already
(`BuildSound`); with no build between its cache and its targets, the IR holds what the cache
vouches for (`Vouched`). A build that trusts the manifest ends fresh because it read what
the manifest stands for and the targets agree with it. Each way to disturb breaks one of
these parts, and removing dist restores them all: without files and manifest they
hold of nothing.

### The automation server

`AutomationServerProofs`: `SpecSubmissionsAreApproved` and `SubmissionsAreUses`, for any number of calls of
`confirm_application_submission` in flight and with crashes, dry runs, edits and
failures after the click. A call that has consumed its token holds it until it
concludes (`HolderSound`): the token is spent on the posting and the context that
the call has in its hands, and its button was not pressed while the call is on the
way there. `HoldersDiffer`, that no two calls hold one token, is what turns this into
one submission an approval. `SentSound` keeps what was sent tied to the spent
token, and `SuccessRecorded` the record to the audit entry.

`SubmissionsAreUses` is the same refinement as the gateway's, end to end to the job
site: `uses` is the clicks of the submit button, and a token stays "granted" while a
call that is not a dry run holds it on its way to the button (`Armed`). A dry
run, a failure on the way and a crash close it unused, also where the code has
no step for it: the process that would have pressed the button is gone.

`ToolsGoverned`, for any tools, handlers, clusters, dispatches and tickets. Four
invariants, one a component:

* `RegistryInv`: with the types, that a built-in name never becomes a dynamic one; a
  registration leaves whatever handler its name has.
* `KubeInv` is types only. What is to be shown is of one step: each tool of the adapter
  refuses, or is admissible, in time, and changes one deployment or none (`ExecuteIs`).
* `HookInv`: what the target got under a number is one envelope, that of the dispatch
  with the number, and no attempt follows a final answer. This ties the inbox to the
  answers, so that "ok" means delivered and "client" means failed.
* `DeskInv`: the fields of a ticket are of the sets that the tools make them from; each
  promise follows at the place of the ticket where it is made.

### Documents, synchronisation, releases and outputs

`BundleProofs`: `SpecServiceFilesAgree`, for any servers, caches and
documents. While operations neither overlapped nor failed (`alone`), at most one
server is inside an operation, and the log and the index are as its place tells:
the log is the list of what returned except between emptying and writing
(`LogHolds`), and the index may differ from the disk only between the two, where
what will be written is what is on the disk (`IndexHolds`). `CacheWasSaved` holds
whatever overlaps and fails. That rows which no title splits are read back as they
were written (`RowsRead`) goes through the least index of a split row, by
well-foundedness of the natural numbers.

`SyncNeverLoses`, for any files, bodies, edits, deaths and strategies. `SyncInv`: a
base in the manifest is a body on which a run made both sides agree, as long as no
run died (`BaseIsAgreed`), and one that both have had in any case (`BaseIsKnown`);
of a file that nobody has edited since the listing, the lists and what was read are right
(`ListsHold`); and in a run without conflicts that goes both ways, what is no longer to
do and was not edited is alike on both sides (`DoneAlike`). The first makes "this side
did not change" mean what the three-way comparison takes it for; the last becomes the
promise of the report when the last file is done. What the lists no longer say
truly, of files that were created or edited meanwhile, is not in the theorem, because the
code overwrites it (section 4).

`ChangesSeen`, for any concepts, capabilities and policies, and any length of the
chain of releases. `ReleaseInv` says that each release keeps what the first one had:
that nothing a diff calls compatible loosens is a preorder (`Keeps`), so that
compatible steps add up. For outputs, `OutputInv` adds that the manifest never
records the hash of an edit.

### Keys, registry, plugins, credentials

`TrustProofs`, each for any number of commands, publishers, composers, agents:

* `KeysSound`. `KeyringInv`: every manifest on disk or in the hands of a command has
  its ids once, generated ones only, and one active key if any; two commands never
  generate one key; and while no two commands overlapped (`Undisturbed`), who holds a
  manifest holds the one on disk, which knows each key that signed or was revoked.
* `FederationWhole`. `RegistryInv`: while publications do not overlap, one publisher
  at most is between the copy of its first file and its index entry, and the files it
  has copied are of its build (`Orderly`); when all of them ended, a pack's files are
  those last published and its entry names them (`Settled`); a mesh holds what it has
  read (`Composing`). For the mesh, that a name which a domain resolves by itself is
  resolved alike in any mesh (`ResolvedAlone`) needs no more than that only domains
  are composed.
* `PluginsContained`, of code in the sandbox. `PluginInv`: the permission of an effect of
  such code is among the used ones, and its path begins with the root, however the
  plugin's path was written; neither a host call that comes late nor anything that
  imported code does changes what a report has covered. Of imported code nothing is
  claimed (section 4). The sandbox itself, `node:vm`, is taken to hold.
* `CredentialsTrue`. `AttestationInv`: manifest and attestation are of what was built,
  and an answer is that of `verify` now; hence valid means built and built is valid.
  `MacaroonInv`: a signature is the chain of the caveats before it, and whatever was
  made out of a root begins with the root's caveats (`Restricts`); a macaroon that
  passes therefore passes each of its caveats. `ProofInv`: root and digest are those
  the proof was made with, so that an edited part of it opens nothing.

### The perimeter

`PerimeterProofs`:

* `RateIsLimited`, the refinement of `IdealBucket` for any size, rate, interval and
  clocks. The mapping gives the ideal bucket what the real one would be filled up to
  now; a call then refills nothing (`RefillGainsNothing`): to bring a bucket up to date,
  by whatever clock, and to floor it, leaves its level or lowers it. `LimitInv` adds
  what the expiry of a key needs: a stored bucket is at least as old as its key is idle,
  but for the skew, so a key that expires was full (`ExpiredIsFull`), and the bucket
  that replaces it gains nothing.
* `CardsEnforced`, for any cards and requests. The first rule that applies, in the
  order of priorities, decides (`Decided`, by the least index of a set of naturals);
  the rules that a card becomes are computed one kind after the other
  (`V2RulesAre`, `SideRuleIs`, `SpecRulesAre`, `AdaptIs`), and matched with what the
  card says of itself (`Enforced`). `CardInv`: what is logged is a decision, and a
  denial asks nobody.
* `AnalysedRight`, for any rules, however many, and any requests. Safety and
  equivalence are claimed of rule sets that the verifier's requests vary enough
  (`Sampled`): finding 3 is what happens to others. The part to prove is that for these a
  finite set of tools is enough (`ToolHasSample`): for a tool that some rule names, that
  tool; for one that patterns match, the sample of the longest of them, which no other
  pattern matches by accident; for any other, a fixed tool that no pattern names. Each
  matches the same patterns as the tool it stands for, conditions do not tell the two
  apart (`ConditionAlike`), and two requests which the same rules apply to are decided
  alike (`SameRulesSameDecision`). A request without side effect is stood for by one of
  an effect that its deciding rule lists (`SafeOnSamples`), which is why `VerifiedIsSafe`
  leaves out rules that list no effect at all. Shadowing and contradiction, of any rules
  without an empty list, follow from what subsumption of patterns means, with stars anywhere
  (`GlobSubsumes`, `SubsumesApplies`); the hash, from the order among rules of one
  priority (`OrderOfOnePriority`).
* `EntryEntitled`, for any configuration of the three entrances.
  - Authentication. `AuthInv`: the failures judged since the last success and the tokens
    left are together at most the bucket and what it earned since (`Spent`, `Earned`);
    flooring a refill only loses. `FailuresAreCounted` alone does not bound the tokens
    that are left. Tokens expire by one step's case analysis.
  - The dashboard. `WindowsInv`: windows of a client begin more than a window's length
    apart (`Apart`), each is counted from one on, once a number (`CountedOnce`), and
    each request lies in one (`InAWindow`). Any time of a window's length meets two
    windows at most, and the requests of one are mapped one to one into their numbers, by
    `FiniteSetTheorems`. `ForwardedInv` adds that the automation server is connected
    after the profile server only.
  - Reading. `ReadSoFar`: at each chunk the text read is the beginning of one
    version, as long as its offset; of a session it is the version loaded when the
    session began, and of requests the one that they all met, if they met one.
  - The front of the profile server. `FrontBase`: a running server was started as `main`
    allows, and a session was opened by whom it is open to.
    `GivenIsAsked` was false of paths that begin with the word "bundle", which the run
    does not load: the proof could not be closed, and the property now says which
    ids may take each other's place.

## 6. Out of the provers' reach

Liveness: `EveryCallAnswered` and `AskerIsServed` need fairness and ENABLED and
stay with TLC. So do the properties of what a fold computes over any sequence
(packing, ranking, slugs, the Merkle root, the merge of spans): they need induction
over data. No module has a RECURSIVE operator.

That a literal such as "sample" is a member of STRING is beyond the provers. Where a
proof needs it, it speaks of a set that has the strings and the literals (`Word` in
`PerimeterProofs`).

## 7. What is only model-checked

* `KnowledgeIsReadRight`: slugs, impact, plans, rankings and cycles are what folds and
  searches compute; nothing of it is left without them.
* `RecordsTellEdits`: that two ledgers with one Merkle root are one needs
  induction over the levels of the tree. `SynthesisKeepsText`: the insertion of
  links is a fold over the text. `PersonalDataIsKept`: so is the replacement of spans.
* `EveryCallAnswered` of the gateway and `AskerIsServed`, which are liveness.

Not modelled:

* Cryptography, hashing and encodings: a hash is what was hashed, a signature
  names its key, a binding matches or does not.
* Patterns over text (detectors, firewall, contradiction lines, intents): which
  marks or spans a text has is an input.
* The audit streams and tables of the approval stores, which no decision reads.
  They may be lost when a call stops, as `Crash` allows.
* Symbolic links, and ways out of `node:vm`.
* Redis, SQLite and the file system beyond what a command promises: one command
  is atomic, one statement is a transaction, one file is written or it is not
  (the ledger's torn line excepted).
* Connectors (conversion of formats), compile targets (generation of text),
  the summaries that enrichment writes, the watch planner but for its choice of targets
  (`Affected` of `IncrementalCompile`), migrations (front matter of one document), the query
  planner (a selection; `Context` has its scoring),
  evals, conformance, the editor extension and the dashboard's user interface:
  sequential, without state of their own, or views.
* The profile server's entry over SSE (`index-sse.ts`): what a second connection
  meets depends on the MCP library, which the repository does not contain.

## 8. Plan

1. The composition of a real approval store with `AutomationServer`, in place of
   a store that consumes in one step.
2. Proofs of the parts of `KnowledgeIsReadRight` and `PersonalDataIsKept` that no fold is
   in (`ImpactIsClosure`, `HiddenStaysHidden`), apart from the others.
3. What of the targets is right again after a disturbance that is not followed by the
   removal of dist: once every document has been edited since, or a build of all targets
   was forced that no poisoned cache misleads.
