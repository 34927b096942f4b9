-------------------------- MODULE FederatedRegistry -----------------------------
(***************************************************************************)
(* core/src/federation/federated-registry.ts: processes publish bundles    *)
(* into one directory by copying files and then reading and rewriting the  *)
(* index; others verify a bundle, or verify several and compose them. A    *)
(* build stands for an IR, its manifest and, when signed, its attestation; *)
(* a hash is the build that was hashed.  The mesh itself is a function of  *)
(* the bundles that verified: the namespaced concepts, the collisions and  *)
(* the links between domains; a reference names a concept, <<NoDomain,     *)
(* id>>, or one of a domain.                                               *)
(***************************************************************************)
EXTENDS Naturals, Sequences, FiniteSets

CONSTANTS
  Publishers, Composers,
  Domains, Versions,  \* Versions: a sequence, in the order of localeCompare
  Builds, None,
  MaxPublications     \* bound

RegistryAssumption == None \notin Builds /\ MaxPublications \in Nat /\ Versions \in Seq(STRING)

Packs == Domains \X {Versions[i] : i \in DOMAIN Versions}
NoFiles == [ir |-> None, manifest |-> None, att |-> None]
NoEntry == [ir |-> None, manifest |-> None, signed |-> FALSE]
NoIndex == [p \in Packs |-> NoEntry]

VARIABLES
  files,   \* files[p]: the directory of a pack
  index,   \* the entries of registry-index.json
  job,     \* what each publisher is doing
  mesh,    \* what each composer is doing
  count,   \* publications started
  last,    \* the build last published as p
  clean,   \* no two publications overlapped so far
  whole    \* no publication died so far

vars == <<files, index, job, mesh, count, last, clean, whole>>

NoJob == [at |-> "idle", pack |-> <<>>, build |-> None, signed |-> FALSE, entry |-> NoEntry, seen |-> NoIndex]
NoMesh == [at |-> "idle", index |-> NoIndex, asked |-> {}, todo |-> {}, irs |-> {}, errors |-> FALSE, quiet |-> TRUE]

TypeOK ==
  /\ \A p \in Packs : {files[p].ir, files[p].manifest, files[p].att, last[p]} \subseteq Builds \cup {None}
  /\ \A p \in Packs : index[p].signed \in BOOLEAN
  /\ \A c \in Composers : mesh[c].todo \subseteq Domains

Init ==
  /\ files = [p \in Packs |-> NoFiles]
  /\ index = NoIndex
  /\ job = [q \in Publishers |-> NoJob]
  /\ mesh = [c \in Composers |-> NoMesh]
  /\ count = 0
  /\ last = [p \in Packs |-> None]
  /\ clean = TRUE /\ whole = TRUE

-----------------------------------------------------------------------------
(* publishBundleToRegistry *)

\* Whoever composes meanwhile is disturbed by it.
Disturb == mesh' = [c \in Composers |-> [mesh[c] EXCEPT !.quiet = FALSE]]

Publish(q) ==
  /\ job[q] = NoJob /\ count < MaxPublications
  /\ \E p \in Packs, b \in Builds, signed \in BOOLEAN :
       job' = [job EXCEPT ![q] = [NoJob EXCEPT !.at = "ir", !.pack = p, !.build = b, !.signed = signed]]
  /\ count' = count + 1
  /\ clean' = (clean /\ \A r \in Publishers : job[r] = NoJob)
  /\ UNCHANGED <<files, index, mesh, last, whole>>

CopyIr(q) ==
  /\ job[q].at = "ir"
  /\ files' = [files EXCEPT ![job[q].pack].ir = job[q].build]
  /\ job' = [job EXCEPT ![q].at = "manifest"]
  /\ Disturb
  /\ UNCHANGED <<index, count, last, clean, whole>>

CopyManifest(q) ==
  /\ job[q].at = "manifest"
  /\ files' = [files EXCEPT ![job[q].pack].manifest = job[q].build]
  /\ job' = [job EXCEPT ![q].at = "hash"]
  /\ Disturb
  /\ UNCHANGED <<index, count, last, clean, whole>>

\* The copies are hashed.  An attestation is copied when there is one; when there
\* is none, that of an earlier publication stays in the directory.
HashCopies(q) ==
  LET p == job[q].pack IN
    /\ job[q].at = "hash"
    /\ files' = IF job[q].signed THEN [files EXCEPT ![p].att = job[q].build] ELSE files
    /\ job' = [job EXCEPT ![q].at = "load",
                          ![q].entry = [ir |-> files[p].ir, manifest |-> files[p].manifest,
                                        signed |-> job[q].signed]]
    /\ Disturb
    /\ UNCHANGED <<index, count, last, clean, whole>>

LoadIndex(q) ==
  /\ job[q].at = "load"
  /\ job' = [job EXCEPT ![q].at = "save", ![q].seen = index]
  /\ UNCHANGED <<files, index, mesh, count, last, clean, whole>>

\* The entry of this domain and version is replaced, the others stay.
SaveIndex(q) ==
  /\ job[q].at = "save"
  /\ index' = [job[q].seen EXCEPT ![job[q].pack] = job[q].entry]
  /\ last' = [last EXCEPT ![job[q].pack] = job[q].build]
  /\ job' = [job EXCEPT ![q] = NoJob]
  /\ Disturb
  /\ UNCHANGED <<files, count, clean, whole>>

Dies(q) ==
  /\ job[q] # NoJob
  /\ job' = [job EXCEPT ![q] = NoJob]
  /\ whole' = FALSE
  /\ UNCHANGED <<files, index, mesh, count, last, clean>>

-----------------------------------------------------------------------------
(* verifyRegistryBundle *)

\* The entry meant by a domain without a version is the last in the order of the
\* strings; <<>> when there is none.
Latest(d, idx) ==
  LET found == {i \in DOMAIN Versions : idx[<<d, Versions[i]>>] # NoEntry}
  IN IF found = {} THEN <<>> ELSE <<d, Versions[CHOOSE i \in found : \A j \in found : j <= i]>>

\* Both hashes are compared; an attestation has to be there, with a good signature
\* of its own, when a key is given.
Verify(p, idx, withKey) ==
  /\ p # <<>> /\ idx[p] # NoEntry
  /\ files[p].ir # None /\ files[p].ir = idx[p].ir
  /\ files[p].manifest # None /\ files[p].manifest = idx[p].manifest
  /\ withKey => files[p].att # None

-----------------------------------------------------------------------------
(* composeFederatedKnowledgeMesh *)

Compose(c) ==
  /\ mesh[c].at \in {"idle", "ended"}
  /\ \E todo \in (SUBSET Domains) \ {{}} :
       mesh' = [mesh EXCEPT ![c] = [NoMesh EXCEPT !.at = "verify", !.index = index, !.asked = todo, !.todo = todo,
                                                  !.quiet = \A q \in Publishers : job[q] = NoJob]]
  /\ UNCHANGED <<files, index, job, count, last, clean, whole>>

\* One domain: it is verified by the index of now, its entry is looked for in the
\* index that was read at the start, and its IR is read.  Without that entry the
\* domain is left out and no error is recorded.
ComposeDomain(c, d) ==
  LET p == Latest(d, index)
      valid == Verify(p, index, FALSE)
  IN /\ mesh[c].at = "verify" /\ d \in mesh[c].todo
     /\ mesh' = [mesh EXCEPT ![c].todo = @ \ {d},
                             ![c].errors = @ \/ ~valid,
                             ![c].irs = IF valid /\ mesh[c].index[p] # NoEntry
                                        THEN @ \cup {<<p, files[p].ir>>} ELSE @]
     /\ UNCHANGED <<files, index, job, count, last, clean, whole>>

\* The mesh is written to the output directory only without errors.
EndCompose(c) ==
  /\ mesh[c].at = "verify" /\ mesh[c].todo = {}
  /\ mesh' = [mesh EXCEPT ![c].at = "ended", ![c].index = index]
  /\ UNCHANGED <<files, index, job, count, last, clean, whole>>

Next ==
  \/ \E q \in Publishers :
       \/ Publish(q) \/ CopyIr(q) \/ CopyManifest(q) \/ HashCopies(q)
       \/ LoadIndex(q) \/ SaveIndex(q) \/ Dies(q)
  \/ \E c \in Composers : Compose(c) \/ EndCompose(c) \/ \E d \in Domains : ComposeDomain(c, d)

-----------------------------------------------------------------------------
(* Properties *)

\* While publications do not overlap, be it that some died half-way: a pack that
\* verifies is of one build, and that is the one last published.
ValidIsWhole ==
  clean => \A p \in Packs :
    Verify(p, index, FALSE) => files[p].ir = last[p] /\ files[p].manifest = last[p]

\* While they neither overlap nor die, every pack that was published verifies
\* between publications.
PublishedVerifies ==
  clean /\ whole /\ (\A q \in Publishers : job[q] = NoJob) =>
    \A p \in Packs : last[p] # None => Verify(p, index, FALSE)

\* A composition that reports no error, and that no publication disturbed, has of
\* each of its domains the build that was last published.
MeshIsComplete ==
  \A c \in Composers :
    mesh[c].at = "ended" /\ ~mesh[c].errors /\ mesh[c].quiet /\ clean /\ whole =>
      /\ {pair[1][1] : pair \in mesh[c].irs} = mesh[c].asked
      /\ \A pair \in mesh[c].irs : pair[2] = last[pair[1]]

\* An attestation that verifies is of the bundle that it is found with.  Not so
\* after a publication without one over a pack that has one.
AttestationIsOfBundle ==
  \A p \in Packs : clean /\ whole /\ Verify(p, index, TRUE) => files[p].att = files[p].ir

-----------------------------------------------------------------------------
CONSTANTS MeshDomains, Ids, NoDomain, Referring
\* Referring: the concepts that have references, a bound

MeshAssumption == NoDomain \notin MeshDomains

Refs == (MeshDomains \cup {NoDomain}) \X Ids
NoConcept == [deps |-> {}, body |-> {<<NoDomain, NoDomain>>}]
\* A concept: what it depends on in its frontmatter, and what its body links to.
Concept == [deps : {S \in SUBSET Refs : Cardinality(S) <= 1}, body : {S \in SUBSET Refs : Cardinality(S) <= 1}]
Leaf == [deps |-> {}, body |-> {}]

VARIABLES bundles, composed
meshVars == <<bundles, composed>>

\* mergedConcepts: every concept under the name of its domain.
Nodes(ds) == {n \in ds \X Ids : bundles[n[1]][n[2]] # NoConcept}
Owners(ds, id) == {d \in ds : <<d, id>> \in Nodes(ds)}
Collisions(ds) == {id \in Ids : Cardinality(Owners(ds, id)) > 1}

\* A mistaken resolveTargetId: a name that several domains have is that of one of them.
ResolveFirst(ds, ref, from) ==
  IF ref \in Nodes(ds) THEN {ref}
  ELSE IF ref[1] = NoDomain /\ <<from, ref[2]>> \in Nodes(ds) THEN {<<from, ref[2]>>}
  ELSE IF ref[1] = NoDomain /\ Owners(ds, ref[2]) # {}
       THEN {<<CHOOSE d \in Owners(ds, ref[2]) : TRUE, ref[2]>>}
  ELSE {}

\* resolveTargetId: the full name, then the name within the domain, then the only
\* domain that has it.
ResolveTargetId(ds, ref, from) ==
  IF ref \in Nodes(ds) THEN {ref}
  ELSE IF ref[1] = NoDomain /\ <<from, ref[2]>> \in Nodes(ds) THEN {<<from, ref[2]>>}
  ELSE IF ref[1] = NoDomain /\ Cardinality(Owners(ds, ref[2])) = 1
       THEN {<<d, ref[2]>> : d \in Owners(ds, ref[2])}
  ELSE {}

Resolved(ds, n, refs) == (UNION {ResolveTargetId(ds, r, n[1]) : r \in refs}) \ {n}

\* Links of the frontmatter, and those of the body to concepts not yet linked.
Edges(ds) ==
  UNION {LET c == bundles[n[1]][n[2]]
             deps == Resolved(ds, n, c.deps)
         IN {[src |-> n, to |-> t, rel |-> "depends_on"] : t \in deps}
              \cup {[src |-> n, to |-> t, rel |-> "references"] : t \in Resolved(ds, n, c.body) \ deps}
         : n \in Nodes(ds)}

CrossDomainEdges(ds) == {e \in Edges(ds) : e.src[1] # e.to[1]}

MeshInit ==
  /\ \E linked \in [Referring -> Concept \cup {NoConcept}],
        plain \in [(MeshDomains \X Ids) \ Referring -> {Leaf, NoConcept}] :
       bundles = [d \in MeshDomains |->
         [id \in Ids |-> IF <<d, id>> \in Referring THEN linked[<<d, id>>] ELSE plain[<<d, id>>]]]
  /\ composed = {}

\* One more domain is asked for.
ComposeMore ==
  /\ \E d \in MeshDomains \ composed : composed' = composed \cup {d}
  /\ UNCHANGED bundles

-----------------------------------------------------------------------------
(* Properties *)

\* A link that a domain has by itself is kept, whatever is composed with it: another
\* domain that has a concept of the same name neither takes it over nor hides it.
LocalLinksSurvive ==
  \A d \in composed : {[src |-> e.src, to |-> e.to] : e \in Edges({d})}
                        \subseteq {[src |-> e.src, to |-> e.to] : e \in Edges(composed)}

\* A link to another domain that does not name it is to a concept that no third
\* domain has: a collision is never resolved by chance.
NoGuessedLink ==
  \A e \in CrossDomainEdges(composed) :
    LET c == bundles[e.src[1]][e.src[2]] IN
      e.to \in c.deps \cup c.body \/ e.to[2] \notin Collisions(composed)

=================================================================================
