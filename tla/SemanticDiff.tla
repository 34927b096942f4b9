------------------------------ MODULE SemanticDiff ------------------------------
(***************************************************************************)
(* SemanticDiffEngine (core/src/diff/semantic-diff.ts) as the gate of a    *)
(* release: each proposed bundle is compared with the released one, and    *)
(* one whose difference is breaking is refused.  A content is a hash; the  *)
(* levels of risk, effect and autonomy are their numbers.                  *)
(***************************************************************************)
EXTENDS Naturals, Sequences, FiniteSets

CONSTANTS ConceptIds, Hashes, Statuses, Tools, CapIds, Levels, StrictLinks

\* A level of risk, of effect or of autonomy is a number; the plain policy has the first.
DiffAssumption == Levels \subseteq Nat /\ 1 \in Levels /\ StrictLinks \in BOOLEAN

None == "none"
NoConcept == [hash |-> None, status |-> None]
NoCap == [risk |-> 0, effects |-> 0, approval |-> FALSE, reads |-> FALSE, writes |-> FALSE, there |-> FALSE]

ConceptStates == [hash : Hashes, status : Statuses] \cup {NoConcept}
CapStates == [risk : Levels, effects : Levels, approval : BOOLEAN, reads : BOOLEAN,
              writes : BOOLEAN, there : {TRUE}] \cup {NoCap}
Policies == [autonomy : Levels, disable : BOOLEAN, approvals : SUBSET Tools,
             pii : {"redact", "tokenize", None}]

Pairs == {p \in ConceptIds \X ConceptIds : p[1] # p[2]}

VARIABLES first, released, refused
vars == <<first, released, refused>>

TypeOK == released.links \subseteq Pairs /\ released.policies \in Policies

Ids(ir) == {c \in ConceptIds : ir.concepts[c] # NoConcept}
Caps(ir) == {c \in CapIds : ir.caps[c].there}

\* 1. Concepts
Added(base, new) == Ids(new) \ Ids(base)
Removed(base, new) == Ids(base) \ Ids(new)
Modified(base, new) == {c \in Ids(base) \cap Ids(new) : base.concepts[c] # new.concepts[c]}

\* A concept was removed, or became deprecated or archived.
ConceptsBreak(base, new) ==
  \/ Removed(base, new) # {}
  \/ \E c \in Modified(base, new) :
       /\ base.concepts[c].status # new.concepts[c].status
       /\ new.concepts[c].status \in {"deprecated", "archived"}

\* 2. Links: a link to nothing breaks, be it an old one, unless links are not strict.
BrokenLinks(new) == {l \in new.links : l[2] \notin Ids(new)}
LinksBreak(new) == StrictLinks /\ BrokenLinks(new) # {}

\* 3. Policies
PolicyFields(p, q) ==
  {f \in {"autonomy", "disable", "approvals", "pii"} : p[f] # q[f]}

PoliciesBreak(p, q) ==
  \/ q.autonomy > p.autonomy
  \/ p.disable /\ ~q.disable
  \/ p.approvals \ q.approvals # {}
  \/ p.pii = "redact" /\ q.pii # "redact"

\* 4. Capabilities: what is listed as changed.  An approval that becomes required
\* and an access to personal data that ends are not.
CapChanges(c, d) ==
  {f \in {"risk", "effects"} : c[f] # d[f]}
    \cup {f \in {"approval"} : c[f] /\ ~d[f]} \cup {f \in {"reads", "writes"} : ~c[f] /\ d[f]}

CapBreaks(c, d) ==
  \/ d.risk > c.risk \/ d.effects > c.effects
  \/ CapChanges(c, d) \cap {"approval", "reads", "writes"} # {}

CapsBreak(base, new) ==
  \/ Caps(base) \ Caps(new) # {}
  \/ \E c \in Caps(base) \cap Caps(new) : CapBreaks(base.caps[c], new.caps[c])

\* A mistaken verdict: links that were broken before are not looked at.
DiffOfNewLinks(base, new) ==
  [concepts |-> <<Added(base, new), Removed(base, new), Modified(base, new)>>,
   links |-> <<new.links \ base.links, base.links \ new.links, BrokenLinks(new)>>,
   policies |-> PolicyFields(base.policies, new.policies), caps |-> {},
   isBreaking |-> \/ ConceptsBreak(base, new) \/ BrokenLinks(new) \ base.links # {}
                  \/ PoliciesBreak(base.policies, new.policies) \/ CapsBreak(base, new)]

Diff(base, new) ==
  [concepts |-> <<Added(base, new), Removed(base, new), Modified(base, new)>>,
   links |-> <<new.links \ base.links, base.links \ new.links, BrokenLinks(new)>>,
   policies |-> PolicyFields(base.policies, new.policies),
   caps |-> (Caps(base) \ Caps(new)) \cup (Caps(new) \ Caps(base))
              \cup {c \in Caps(base) \cap Caps(new) : CapChanges(base.caps[c], new.caps[c]) # {}},
   isBreaking |-> ConceptsBreak(base, new) \/ LinksBreak(new)
                    \/ PoliciesBreak(base.policies, new.policies) \/ CapsBreak(base, new)]

-----------------------------------------------------------------------------
(* The gate *)

Plain ==
  [concepts |-> [c \in ConceptIds |-> NoConcept], links |-> {},
   policies |-> [autonomy |-> 1, disable |-> TRUE, approvals |-> {}, pii |-> None],
   caps |-> [c \in CapIds |-> NoCap]]

\* The bundle with other knowledge.
Redrawn(ir, cs, ls) == [ir EXCEPT !.concepts = cs, !.links = ls]

\* A bundle that differs from this one in its knowledge, in its policies or in its
\* capabilities.
Variants(ir) ==
  {Redrawn(ir, cs, ls) : cs \in [ConceptIds -> ConceptStates], ls \in SUBSET Pairs}
  \cup {[ir EXCEPT !.policies = p] : p \in Policies}
  \cup {[ir EXCEPT !.caps = cs] : cs \in [CapIds -> CapStates]}

Init ==
  /\ first \in Variants(Plain)
  /\ released = first
  /\ refused = FALSE

\* The proposals vary the part in which the first bundle is not plain.
Proposals ==
  IF first.policies # Plain.policies THEN {[Plain EXCEPT !.policies = p] : p \in Policies}
  ELSE IF first.caps # Plain.caps THEN {[Plain EXCEPT !.caps = cs] : cs \in [CapIds -> CapStates]}
  ELSE {Redrawn(Plain, cs, ls) : cs \in [ConceptIds -> ConceptStates], ls \in SUBSET Pairs}

Release ==
  \E new \in Proposals :
    LET d == Diff(released, new) IN
      /\ refused' = d.isBreaking
      /\ released' = IF d.isBreaking THEN released ELSE new
      /\ UNCHANGED first

Spec == Init /\ [][Release]_vars

-----------------------------------------------------------------------------
(* Properties *)

\* However many releases passed, one after the other, none of the first bundle's
\* concepts, approvals or other restrictions was lost in small steps.
ReleasesAddUp ==
  LET p == first.policies
      q == released.policies
  IN /\ Ids(first) \subseteq Ids(released) /\ Caps(first) \subseteq Caps(released)
     /\ \A c \in Ids(first) : released.concepts[c].status \in {"active", first.concepts[c].status}
     /\ p.approvals \subseteq q.approvals /\ q.autonomy <= p.autonomy
     /\ (p.disable => q.disable) /\ (p.pii = "redact" => q.pii = "redact")
     /\ \A k \in Caps(first) :
          LET c == first.caps[k]
              d == released.caps[k]
          IN /\ d.risk <= c.risk /\ d.effects <= c.effects
             /\ (c.approval => d.approval) /\ (d.reads => c.reads) /\ (d.writes => c.writes)

\* No release after the first one has a link to nothing.
NoBrokenRelease == [][released' # released /\ StrictLinks => BrokenLinks(released') = {}]_vars

\* Of two bundles that replace each other without breaking, neither is looser: they
\* ask for the same approvals and grant the same levels.
NeitherIsLooser ==
  \A p \in Policies :
    ~PoliciesBreak(p, released.policies) /\ ~PoliciesBreak(released.policies, p) =>
      /\ p.approvals = released.policies.approvals
      /\ p.autonomy = released.policies.autonomy /\ p.disable = released.policies.disable

=================================================================================
