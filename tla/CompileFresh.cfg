\* Two processes that build, watch, overlap, are asked for one target and stop anywhere,
\* over a document that is edited and taken back; what follows a disturbance is of the
\* builds on their way, until dist is removed.
SPECIFICATION Spec
CONSTANTS
  Docs = {doc1}
  Targets = {ir, policies}
  IR = ir
  NonConcept = {policies}
  Named = {policies}
  Provenance = TRUE
  Builders = {b1, b2}
  None = None
  MaxVersion = 2
INVARIANTS CacheIsRight
PROPERTIES FreshWhenDone
SYMMETRY Symmetry
ACTION_CONSTRAINT NoneBeginsDisturbed
