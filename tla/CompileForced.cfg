\* A build that fails after NormalizeStage, and a forced one after it.
SPECIFICATION Spec
CONSTANTS
  Docs = {doc1}
  Targets = {ir, policies}
  IR = ir
  NonConcept = {policies}
  Named = {}
  Provenance = TRUE
  Builders = {b}
  None = None
  MaxVersion = 2
INVARIANTS ForcedBuildFresh
