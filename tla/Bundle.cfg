SPECIFICATION MCSpec
CONSTANTS
  Servers = {"s1", "s2"}
  Cached = {"s1"}
  Docs = {"d1"}
  Titles = {"a", "b"}
  MultiLine = {"b"}
  MaxOps = 3
  WikiFiles = {"f1"}
  Bodies = {b1, b2, b3}
  ConceptIds = {"c1", "c2"}
  Hashes = {"h"}
  Tools = {"t1", "t2"}
  CapIds = {"k"}
  Levels = {1, 2}
  StrictLinks = TRUE
  Targets = {"a", "b", "x"}
  KnownTargets = {"a", "b"}
  MaxVersion = 1
INVARIANTS ServiceFilesAgree KnowledgeIsReadRight
PROPERTIES SyncLosesNothing ChangesAreSeen SynthesisKeepsText
SYMMETRY BodySymmetry
ACTION_CONSTRAINT OneOfEach
CHECK_DEADLOCK FALSE
