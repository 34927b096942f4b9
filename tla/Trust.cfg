SPECIFICATION Spec
CONSTANTS
  KeyCommands = {"p1", "p2"}
  KeyIds <- MCKeyIds
  Keks = {"kek", "abc"}
  Short = {"abc"}
  NoKey = 0
  Publishers = {"q1", "q2"}
  Composers = {"c1"}
  Domains = {"d1", "d2"}
  Versions <- MCVersions
  Builds = {"b1", "b2"}
  NoFile = "absent"
  MaxPublications = 2
  MeshDomains = {"d1", "d2", "d3"}
  MeshIds = {"x", "y"}
  NoDomain = "none"
  Referring <- MCReferring
  Ledgers = {"w1", "w2"}
  LedgerContents = {"x", "y"}
  MaxEvents = 3
  Permissions = {"fs:read", "fs:write", "network:outbound", "mcp:execute"}
  Handlers = {"mcp:execute"}
  Root <- MCRoot
  Paths <- MCPaths
  MaxCalls = 3
  Targets = {"ir", "agents"}
  Outputs <- MCOutputs
  Hashed = {"ir"}
  FileContents = {"c1", "c2"}
  KeyPairs = {"k1", "k2"}
  NoKeyPair = "none"
  Nothing = "absent"
  Agents = {"a1", "a2"}
  Tools = {"t1", "t2"}
  Risks = {1, 2}
  Secrets = {"s1", "s2"}
  Caveats <- MCCaveats
  MaxCaveats = 4
  MaxExpiry = 2
  Attributes = {"tool", "riskLevel"}
  Values = {"v1", "v2"}
  PolicySets = {"p1", "p2"}
  Decisions = {"allow", "deny"}
  MaxEdits = 3
INVARIANTS KeysAreSound CredentialsAreTrue FederationIsWhole PluginsAreContained
PROPERTY RecordsTellEdits
CHECK_DEADLOCK FALSE
