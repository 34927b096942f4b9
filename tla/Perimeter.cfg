SPECIFICATION MCFairSpec
CONSTANTS
  RuleSet <- MCRules
  RuleRequests <- MCRequests
  MaxRules = 2
  Cards <- MCCards
  CardRequests <- MCCalls
  MaxLog = 1
  MaxTokens = 3
  Interval = 3
  RateNum = 2
  RateDen = 1
  Skews <- MCSkews
  Expires = TRUE
  Slack = 3
  ApiKeys <- MCKeys
  Jwts <- MCJwts
  AuthConfig <- MCAuthConfig
  Tolerance = 1
  AuthTime = 5
  AttemptTokens = 2
  AttemptInterval = 2
  AttemptNum = 1
  AttemptDen = 1
  Callers = {"c"}
  Users = {"u"}
  WindowMs = 2
  MaxRequests = 2
  DemoMode = FALSE
  DashboardTime = 5
  Clients = {"c"}
  Limits = {1, 2}
  MaxVersion = 3
  Bundles <- MCBundles
  Suspects <- MCSuspects
  Uris <- MCUris
INVARIANTS AnalysisIsRight CardsAreEnforced
PROPERTIES LimitsRate AskerIsServed EntryIsEntitled PersonalDataIsKept
CHECK_DEADLOCK FALSE
