SPECIFICATION MCSpec
CONSTANTS
  Slots = {s1, s2}
  Tokens = {t1, t2}
  NoToken = NoToken
  Urls = {"u1", "u2"}
  Company <- MCCompany
  Platform <- MCPlatform
  Pages <- MCPages
  Tickets = {"x1"}
  Gated = {"capture_job_posting"}
  MaxEdits = 1
  ReplyModes = {"redact", "tokenize", "detect-only"}
  Ids = {"confirm_application_submission", "restart_service"}
  BuiltIn = {"confirm_application_submission"}
  Handlers = {"restart"}
  Namespaces = {"prod", "kube-system", "Prod;", "qa"}
  WellFormed = {"prod", "kube-system", "qa"}
  Allowed = {"prod", "kube-system", "Prod;"}
  MaxReplicas = 1
  MaxRevision = 2
  Hosts = {"malformed", "ftp", "metadata", "loopback", "private", "public"}
  MaxRetries = 2
  MaxDispatches = 2
INVARIANT SubmissionsAreApproved
PROPERTY ToolsAreGoverned
SYMMETRY Symmetry
CHECK_DEADLOCK FALSE
