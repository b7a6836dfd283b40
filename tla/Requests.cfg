SPECIFICATION Spec
CONSTANTS
  r1 = r1
  r2 = r2
  r3 = r3
  Request <- MCRequest
  Target = {"web", "app"}
  PushTarget = {"app"}
  ApiKey = {"k1", "k2"}
  Instants = {0, 1, 21}
  Delay = 1
  MinInterval = 2
  MaxEntries = 1
  Burst = 1
  MaxBuckets = 1
  MaxA11yInteractive = 2
  MaxA11yFormControls = 2
  MaxA11yLandmarks = 2
  MaxPages = 2
  AllowedHosts <- MCAllowed
  InternalAllowHosts = {}
  AllowLoopback = FALSE
  Literal <- MCLiteral
  Answers <- MCAnswers
  AuthForms <- MCAuthForms
  AuditForms <- MCAuditForms
  Drafted = {"explore"}
  Payloads <- MCPayloads
  Crawled <- MCCrawled
  Drafts <- MCDrafts
  Replies <- MCReplies
SYMMETRY Symmetric
INVARIANTS TypeOK LoginsArmed DrivenGoalsAuthored PushSound LimitersRemember GateSound
CHECK_DEADLOCK FALSE
