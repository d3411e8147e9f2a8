SPECIFICATION Spec
CONSTANTS
  Synced = {"r1", "r2"}
  CAPTION_WAIT = 1
  CAPTION_MAX_ATTEMPTS = 2
  PENDING_STUCK = 1
  SWEEP_TAKE = 2
  SWEEP_UPLOAD_LIMIT = 1
  MaxCaptionRequests = 2
  Jobs = {"j1", "j2"}
  QUOTA_LIMIT = 6
  UPLOAD_COST = 3
  CAPTION_LIST_COST = 1
  CAPTION_INSERT_COST = 1
  CAPTION_UPDATE_COST = 2
  LIST_COST = 1
  WRITE_COST = 2
  MAX_PAGES = 1
  MaxBooked = 3
  MaxDays = 2
  OnChannel = {"v1", "v2"}
  MaxChanges = 3
  MaxAsks = 3
  Slots = {1, 2}
  MaxTokens = 2
  MaxSteps = 3
  Emails = {"a", "b"}
  BootstrapEmail = "a"
  NoAccount = NoAccount
  Workspaces = {"w"}
  Admins = {1, 2}
  MaxAccountOps = 2
  Hosts = {"u", "v"}
  Topic <- MCTopic
  Workflows <- MCWorkflows
  RuleForms <- MCRuleForms
  Setups <- MCSetups
  MIN_SCHEDULE_LEAD = 1
  MAX_AUTO_RETRIES = 1
  MaxClock = 2
  MaxFormSaves = 1
  Unset = Unset
  Users = {"u", "w"}
  Recorded <- MCRecorded
  Published <- MCPublished
  Linkers = {1, 2}
  MaxMatchRequests = 3
  NoMatch = NoMatch
  Questions = {"q1", "q2"}
  Words = {"tea"}
  Texts <- MCTexts
  Tabs = {"a1", "a2", "b1"}
  Participant <- MCParticipant
  Organisers = {1, 2}
  Limit <- MCLimit
  Hiding <- MCHiding
  Duplicates = {"q2"}
  MaxCalls = 4
  Nothing = Nothing
  Addresses = {"ip"}
  WINDOW_MS = 2
  MAX_REQUESTS_PER_WINDOW = 2
  MaxTime = 7
  MaxHits = 8
  Subjects = {"s"}
  CONSENT_TTL_MS = 2
  MaxAwait = 1
  Captures = {1}
  Answering = {1, 2}
  MaxInstant = 6
  MaxConsents = 2
  MonthFirsts <- MCMonthFirsts
  Ranges <- MCRanges
  LateDays = {45}
  ZoomAccounts = {"A", "B"}
  NotConnected = NotConnected
  MAX_RECORDING_WINDOWS = 3
  RECORDING_WINDOW_CONCURRENCY = 2
  EXPIRES_IN = 2
  MARGIN = 1
  MaxMoment = 2
  Grantees = {"a", "b"}
  GoogleAccounts = {"g"}
  Targets = {"w1", "w2"}
  Consents = {"c1", "c2"}
  MaxUses = 1
  NoGrant = NoGrant
INVARIANTS TypeOK QuotaOvershoot ListsKeepUp RightsHold  
  CloudIsBacked AnswersWithinTabs  LimitsHold
PROPERTIES CurrentStaysOpen CaptionsSettle TokenMarkSettles
CHECK_DEADLOCK FALSE
