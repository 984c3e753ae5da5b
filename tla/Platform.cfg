CONSTANTS
  Workers = {w1, w2}
  MaxSessions = 1
  MaxLogins = 2
  MaxTokens = 3
  MaxSecrets = 2
  MaxUsers = 3
  Clients = {c1, c2}
  MaxCodes = 2
  MaxGuesses = 2
  AdminWorkers = {w1, w2}
  MaxChallenges = 4
  MaxGrants = 2
  MaxCounter = 2
  MaxChanges = 1
  Threshold = 2
  KycWorkers = {w1, w2}
  MaxSubmissions = 2
  MaxPerDay = 2
  Repliers = {w1, w2}
  Admins = {a1}
  MaxMessages = 3
  MaxAlerts = 3
  QueueSize = 1
  Notifiers = {n1, n2}
  Recipients = {r1, r2}
  Tiers = {1}
  MaxRetries = 1
  MaxDoubts = 1
  AlertWindow = 2
  AlertTTL = 3
  MaxAlertTime = 7
  MaxRaised = 4
  Callers = {w1, w2}
  TripAfter = 2
  MaxLost = 1
  Limiters = {n1, n2}
  WindowRate = 2
  WindowSize = 3
  ClockSkew = 1
  MaxWindowTime = 4
  BurstSize = 2
  BucketIdle = 3
  MaxBucketTime = 8
  Processors = {w1, w2}
  EntryTiers = {a1}
  MaxSlot = 1
  SlotHorizon = 1
  EffectUsers = {a1, n1}
  MaxLife = 7
  Duration = 2
  Gains = {1}
  QtyTotal = 1
  MaxHalfHour = 5
  Players = {a1, n1}
  MaxScore = 1
  MaxDeltas = 2
  PnLBatchSize = 2
  MaxBoards = 3
  BoardSize = 2
  RankedContests = {a1, n1}
  FinalWorkers = {a1, n1}
  Editors = {1, 2}
  MaxTemplateVersions = 2
  VersionIds = {1, 2, 3}
  Contents = {"a", "x"}
  Broken = {"x"}
  MaxEdits = 3
  Mailboxes = {"m1", "m2", ""}
  MaxMails = 2
  InboxUsers = {"u1", "u2"}
  NoticeIds = {1, 2}
  Security = {2}
  ReadRetention = 0
  MaxRetention = 1
  Replicas = 2
  RetryOnLag = FALSE
  Faulty = {0}
  MaxReplicationLag = 1
  LagCheckInterval = 2
  LagTimeout = 1
  MaxPoolFaults = 1
SPECIFICATION Spec
INVARIANTS
  AccountsRight
  
  AdminAccessRight
  KycRight
  
  NotificationsRight
  AlertingRight
  MailingRight
  
  
  
  
CHECK_DEADLOCK FALSE
