SPECIFICATION Spec
CONSTANTS
  d1 = d1 d2 = d2 t1 = t1 t2 = t2
  DiscordUser = {d1}
  Task = {t1}
  MaxState = 1 MaxGrant = 2 MaxTime = 1
  StateTtl = 0 ConsentTtl = 0 Lifetime = 1 Margin = 0 InactiveAfter = 0
  Permits = 1
  Fails = FALSE RevokesMidway = FALSE OmitsToken = TRUE LosesAnswers = FALSE Logins = FALSE
  NoRow = NoRow NoRequest = NoRequest NoWorker = NoWorker Nobody = Nobody
INVARIANTS StoredTokenReadable
CHECK_DEADLOCK FALSE
