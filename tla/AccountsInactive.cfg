SPECIFICATION Spec
CONSTANTS
  d1 = d1 d2 = d2 t1 = t1 t2 = t2
  DiscordUser = {d1}
  Task = {t1}
  MaxState = 1 MaxGrant = 2 MaxTime = 2
  StateTtl = 0 ConsentTtl = 0 Lifetime = 1 Margin = 0 InactiveAfter = 1
  Permits = 1
  Fails = FALSE RevokesMidway = FALSE OmitsToken = FALSE LosesAnswers = FALSE Logins = TRUE
  NoRow = NoRow NoRequest = NoRequest NoWorker = NoWorker Nobody = Nobody
PROPERTIES InactiveOnly
CHECK_DEADLOCK FALSE
