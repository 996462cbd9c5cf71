SPECIFICATION FairSpec
CONSTANTS
  d1 = d1 d2 = d2 t1 = t1 t2 = t2
  DiscordUser = {d1, d2}
  Task = {t1, t2}
  MaxState = 2 MaxGrant = 4 MaxTime = 1
  StateTtl = 0 ConsentTtl = 0 Lifetime = 1 Margin = 0 InactiveAfter = 0
  Permits = 1
  Fails = FALSE RevokesMidway = FALSE OmitsToken = FALSE LosesAnswers = FALSE Logins = TRUE
  NoRow = NoRow NoRequest = NoRequest NoWorker = NoWorker Nobody = Nobody
INVARIANTS GrantKept
PROPERTIES TicketsSwept BatchEnds RevokedAccountGoes
CHECK_DEADLOCK FALSE
