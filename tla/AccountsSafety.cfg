SPECIFICATION Spec
CONSTANTS
  d1 = d1 d2 = d2 t1 = t1 t2 = t2
  DiscordUser = {d1, d2}
  Task = {t1, t2}
  MaxState = 2 MaxGrant = 4 MaxTime = 2
  StateTtl = 1 ConsentTtl = 0 Lifetime = 1 Margin = 0 InactiveAfter = 0
  Permits = 1
  Fails = TRUE RevokesMidway = TRUE OmitsToken = TRUE LosesAnswers = TRUE Logins = FALSE
  NoRow = NoRow NoRequest = NoRequest NoWorker = NoWorker Nobody = Nobody
INVARIANTS TypeOK OneAccountPerUser TokensOwned
PROPERTIES StatesServeOnce ConsentsServeOnce DeletesRefusedToken
SYMMETRY AccountsSymmetry
CHECK_DEADLOCK FALSE
