SPECIFICATION FairSpec
CONSTANTS
  u1 = u1
  u2 = u2
  i1 = i1
  i2 = i2
  Uuid = {u1}
  Ip = {i1}
  Key = {k1}
  Task = {t1, t2}
  Sweeper = sweeper
  MaxNonce = 2
  MaxTicks = 1
  CounterMod = 12
  NonceValue <- MCNonceValue2
  MaxTime = 3
  Cooldown = 1
  SessionTimeout = 2
  PendingTimeout = 1
  Home <- HomeShared
  Overlap = FALSE
  Cancels = FALSE
  NoSession = NoSession
  NoRequest = NoRequest
PROPERTIES
  ExpiredSwept
  ChallengeSwept
  LoginTakesEffect
CHECK_DEADLOCK FALSE
