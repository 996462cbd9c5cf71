SPECIFICATION BackendSpec
CONSTANTS
  u1 = u1
  u2 = u2
  i1 = i1
  Uuid = {u1}
  Ip = {i1}
  Key = {1, 2, 3}
  MaxKey = 3
  Task = {t1}
  Sweeper = sweeper
  MaxNonce = 2
  MaxTicks = 1
  CounterMod = 4
  NonceValue <- MCNonceValue2
  MaxTime = 1
  Cooldown = 0
  SessionTimeout = 1
  PendingTimeout = 0
  Home <- HomeShared
  Overlap = FALSE
  Cancels = FALSE
  NoSession = NoSession
  NoRequest = NoRequest
  NoDesk = NoDesk
PROPERTIES
  DeletionEndsSession
CHECK_DEADLOCK FALSE
