SPECIFICATION Spec
CONSTANTS
  u1 = u1
  u2 = u2
  i1 = i1
  i2 = i2
  Uuid = {u1}
  Ip = {i1, i2}
  Key = {k1}
  Task = {t1, t2}
  Sweeper = sweeper
  MaxNonce = 2
  MaxTicks = 2
  CounterMod = 12
  NonceValue <- MCNonceValue2
  MaxTime = 1
  Cooldown = 0
  SessionTimeout = 1
  PendingTimeout = 0
  Home <- HomeAny
  Overlap = TRUE
  Cancels = TRUE
  NoSession = NoSession
  NoRequest = NoRequest
SYMMETRY TaskSymmetry
INVARIANTS
  TypeOK
  NoReplay
  FutureCountersUnused
  ChallengeOrder
  SessionHasGateway
PROPERTIES
  ReplayGuardSpec
CHECK_DEADLOCK FALSE
