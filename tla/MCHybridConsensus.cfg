SPECIFICATION MCSpec
CONSTANTS
  w1 = w1
  w2 = w2
  e1 = e1
  e2 = e2
  r1 = r1
  W = {w1, w2}
  Interval = 1
  EpochDuration = 2
  MaxErrors = 2
  MaxAttempts = 4
  MaxTicks = 1
  MaxChanges = 1
  MaxStarts = 2
  Events = {e1, e2}
  Readers = {r1}
  DriftTolerance = 0
  MaxCount = 3
  k1 = k1
  k2 = k2
  Callers = {k1, k2}
  Codes = {"block"}
  DefaultStrategy <- MCStrategy
  Strategies = {"retry", "reset"}
  Limits = {1}
  Durations = {1, 2}
  MaxErrs = 4
  MaxSettings = 1
  MaxClock = 2
INVARIANTS ChainConsistent RecoveryAtomic VerifiedAtItsCount AttemptsBounded OpenBreakerAdmitsNobody
 
CHECK_DEADLOCK FALSE
