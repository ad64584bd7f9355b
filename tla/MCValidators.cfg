SPECIFICATION MCSpec
CONSTANTS
  v1 = v1
  v2 = v2
  p1 = p1
  Proposals = {p1}
  Changes <- MCChanges
  SuperValidators = {v1, v2}
  V = {v1, v2}
  Stakes = {1, 2}
  SetSizes = {1, 2}
  MaxStake = 3
  EpochRewards = {0, 1}
  TotalRewards = {1}
  PenaltyDivisor = 2
  MisbehaviorCounts = {0, 3}
  LockCallers = {"g1", "g2", "g3"}
SYMMETRY Symmetry
INVARIANTS ManagerStakesAdd VoteCovered
INVARIANTS DPoSStakesAdd ProducerAvailable StuckNeedsRestore
CHECK_DEADLOCK FALSE
